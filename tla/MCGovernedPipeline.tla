-------------------------- MODULE MCGovernedPipeline --------------------------
(* Three or four events; the policy admits some of their values, the query  *)
(* some of their buckets, and the dimension has their keys, once or twice   *)
(* or not at all.                                                           *)
EXTENDS GovernedPipeline

CONSTANT Values

Event(i, value, key, bucket) ==
  [row_id |-> i, sensitive_value |-> value, join_key |-> key, query_bucket |-> bucket]

Line(key, marker) == [dimension_key |-> key, marker |-> marker]

\* Values are numbered so that events and policies are easy to enumerate.
Numbered == SetToSeq(Values)

\* Keys repeat over the domain in the generated events.
Cyclic == {Event(0, Numbered[1], 0, 0), Event(1, Numbered[2], 1, 0),
           Event(2, Numbered[3], 0, 1), Event(3, Numbered[3], 1, 1)}

Own3 == {Event(0, Numbered[1], 0, 0), Event(1, Numbered[2], 1, 1), Event(2, Numbered[3], 2, 2)}

Unused == {}

Full == {Line(0, 5), Line(1, 7), Line(2, 5)}
Half == {Line(0, 5)}
Twice == {Line(0, 5), Line(0, 6)}

Declared == {[policy |-> 5, query |-> 5, match |-> 10], [policy |-> 5, query |-> 5, match |-> 5]}

AllUnits ==
  [kind : {"pipeline", "checkpoint"}, native : BOOLEAN, events : {Cyclic, Own3},
   lines : {Unused, Half, Twice, Full}, policy : SUBSET Values, query : 0 .. 3,
   width : {128}, declared : Declared, coverage : {0, 6, 9}]

\* What a unit does not use has one value.
Used(u) ==
  /\ ~u.native => u.events = Cyclic /\ u.lines = Unused
  /\ u.native => u.lines # Unused
  /\ u.coverage = 0 <=> ~(u.native /\ u.kind = "pipeline")
  /\ u.native \/ u.kind = "checkpoint" => u.declared.match = 10

MCUnits == {u \in AllUnits : Used(u)}
=============================================================================
