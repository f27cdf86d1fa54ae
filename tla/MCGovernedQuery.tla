---------------------------- MODULE MCGovernedQuery ----------------------------
(* The four candidates of the case study, whose exposure follows from the  *)
(* row counts, and protocols that differ in one thing each.                *)
EXTENDS GovernedQuery

Profile(name, raw, masked) ==
  [id |-> name, equivalence |-> "governed-result",
   exposure |-> [raw_join |-> 0, raw_materialized |-> raw, masked_materialized |-> masked,
                 checkpoint |-> name # "fused"],
   work |-> [boundaries |-> IF name = "fused" THEN 0 ELSE 1, raw |-> raw, masked |-> masked]]

\* Rows of earthquakes and wells: a join with one well is as large as its input.
Bounds(earthquakes, wells) ==
  {Profile("fused", 0, 0), Profile("after-magnitude", earthquakes, 0),
   Profile("after-join", earthquakes * wells, 0),
   Profile("after-mask", 0, earthquakes * wells)}

RowProfiles == [content \in {"old", "new", "other", "bare"} |->
  CASE content = "old" -> Bounds(2, 3) [] content = "new" -> Bounds(2, 2)
    [] content = "other" -> Bounds(3, 1) [] content = "bare" -> Bounds(2, 0)]

\* The other table differs from the old one in rows the result does not show.
GovernedRows == [request \in {"q"} |-> [content \in {"old", "new", "other", "bare"} |->
  CASE content \in {"old", "other"} -> {"w1", "w2"} [] content = "new" -> {"w1", "w3"}
    [] content = "bare" -> {}]]

NoRawCheckpoint == [id |-> "no-raw", joined |-> None, materialized |-> 0, checkpoint |-> TRUE]
AnyCheckpoint == [id |-> "any", joined |-> None, materialized |-> None, checkpoint |-> TRUE]
Anything == [id |-> "anything", joined |-> None, materialized |-> None, checkpoint |-> FALSE]

Frozen ==
  [study |-> "v2", request |-> "q", policy |-> "p1", lineage |-> "source",
   snapshot |-> "old", table |-> None, limits |-> NoRawCheckpoint, required |-> "after-mask",
   result |-> GovernedRows["q"]["old"]]

Refreshed == [Frozen EXCEPT !.snapshot = "new", !.table = "new",
                         !.result = GovernedRows["q"]["new"]]
Lenient == [Frozen EXCEPT !.limits = AnyCheckpoint]
Unlimited == [Frozen EXCEPT !.limits = Anything]
OtherPolicy == [Frozen EXCEPT !.policy = "p2", !.result = None]
FirstStudy == [Frozen EXCEPT !.study = "v1", !.result = None]
RecordLevel == [FirstStudy EXCEPT !.lineage = "record"]

AllProtocols ==
  {Frozen, Refreshed, Lenient, Unlimited, OtherPolicy, FirstStudy, RecordLevel}
=============================================================================
