----------------------------- MODULE LogicalPlan -----------------------------
(***************************************************************************)
(* Logical plans, their graph check (validate_graph) and the enforcement   *)
(* suffix of a rewritten plan (_enforcement_suffix).                       *)
(*                                                                         *)
(* A plan is [operators |-> sequence, output |-> id].  An operator is      *)
(* [id, type, inputs (sequence of ids), dataset, snapshot, fields, keys,   *)
(* method, amount]; what a type does not use is left at a default.         *)
(***************************************************************************)
EXTENDS Integers, Sequences, SequencesExt

Dag == INSTANCE PhysicalDag

Arity(type) ==
  CASE type = "ScanSource" -> 0
    [] type \in {"Join", "SpatialJoin"} -> 2
    [] OTHER -> 1

DagOf(plan) ==
  [operators |-> [k \in DOMAIN plan.operators |->
                    [id |-> plan.operators[k].id,
                     inputs |-> ToSet(plan.operators[k].inputs)]],
   output |-> plan.output]

(* validate_graph finds nothing: arities, unique ids, a known output,      *)
(* bound references, no cycle, and nothing that the output does not use.   *)
ValidGraph(plan) ==
  /\ \A k \in DOMAIN plan.operators :
       Len(plan.operators[k].inputs) = Arity(plan.operators[k].type)
  /\ Dag!ValidPhysicalPlanDag(DagOf(plan))

Ids(plan) == {plan.operators[k].id : k \in DOMAIN plan.operators}

OperatorOf(plan, o) ==
  plan.operators[CHOOSE k \in DOMAIN plan.operators : plan.operators[k].id = o]

OfType(plan, type) == {k \in DOMAIN plan.operators : plan.operators[k].type = type}

Scans(plan) == OfType(plan, "ScanSource")

Scanned(plan) == {plan.operators[k].dataset : k \in Scans(plan)}

\* The operators a plan's output is computed from, itself included.
OutputPath(plan) == {plan.output} \cup Dag!Ancestors(DagOf(plan), plan.output)

(* _output_depends_on_aggregate: a minimum group size can guard the output *)
OutputDependsOnAggregate(plan) ==
  \E o \in OutputPath(plan) : OperatorOf(plan, o).type = "Aggregate"

(* The walk back from the output through unary operators; it stays where   *)
(* it is when it meets an operator that is not unary.                      *)
WalkBack(plan) ==
  LET back[n \in 0 .. Len(plan.operators)] ==
        IF n = 0 THEN plan.output
        ELSE IF Len(OperatorOf(plan, back[n - 1]).inputs) = 1
               THEN OperatorOf(plan, back[n - 1]).inputs[1]
               ELSE back[n - 1]
  IN back

ReachesBoundary(plan, boundary) == boundary \in Range(WalkBack(plan))

(* The operators strictly after the boundary on the walk: the only ones    *)
(* that may count as enforcement.                                          *)
EnforcementSuffix(plan, boundary) ==
  LET back == WalkBack(plan)
      After(o) == \E m \in DOMAIN back :
                    o = back[m] /\ boundary \notin {back[l] : l \in 0 .. m}
  IN {op \in Range(plan.operators) : After(op.id)}
=============================================================================
