----------------------------- MODULE PhysicalDag -----------------------------
(***************************************************************************)
(* The structural checks on an approved physical plan and on the operator  *)
(* events of a certificate (src/trustaero/validator/physical_dag.py).      *)
(*                                                                         *)
(* A plan is [operators |-> sequence of [id, inputs], output |-> id]; the  *)
(* order of an operator's inputs never matters here, so inputs is a set.   *)
(* An event is [sequence, event_type, operator_id].                        *)
(***************************************************************************)
EXTENDS Naturals, Sequences

Indices(plan) == DOMAIN plan.operators

Known(plan) == {plan.operators[k].id : k \in Indices(plan)}

DuplicateFree(plan) ==
  \A j, k \in Indices(plan) :
    plan.operators[j].id = plan.operators[k].id => j = k

\* The id map keeps the last specification written under an id.
LastIndex(plan, o) ==
  CHOOSE k \in Indices(plan) :
    /\ plan.operators[k].id = o
    /\ \A j \in Indices(plan) : plan.operators[j].id = o => j <= k

Inputs(plan, o) == plan.operators[LastIndex(plan, o)].inputs

InputsKnown(plan) ==
  \A k \in Indices(plan) : plan.operators[k].inputs \subseteq Known(plan)

OutputKnown(plan) == plan.output \in Known(plan)

(* A cycle exists iff in some nonempty set every operator has an input in  *)
(* the set: what the depth-first walk over the inputs finds.               *)
Acyclic(plan) ==
  \A S \in SUBSET Known(plan) :
    S # {} => \E o \in S : Inputs(plan, o) \cap S = {}

\* S holds the known inputs of each of its operators.
InputClosed(plan, S) ==
  \A o \in S : Inputs(plan, o) \cap Known(plan) \subseteq S

\* Every operator contributes to the output.
AllReachable(plan) ==
  OutputKnown(plan) =>
    \A S \in SUBSET Known(plan) :
      plan.output \in S /\ InputClosed(plan, S) => S = Known(plan)

ValidPhysicalPlanDag(plan) ==
  /\ DuplicateFree(plan)
  /\ InputsKnown(plan)
  /\ OutputKnown(plan)
  /\ Acyclic(plan)
  /\ AllReachable(plan)

(* The operators o transitively depends on: in every input-closed set that *)
(* holds o's inputs.                                                       *)
Ancestors(plan, o) ==
  {a \in Known(plan) :
     \A S \in SUBSET Known(plan) :
       Inputs(plan, o) \cap Known(plan) \subseteq S /\ InputClosed(plan, S)
         => a \in S}
-----------------------------------------------------------------------------
IsEvent(events, i, type, o) ==
  events[i].event_type = type /\ events[i].operator_id = o

Occurs(events, type, o) == \E i \in DOMAIN events : IsEvent(events, i, type, o)

\* _event_index: the sequence number of the first such event in list order.
EventIndex(events, type, o) ==
  events[CHOOSE i \in DOMAIN events :
           /\ IsEvent(events, i, type, o)
           /\ \A j \in DOMAIN events : IsEvent(events, j, type, o) => i <= j
        ].sequence

\* Mutant of ValidDependencyEvents: an input only has to have started.
StartedDependencyEvents(plan, events) ==
  /\ DuplicateFree(plan)
  /\ \A o \in Known(plan) :
       Occurs(events, "OperatorStarted", o) =>
         \A d \in Inputs(plan, o) :
           Occurs(events, "OperatorStarted", d) =>
             EventIndex(events, "OperatorStarted", d)
               < EventIndex(events, "OperatorStarted", o)

(* An operator starts only after its direct inputs complete; operators     *)
(* without a start event and inputs without a completion are skipped.      *)
ValidDependencyEvents(plan, events) ==
  /\ DuplicateFree(plan)
  /\ \A o \in Known(plan) :
       Occurs(events, "OperatorStarted", o) =>
         \A d \in Inputs(plan, o) :
           Occurs(events, "OperatorCompleted", d) =>
             EventIndex(events, "OperatorCompleted", d)
               < EventIndex(events, "OperatorStarted", o)
=============================================================================
