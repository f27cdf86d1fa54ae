------------------------- MODULE DependencyExecution -------------------------
(***************************************************************************)
(* What a governed execution promises, without its log: an approved plan's *)
(* operators run in dependency order, independent branches in any          *)
(* interleaving; the result is materialized once every operator has        *)
(* completed, lineage is recorded after the result, and the certificate is *)
(* emitted last.  (docs/architecture.md, "Certificate verification":       *)
(* "TrustAero rejects dependency violations, not legitimate parallelism".) *)
(***************************************************************************)
EXTENDS PhysicalDag, FiniteSets

CONSTANTS OperatorId,   \* names an operator can have
          Plan          \* the approved physical plan

ASSUME PlanAssumption ==
  /\ Plan.operators \in Seq([id : OperatorId, inputs : SUBSET OperatorId])
  /\ ValidPhysicalPlanDag(Plan)

VARIABLES stage,      \* how far the whole execution is
          started,    \* operators that have started
          completed,  \* operators that have completed
          recorded    \* lineage has been recorded

execVars == <<stage, started, completed, recorded>>

Stages == {"pending", "approved", "materialized", "emitted"}

\* Types: only operators of the plan start and complete.
ExecTypeOK ==
  /\ stage \in Stages
  /\ started \subseteq Known(Plan)
  /\ completed \subseteq Known(Plan)
  /\ recorded \in BOOLEAN

ExecInit ==
  /\ stage = "pending"
  /\ started = {}
  /\ completed = {}
  /\ recorded = FALSE

Approve ==
  /\ stage = "pending"
  /\ stage' = "approved"
  /\ UNCHANGED <<started, completed, recorded>>

Start(o) ==
  /\ stage = "approved"
  /\ o \notin started
  /\ Inputs(Plan, o) \subseteq completed
  /\ started' = started \cup {o}
  /\ UNCHANGED <<stage, completed, recorded>>

Complete(o) ==
  /\ stage = "approved"
  /\ o \in started \ completed
  /\ completed' = completed \cup {o}
  /\ UNCHANGED <<stage, started, recorded>>

Materialize ==
  /\ stage = "approved"
  /\ completed = Known(Plan)
  /\ stage' = "materialized"
  /\ UNCHANGED <<started, completed, recorded>>

RecordLineage ==
  /\ stage = "materialized"
  /\ ~recorded
  /\ recorded' = TRUE
  /\ UNCHANGED <<stage, started, completed>>

Emit ==
  /\ stage = "materialized"
  /\ stage' = "emitted"
  /\ UNCHANGED <<started, completed, recorded>>

ExecNext ==
  \/ Approve
  \/ \E o \in Known(Plan) : Start(o) \/ Complete(o)
  \/ Materialize
  \/ RecordLineage
  \/ Emit

ExecSpec == ExecInit /\ [][ExecNext]_execVars
-----------------------------------------------------------------------------
Finished == stage \in {"materialized", "emitted"}

(* The executor's invariant: an operator that runs has all its inputs, and *)
(* a result exists only when every operator has completed.                 *)
DependenciesRespected ==
  /\ completed \subseteq started
  /\ \A o \in started : Inputs(Plan, o) \subseteq completed
  /\ stage = "pending" => started = {}
  /\ Finished => completed = Known(Plan)
  /\ recorded => Finished

(* The operators of an approved plan never wait on each other: while one   *)
(* has not completed, one can start or complete.                           *)
NeverStuck ==
  stage = "approved" /\ completed # Known(Plan) =>
    \/ started # completed
    \/ \E o \in Known(Plan) \ started : Inputs(Plan, o) \subseteq completed
=============================================================================
