-------------------------- MODULE CertificateEvents --------------------------
(***************************************************************************)
(* The recorder of src/trustaero/experiments/real_data_governed.py:        *)
(* _certificate_events writes the event log of an executed plan, visiting  *)
(* the operators in the rounds of _topological_physical_operators.  Each   *)
(* round holds the operators whose inputs all completed in earlier rounds; *)
(* the order inside a round (by id in the code) is left open.              *)
(***************************************************************************)
EXTENDS EventCoverage, FiniteSets

CONSTANTS OperatorId, Plan

(* The planner's plan, as the verifier will require it to be.              *)
ASSUME ApprovedPlanAssumption ==
  /\ Plan.operators \in Seq([id : OperatorId, inputs : SUBSET OperatorId])
  /\ ValidPhysicalPlanDag(Plan)
  /\ NoOperator \notin OperatorId

VARIABLES phase,      \* the next kind of event
          waiting,    \* operators of later rounds (the code's remaining)
          round,      \* operators of this round without events yet
          running,    \* the operator whose start is the last event, if any
          completed,  \* operators with both events
          events

recorderVars == <<phase, waiting, round, running, completed, events>>

Event(sequence, type, o) ==
  [sequence |-> sequence, event_type |-> type, operator_id |-> o]

\* Mutant of Record: the counter stays when an operator completes.
RecordSticky(type, o) ==
  events' = Append(events, Event(Len(events) - Cardinality(completed), type, o))

Record(type, o) == events' = Append(events, Event(Len(events), type, o))

RecorderInit ==
  /\ phase = "plan"
  /\ waiting = Known(Plan)
  /\ round = {}
  /\ running = {}
  /\ completed = {}
  /\ events = <<>>

\* An event about the whole run, and the place in the log that follows it.
WriteRun(here, type, next) ==
  /\ phase = here
  /\ phase' = next
  /\ Record(type, NoOperator)
  /\ UNCHANGED <<waiting, round, running, completed>>

WritePlan == WriteRun("plan", "PlanApproved", "decision")

WriteDecision == WriteRun("decision", "PolicyDecisionRecorded", "operators")

\* Mutant of Ready: every waiting operator.
AnyWaiting == waiting

Ready == {o \in waiting : Inputs(Plan, o) \subseteq completed}

(* The next round.  An empty one would mean a cycle or an unbound input,   *)
(* which the code refuses with an exception: no step here.                 *)
FormRound ==
  /\ phase = "operators" /\ round = {} /\ running = {}
  /\ Ready # {}
  /\ round' = Ready
  /\ waiting' = waiting \ Ready
  /\ UNCHANGED <<phase, running, completed, events>>

WriteStart(o) ==
  /\ phase = "operators" /\ running = {}
  /\ o \in round
  /\ round' = round \ {o}
  /\ running' = {o}
  /\ Record("OperatorStarted", o)
  /\ UNCHANGED <<phase, waiting, completed>>

WriteCompletion(o) ==
  /\ running = {o}
  /\ running' = {}
  /\ completed' = completed \cup {o}
  /\ Record("OperatorCompleted", o)
  /\ UNCHANGED <<phase, waiting, round>>

WriteResult ==
  /\ waiting = {} /\ round = {} /\ running = {}
  /\ WriteRun("operators", "ResultMaterialized", "lineage")

WriteLineage == WriteRun("lineage", "LineageRecorded", "certificate")

WriteCertificate == WriteRun("certificate", "CertificateEmitted", "end")

RecorderNext ==
  \/ WritePlan
  \/ WriteDecision
  \/ FormRound
  \/ \E o \in Known(Plan) : WriteStart(o) \/ WriteCompletion(o)
  \/ WriteResult
  \/ WriteLineage
  \/ WriteCertificate

RecorderSpec == RecorderInit /\ [][RecorderNext]_recorderVars

(* The function runs to its return.                                        *)
FairRecorderSpec == RecorderSpec /\ WF_recorderVars(RecorderNext)
-----------------------------------------------------------------------------
\* The execution that the log tells of.
recordedStage ==
  CASE phase = "plan" -> "pending"
    [] phase \in {"decision", "operators"} -> "approved"
    [] phase \in {"lineage", "certificate"} -> "materialized"
    [] phase = "end" -> "emitted"

Recorded == INSTANCE RecordedExecution WITH
  stage <- recordedStage,
  started <- completed \cup running,
  recorded <- phase \in {"certificate", "end"}

(* The rounds are a partition of what is left, and what an operator of the *)
(* current round reads has completed: the recorder never has to write an   *)
(* operator twice or out of order.                                         *)
RoundsOK ==
  /\ phase \in {"plan", "decision", "operators", "lineage", "certificate", "end"}
  /\ Known(Plan) = waiting \cup round \cup running \cup completed
  /\ waiting \cap (round \cup running \cup completed) = {}
  /\ round \cap (running \cup completed) = {}
  /\ running \cap completed = {}
  /\ \A o \in round \cup running \cup completed : Inputs(Plan, o) \subseteq completed
  /\ phase \in {"plan", "decision"} => round \cup running \cup completed = {}
  /\ phase \in {"lineage", "certificate", "end"} => completed = Known(Plan)

(* The recorder's log is one of an execution in dependency order, as the   *)
(* verifier of module CertificateAudit expects it.                         *)
RecorderIsAnExecution == Recorded!Spec

(* On a plan whose DAG is valid the rounds never run dry (the exception    *)
(* "Approved physical plan is cyclic or unbound" is not raised), and the   *)
(* finished log passes the verifier's event checks.                        *)
LogAccepted ==
  <>(phase = "end" /\ ValidEventCoverage(Plan, events, TRUE))
=============================================================================
