-------------------------- MODULE RecordedExecution --------------------------
(***************************************************************************)
(* A trusted executor that runs an approved plan and records every step:   *)
(* DependencyExecution with the event log of the certificate.  The code's  *)
(* own executor is sequential (module CertificateEvents); this one also    *)
(* overlaps independent branches, which the verifier must not mistake for  *)
(* a dependency violation.                                                 *)
(***************************************************************************)
EXTENDS DependencyExecution, EventCoverage

ASSUME OperatorAssumption == NoOperator \notin OperatorId

VARIABLE events

EventTypes ==
  {"PlanApproved", "OperatorStarted", "OperatorCompleted", "PolicyDecisionRecorded",
   "ResultMaterialized", "LineageRecorded", "CertificateEmitted"}

vars == <<execVars, events>>

Event(sequence, type, o) ==
  [sequence |-> sequence, event_type |-> type, operator_id |-> o]

Record(type, o) == events' = Append(events, Event(Len(events), type, o))

Init == ExecInit /\ events = << >>

ApprovePlan == Approve /\ Record("PlanApproved", NoOperator)

\* The policy decision is recorded once, at any time before the emission.
RecordDecision ==
  /\ stage \in {"approved", "materialized"}
  /\ ~HasEvent(events, "PolicyDecisionRecorded")
  /\ Record("PolicyDecisionRecorded", NoOperator)
  /\ UNCHANGED execVars

StartOperator(o) == Start(o) /\ Record("OperatorStarted", o)

CompleteOperator(o) == Complete(o) /\ Record("OperatorCompleted", o)

MaterializeResult == Materialize /\ Record("ResultMaterialized", NoOperator)

RecordLineageEvent == RecordLineage /\ Record("LineageRecorded", NoOperator)

EmitCertificate == Emit /\ Record("CertificateEmitted", NoOperator)

Next ==
  \/ ApprovePlan
  \/ RecordDecision
  \/ \E o \in Known(Plan) : StartOperator(o) \/ CompleteOperator(o)
  \/ MaterializeResult
  \/ RecordLineageEvent
  \/ EmitCertificate

Spec == Init /\ [][Next]_vars
-----------------------------------------------------------------------------
\* Every event of kind a is before every event of kind b.
Before(a, b) ==
  \A i \in OfType(events, a), j \in OfType(events, b) : i < j

(* What the log says of the execution: each step is recorded once, under   *)
(* consecutive sequence numbers, and in the order the steps need.          *)
LogComplete ==
  /\ stage = "pending" => events = << >>
  /\ HasEvent(events, "PlanApproved") <=> stage # "pending"
  /\ HasEvent(events, "ResultMaterialized") <=> Finished
  /\ HasEvent(events, "CertificateEmitted") <=> stage = "emitted"
  /\ HasEvent(events, "LineageRecorded") <=> recorded
  /\ \A o \in Known(Plan) :
       /\ o \in started <=> OfOperator(events, "OperatorStarted", o) # {}
       /\ o \in completed <=> OfOperator(events, "OperatorCompleted", o) # {}

LogOrdered ==
  /\ \A i \in DOMAIN events : events[i].sequence = i - 1
  /\ \A i \in OfType(events, "PlanApproved") : i = 1
  /\ \A o \in Known(Plan) :
       /\ \A i \in OfOperator(events, "OperatorStarted", o) :
            /\ 1 < i
            /\ \A j \in OfOperator(events, "OperatorCompleted", o) : i < j
       /\ \A d \in Inputs(Plan, o) :
            \A i \in OfOperator(events, "OperatorCompleted", d),
               j \in OfOperator(events, "OperatorStarted", o) : i < j
  /\ Before("OperatorCompleted", "ResultMaterialized")
  /\ Before("ResultMaterialized", "LineageRecorded")
  /\ Before("ResultMaterialized", "CertificateEmitted")
  /\ Before("LineageRecorded", "CertificateEmitted")

LogInvariant == LogComplete /\ LogOrdered
=============================================================================
