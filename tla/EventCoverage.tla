---------------------------- MODULE EventCoverage ----------------------------
(***************************************************************************)
(* The event checks of a certificate                                       *)
(* (src/trustaero/validator/certificate_events.py): each conjunct of       *)
(* ValidEventCoverage is one diagnostic the code may raise.                *)
(***************************************************************************)
EXTENDS PhysicalDag

CONSTANT NoOperator     \* the operator_id of an event about the whole run

SequencesOf(events, I) == {events[i].sequence : i \in I}

Least(S) == CHOOSE m \in S : \A n \in S : m <= n

OfType(events, type) == {i \in DOMAIN events : events[i].event_type = type}

OfOperator(events, type, o) == {i \in DOMAIN events : IsEvent(events, i, type, o)}

HasEvent(events, type) == OfType(events, type) # {}

\* first_sequence, without and with an operator_id; only used when present.
First(events, type) == Least(SequencesOf(events, OfType(events, type)))

FirstFor(events, type, o) ==
  Least(SequencesOf(events, OfOperator(events, type, o)))

\* Sequence numbers are unique and increasing (gaps are allowed).
OrderedSequences(events) ==
  \A i, j \in DOMAIN events : i < j => events[i].sequence < events[j].sequence

\* If both kinds of event are present, the first a precedes the first b.
Precedes(events, a, b) ==
  HasEvent(events, a) /\ HasEvent(events, b) => First(events, a) < First(events, b)

\* Mutant of OperatorCovered: takes every executor to be sequential.
SerialOperatorCovered(events, o) ==
  /\ OfOperator(events, "OperatorStarted", o) # {}
  /\ OfOperator(events, "OperatorCompleted", o) # {}
  /\ FirstFor(events, "OperatorCompleted", o) = FirstFor(events, "OperatorStarted", o) + 1

OperatorCovered(events, o) ==
  /\ OfOperator(events, "OperatorStarted", o) # {}
  /\ OfOperator(events, "OperatorCompleted", o) # {}
  /\ FirstFor(events, "OperatorStarted", o) < FirstFor(events, "OperatorCompleted", o)
  /\ HasEvent(events, "PlanApproved") =>
       First(events, "PlanApproved") < FirstFor(events, "OperatorStarted", o)

\* Mutant of ResultAfterOperators: the result only waits for the starts.
ResultAfterStarts(plan, events) ==
  HasEvent(events, "ResultMaterialized") =>
    \A o \in Known(plan) :
      FirstFor(events, "OperatorStarted", o) < First(events, "ResultMaterialized")

(* Compared with the latest of the operators' FIRST completions, over the  *)
(* operators that have both events.                                        *)
ResultAfterOperators(plan, events) ==
  HasEvent(events, "ResultMaterialized") =>
    \A o \in Known(plan) :
      /\ OfOperator(events, "OperatorStarted", o) # {}
      /\ OfOperator(events, "OperatorCompleted", o) # {}
      => FirstFor(events, "OperatorCompleted", o) < First(events, "ResultMaterialized")

ValidEventCoverage(plan, events, hasEvidence) ==
  /\ OrderedSequences(events)
  /\ HasEvent(events, "PlanApproved")
  /\ HasEvent(events, "CertificateEmitted")
  /\ \A o \in Known(plan) : OperatorCovered(events, o)
  /\ ResultAfterOperators(plan, events)
  /\ hasEvidence => HasEvent(events, "LineageRecorded")
  /\ Precedes(events, "ResultMaterialized", "LineageRecorded")
  /\ Precedes(events, "ResultMaterialized", "CertificateEmitted")
  /\ Precedes(events, "LineageRecorded", "CertificateEmitted")
  /\ ValidPhysicalPlanDag(plan)
  /\ ValidDependencyEvents(plan, events)
=============================================================================
