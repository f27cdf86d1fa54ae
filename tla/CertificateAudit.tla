--------------------------- MODULE CertificateAudit ---------------------------
(***************************************************************************)
(* The verifier on the other side of an event log it did not write.  The   *)
(* log of a recorded execution reaches the certificate through a recorder  *)
(* that may lose, repeat or exchange events; the verifier accepts or       *)
(* rejects it; an auditor then replays an accepted log event by event.     *)
(***************************************************************************)
EXTENDS RecordedExecution

CONSTANT MaxFaults      \* how many events the recorder may disturb

ASSUME MaxFaultsAssumption == MaxFaults \in Nat

VARIABLES log,      \* the events of the certificate
          faults,   \* disturbances so far
          verdict,  \* "none", "PARTIAL" or "REJECT"
          cursor    \* events the auditor has replayed

auditVars == <<vars, log, faults, verdict, cursor>>

AuditInit == Init /\ log = << >> /\ faults = 0 /\ verdict = "none" /\ cursor = 0

\* The executor appends; what it recorded is what the recorder holds.
Execute ==
  /\ Next
  /\ log' = events'
  /\ UNCHANGED <<faults, verdict, cursor>>

\* Keep or rewrite the sequence numbers of a disturbed log.
Renumbered(s) == [i \in DOMAIN s |-> [s[i] EXCEPT !.sequence = i - 1]]

Disturb(s) ==
  /\ stage = "emitted" /\ verdict = "none"
  /\ faults < MaxFaults
  /\ faults' = faults + 1
  /\ log' \in {s, Renumbered(s)}
  /\ UNCHANGED <<vars, verdict, cursor>>

Without(s, i) == SubSeq(s, 1, i - 1) \o SubSeq(s, i + 1, Len(s))

Lose == \E i \in DOMAIN log : Disturb(Without(log, i))

Repeat ==
  \E i \in DOMAIN log, j \in 0 .. Len(log) :
    Disturb(SubSeq(log, 1, j) \o <<log[i]>> \o SubSeq(log, j + 1, Len(log)))

Exchange ==
  \E i, j \in DOMAIN log :
    i < j /\ Disturb([log EXCEPT ![i] = log[j], ![j] = log[i]])

(* The event part of verify_execution_certificate: a result event and the  *)
(* coverage checks.                                                        *)
AcceptedEvents ==
  /\ HasEvent(log, "ResultMaterialized")
  /\ ValidEventCoverage(Plan, log, recorded)

Verify ==
  /\ stage = "emitted" /\ verdict = "none"
  /\ verdict' = IF AcceptedEvents THEN "PARTIAL" ELSE "REJECT"
  /\ UNCHANGED <<vars, log, faults, cursor>>

Replay ==
  /\ verdict = "PARTIAL"
  /\ cursor < Len(log)
  /\ cursor' = cursor + 1
  /\ UNCHANGED <<vars, log, faults, verdict>>

AuditNext == Execute \/ Lose \/ Repeat \/ Exchange \/ Verify \/ Replay

AuditSpec == AuditInit /\ [][AuditNext]_auditVars
-----------------------------------------------------------------------------
(* Types; the verifier never answers VERIFIED (certificate.py answers      *)
(* PARTIAL or REJECT), and the auditor stays within the delivered log.     *)
AuditTypeOK ==
  /\ ExecTypeOK
  /\ faults \in 0 .. MaxFaults
  /\ verdict \in {"none", "PARTIAL", "REJECT"}
  /\ cursor \in 0 .. Len(log)

(* The inductive invariant: an undisturbed log is the executor's, and a    *)
(* verdict is the one the delivered log deserves.                          *)
AuditInvariant ==
  /\ DependenciesRespected /\ LogInvariant
  /\ stage # "emitted" => verdict = "none" /\ faults = 0
  /\ faults = 0 => log = events
  /\ verdict = "PARTIAL" => AcceptedEvents
  /\ verdict = "REJECT" => faults > 0
  /\ verdict # "PARTIAL" => cursor = 0

(* Every interleaving the dependencies allow is accepted when the recorder *)
(* disturbs nothing (docs/architecture.md: the verifier does not reject    *)
(* "legitimate parallelism").                                              *)
ParallelismAccepted == verdict = "REJECT" => faults > 0

AncestorsOf == [o \in Known(Plan) |-> Ancestors(Plan, o)]

(* In an accepted log the dependency order holds along every path of the   *)
(* plan, although the verifier compares direct inputs only and skips an    *)
(* input without a completion event.                                       *)
AcceptedOrder ==
  verdict = "PARTIAL" =>
    \A o \in Known(Plan) : \A a \in AncestorsOf[o] :
      FirstFor(log, "OperatorCompleted", a) < FirstFor(log, "OperatorStarted", o)

(* What the auditor has replayed of an accepted log, as a state of the     *)
(* abstract execution: only the first event of each kind counts.           *)
Replayed(type, o) == \E i \in 1 .. cursor : IsEvent(log, i, type, o)

ReplayedType(type) == \E i \in 1 .. cursor : log[i].event_type = type

replayStage ==
  IF ReplayedType("CertificateEmitted") THEN "emitted"
  ELSE IF ReplayedType("ResultMaterialized") THEN "materialized"
  ELSE IF ReplayedType("PlanApproved") THEN "approved"
  ELSE "pending"

replayStarted == {o \in Known(Plan) : Replayed("OperatorStarted", o)}

replayCompleted == {o \in Known(Plan) : Replayed("OperatorCompleted", o)}

replayRecorded == ReplayedType("LineageRecorded")

Abstract == INSTANCE DependencyExecution WITH
  stage <- replayStage,
  started <- replayStarted,
  completed <- replayCompleted,
  recorded <- replayRecorded

(* Replaying an accepted log is an execution of the plan in dependency     *)
(* order, whatever the recorder did to the log.                            *)
ReplayIsAnExecution == Abstract!ExecSpec

(* certificate_events.py:142: "ResultMaterialized must occur after all     *)
(* OperatorCompleted events."                                              *)
ResultAfterAllCompletions ==
  verdict = "PARTIAL" =>
    \A i \in OfType(log, "ResultMaterialized"), j \in OfType(log, "OperatorCompleted") :
      log[j].sequence < log[i].sequence
=============================================================================
