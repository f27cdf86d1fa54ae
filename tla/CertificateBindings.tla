-------------------------- MODULE CertificateBindings --------------------------
(***************************************************************************)
(* What verify_execution_certificate (src/trustaero/validator/             *)
(* certificate.py) compares between a validated plan, the physical plan    *)
(* approved for it, the certificate of an execution and, where the caller  *)
(* has them, independent observations of the result and of the planner's   *)
(* decision.  The checks of the event log have their own module            *)
(* (EventCoverage): here a log is the plan it covers and the digests its   *)
(* two result events carry.  Digests and ids are the values they stand     *)
(* for: two are equal when what they were computed from is.                *)
(***************************************************************************)
EXTENDS Naturals, FiniteSets

CONSTANT None         \* an optional field that is absent

Strength(level) == CASE level = "none" -> 0 [] level = "source" -> 1 [] level = "record" -> 2

\* A physical plan id covers the plan, its snapshots and the strategy.
PhysicalPlanId(physical) ==
  [digest |-> physical.digest, policy |-> physical.policy, data |-> physical.data,
   strategy |-> physical.strategy, instrumentation |-> physical.instrumentation,
   pending |-> physical.pending]

PhysicalBound(plan, physical) ==
  /\ physical.digest = plan.digest
  /\ physical.policy = plan.policy /\ physical.data = plan.data
  /\ physical.instrumentation = plan.instrumentation
  /\ physical.pending = plan.pending

CertificateBound(plan, physical, certificate) ==
  /\ certificate.digest = plan.digest
  /\ certificate.physical = PhysicalPlanId(physical)
  /\ certificate.policy = plan.policy /\ certificate.data = plan.data

\* The result digest is that of its event, and of the observed result.
ResultBound(certificate, observed) ==
  /\ certificate.result # None
  /\ certificate.events.result = certificate.result
  /\ observed.result # None => observed.result = certificate.result

\* Both observations of the planner are given, or neither.
PlannerObserved(observed) == observed.decision # None /\ observed.selected # None

\* Mutant of PlannerBound: of two decisions only the policies are compared.
PlannerBoundByPolicy(physical, certificate, observed) ==
  physical.decision # None \/ certificate.decision # None =>
    /\ physical.decision # None /\ certificate.decision # None
    /\ certificate.decision.policy = physical.decision.policy

(* Once one side declares a decision, plan and certificate must declare    *)
(* the same one, implement its candidate, and agree with what was observed.*)
PlannerBound(physical, certificate, observed) ==
  /\ (observed.decision = None) <=> (observed.selected = None)
  /\ physical.decision # None \/ certificate.decision # None \/ PlannerObserved(observed) =>
       /\ physical.decision # None
       /\ certificate.decision = physical.decision
       /\ physical.selected # None /\ certificate.selected # None =>
            certificate.selected = physical.selected
       /\ physical.selected # None => physical.strategy = physical.selected
       /\ PlannerObserved(observed) =>
            /\ physical.decision = observed.decision
            /\ physical.selected = observed.selected

(* RequiredLevel <= ImplementedLevel <= ObservedEvidenceLevel, for every   *)
(* required target.                                                        *)
EvidenceCovers(plan, evidence) ==
  plan.requirements # {} =>
    /\ evidence # None
    /\ \A r \in plan.requirements :
         /\ \E spec \in plan.instrumentation :
              spec.target = r.target /\ Strength(spec.level) >= Strength(r.level)
         /\ r.target \in evidence.covered
         /\ Strength(evidence.level) >= Strength(r.level)
    /\ evidence.edges # None

\* A verified lineage needs a digest, that of its event.
LineageBound(plan, certificate) ==
  /\ EvidenceCovers(plan, certificate.evidence)
  /\ "lineage_capture" \in plan.pending =>
       certificate.lineage # None /\ certificate.events.lineage = certificate.lineage

EventsCover(physical, certificate) == certificate.events.plan = physical.digest

Accepted(plan, physical, certificate, observed) ==
  /\ PhysicalBound(plan, physical)
  /\ CertificateBound(plan, physical, certificate)
  /\ ResultBound(certificate, observed)
  /\ PlannerBound(physical, certificate, observed)
  /\ LineageBound(plan, certificate)
  /\ EventsCover(physical, certificate)

(* The obligations returned as verified, whatever the status; those of the *)
(* plan itself are taken from it.                                          *)
VerifiedObligations(plan, certificate) ==
  plan.satisfied \cup
    (IF EvidenceCovers(plan, certificate.evidence) THEN {"lineage_capture"} \cap plan.pending
     ELSE {})

\* What the answer names as not verified; the execution itself always is.
Unverified(physical, certificate, observed) ==
  {"physical_plan_execution"}
    \cup (IF observed.result = None THEN {"result_content_digest"} ELSE {})
    \cup (IF /\ physical.decision # None
             /\ ~(PlannerObserved(observed) /\ PlannerBound(physical, certificate, observed))
          THEN {"planner_decision"} ELSE {})
=============================================================================
