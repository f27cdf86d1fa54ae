----------------------------- MODULE GovernedQuery -----------------------------
(***************************************************************************)
(* The complete governed loop of src/trustaero/experiments/                *)
(* multisource_case_study_v2.py (and of multisource_case_study.py, which   *)
(* has no planner): check the prepared data, validate the request, choose  *)
(* a legal physical candidate, execute it twice, certify the result and    *)
(* write the evidence.  The parts other modules specify in detail are      *)
(* taken by what they decide: the validator's plan, the planner's choice   *)
(* and the verifier's checks.                                              *)
(*                                                                         *)
(* Beside the loop, the prepared table may be replaced at any time by      *)
(* data/multisource.py, and any reader may verify files of one run         *)
(* directory against files of another one                                  *)
(* (scripts/verify_certificate_bundle.py).                                 *)
(*                                                                         *)
(* A protocol is [study, request, policy, lineage, snapshot, table,        *)
(* limits, required, result]: table is the digest a refreshed table must   *)
(* have, result the frozen result; both may be absent.                     *)
(***************************************************************************)
EXTENDS HierarchicalPlanner, Sequences

INSTANCE CertificateBindings

CONSTANTS Protocols,
          Contents,      \* contents of the prepared table
          Profiles,      \* [Contents -> sets of profiles]: what its row counts give
          ResultRows,    \* request -> [Contents -> governed result rows]
          WrongDigest,   \* the zeros of the fault injection: no result's digest
          MaxRuns,       \* bound: run directories
          MaxCrashes,    \* bound: deaths of the process
          MaxRewrites    \* bound: preparations of the table

Planning(p, content) == PlanCandidates(Profiles[content], p.limits, p.required)

\* Candidates have names, and a decision is not the absence of one.
ASSUME ProtocolAssumption ==
  /\ \A p \in Protocols : p.study \in {"v1", "v2"} /\ p.table \in Contents \cup {None}
  /\ \A c \in Contents : \A q \in Profiles[c] : q.id # None
  /\ \A p \in Protocols, c \in Contents : Planning(p, c) # None

\* Tables may differ and give the same rows, or none; rows are not the absence of a result.
ASSUME RowsAssumption ==
  \A p \in Protocols, c \in Contents : ResultRows[p.request][c] \notin {None, WrongDigest}

\* The result a protocol freezes was computed from the snapshot it names.
ASSUME FrozenAssumption ==
  \A p \in Protocols : p.result # None => p.result = ResultRows[p.request][p.snapshot]

VARIABLES table, manifest,   \* the prepared table, and the digest recorded for it
          runs,              \* the evidence directories, in order of creation
          latest,            \* the run that latest_run.json names, or 0
          pc, protocol, checked, plan, physical, result, certificate, writing,
          crashes, rewrites

data == <<table, manifest>>
evidence == <<runs, latest>>
process == <<pc, protocol, checked, plan, physical, result, certificate, writing>>
vars == <<data, evidence, process, crashes, rewrites>>

\* The process ends, with what it held.
Forget ==
  /\ pc' = "idle" /\ protocol' = None /\ checked' = None /\ plan' = None
  /\ physical' = None /\ result' = None /\ certificate' = None /\ writing' = 1

Init ==
  /\ table \in Contents /\ manifest = table
  /\ runs = << >> /\ latest = 0
  /\ pc = "idle" /\ protocol = None /\ checked = None /\ plan = None
  /\ physical = None /\ result = None /\ certificate = None /\ writing = 1
  /\ crashes = 0 /\ rewrites = 0

\* The next stage; the rest of the process is as the stage says.
Proceed(stage) == pc' = stage /\ UNCHANGED <<data, evidence, crashes, rewrites>>

\* A failed gate raises: the process ends with nothing written.
Abort == Forget /\ UNCHANGED <<data, evidence, crashes, rewrites>>

Start(p) ==
  /\ pc = "idle"
  /\ Len(runs) < MaxRuns
  /\ protocol' = p
  /\ Proceed("check")
  /\ UNCHANGED <<checked, plan, physical, result, certificate, writing>>

\* Mutant of TableOf: every protocol reads the prepared table.
PreparedTable(p) == table

\* A protocol of refreshed data names the digest of a table of its own.
TableOf(p) == IF p.table = None THEN table ELSE p.table

(* The prepared table is the manifest's; the data of the run is that table *)
(* or the refreshed one.                                                   *)
CheckData ==
  /\ pc = "check"
  /\ IF table = manifest
     THEN /\ checked' = TableOf(protocol)
          /\ Proceed("validate")
          /\ UNCHANGED <<protocol, plan, physical, result, certificate, writing>>
     ELSE Abort

\* The target whose lineage the rewritten plan must carry.
Target == "result"

\* The digest of a plan covers its operators, and none of the snapshots.
ValidatedPlan(p) ==
  [digest |-> [request |-> p.request, lineage |-> p.lineage],
   policy |-> p.policy, data |-> p.snapshot,
   requirements |-> {[target |-> Target, level |-> p.lineage]},
   instrumentation |-> {[target |-> Target, level |-> p.lineage]},
   satisfied |-> {"mask"}, pending |-> {"lineage_capture"}]

Validate ==
  /\ pc = "validate"
  /\ plan' = ValidatedPlan(protocol)
  /\ Proceed("plan")
  /\ UNCHANGED <<protocol, checked, physical, result, certificate, writing>>

PhysicalPlan(l, strategy, decision, selected) ==
  [digest |-> l.digest, policy |-> l.policy, data |-> l.data, pending |-> l.pending,
   instrumentation |-> l.instrumentation,
   strategy |-> strategy, decision |-> decision, selected |-> selected]

(* The first study executes the plan as it is; the second only what the    *)
(* planner selects, and only the candidate its protocol requires.          *)
ChooseCandidate ==
  /\ pc = "plan"
  /\ LET planning == Planning(protocol, checked) IN
       IF \/ protocol.study = "v1"
          \/ planning.status = "SELECT" /\ planning.selected = protocol.required
       THEN /\ physical' = IF protocol.study = "v1"
                           THEN PhysicalPlan(plan, "fused", None, None)
                           ELSE PhysicalPlan(plan, protocol.required, planning,
                                             protocol.required)
            /\ Proceed("execute")
            /\ UNCHANGED <<protocol, checked, plan, result, certificate, writing>>
       ELSE Abort

(* Candidates are equivalent; the digest of a result covers its rows only, *)
(* neither the plan nor the tables they were computed from.                *)
ResultOf(l, content) == ResultRows[l.digest.request][content]

\* The view reads the table's file whenever it is executed.
Execute ==
  /\ pc = "execute"
  /\ result' = ResultOf(plan, TableOf(protocol))
  /\ Proceed("repeat")
  /\ UNCHANGED <<protocol, checked, plan, physical, certificate, writing>>

\* Mutant of Repeatable: the frozen result is not asked for.
RepeatableUnfrozen(p, first, second) == first # {} /\ first = second

\* Both executions give the same rows, and some.
Repeatable(p, first, second) ==
  /\ first # {}
  /\ first = second
  /\ p.result # None => first = p.result

Repeat ==
  /\ pc = "repeat"
  /\ IF Repeatable(protocol, result, ResultOf(plan, TableOf(protocol)))
     THEN /\ Proceed("certify")
          /\ UNCHANGED <<protocol, checked, plan, physical, result, certificate, writing>>
     ELSE Abort

\* Source lineage: the snapshots behind the target, bound to plan and result.
Lineage(l, r) == [digest |-> l.digest, result |-> r, edges |-> {<<Target, l.data>>}]

Certificate(l, p, r) ==
  [digest |-> l.digest, physical |-> PhysicalPlanId(p), policy |-> l.policy, data |-> l.data,
   result |-> r,
   evidence |-> [level |-> "source", covered |-> {Target}, edges |-> Lineage(l, r).edges],
   lineage |-> Lineage(l, r),
   events |-> [plan |-> p.digest, result |-> r, lineage |-> Lineage(l, r)],
   decision |-> p.decision, selected |-> p.selected]

Observation(r, p) == [result |-> r, decision |-> p.decision, selected |-> p.selected]

ObservedResult(r) == [result |-> r, decision |-> None, selected |-> None]

\* Nothing stays open but the execution, and no obligation is left out.
Convincing(l, p, c, r) ==
  LET observed == Observation(r, p) IN
    /\ Accepted(l, p, c, observed)
    /\ {"mask", "lineage_capture"} \subseteq VerifiedObligations(l, c)
    /\ Unverified(p, c, observed) = {"physical_plan_execution"}

(* The verifier must reject another result, other data, evidence of no     *)
(* target and, where a planner decided, another policy or decision.        *)
FaultsRejected(l, p, c, r) ==
  /\ ~Accepted(l, p, c, ObservedResult(WrongDigest))
  /\ ~Accepted(l, p, [c EXCEPT !.data = None], ObservedResult(r))
  /\ ~Accepted(l, p, [c EXCEPT !.evidence.covered = {}], ObservedResult(r))
  /\ p.decision # None =>
       /\ ~Accepted(l, p, [c EXCEPT !.policy = None], Observation(r, p))
       /\ ~Accepted(l, p, [c EXCEPT !.decision.policy = None], Observation(r, p))

(* Record lineage is not captured by this executor: it raises.  What is    *)
(* certified must pass the verifier with the run's own observations, and   *)
(* what is tampered with must not.                                         *)
Certify ==
  /\ pc = "certify"
  /\ LET c == Certificate(plan, physical, result) IN
       IF /\ protocol.lineage = "source"
          /\ Convincing(plan, physical, c, result)
          /\ FaultsRejected(plan, physical, c, result)
       THEN /\ certificate' = c
            /\ runs' = Append(runs, [protocol |-> protocol, checked |-> checked,
                                     files |-> [f \in {} |-> None]])
            /\ pc' = "write"
            /\ UNCHANGED <<data, latest, protocol, checked, plan, physical, result,
                           writing, crashes, rewrites>>
       ELSE Abort

\* Mutant of Files: the run is named before its certificate is there.
FilesNamedEarly(study) ==
  <<"validated_plan", "approved_physical_plan", "latest_run", "certificate", "summary">>

\* The evidence in the order it is written.
Files(study) ==
  IF study = "v1"
  THEN <<"validated_plan", "approved_physical_plan", "certificate", "summary", "latest_run">>
  ELSE <<"validated_plan", "candidate_planning", "approved_physical_plan", "certificate",
         "summary", "latest_run">>

FileContent(file) ==
  CASE file = "validated_plan" -> plan
    [] file = "candidate_planning" -> physical.decision
    [] file = "approved_physical_plan" -> physical
    [] file = "certificate" -> certificate
    [] file = "summary" -> Observation(result, physical)

Write ==
  /\ pc = "write"
  /\ LET file == Files(protocol.study)[writing]
         held == runs[Len(runs)].files
     IN  IF file = "latest_run"
         THEN latest' = Len(runs) /\ UNCHANGED runs
         ELSE /\ runs' = [runs EXCEPT ![Len(runs)].files =
                            [f \in DOMAIN held \cup {file} |->
                              IF f = file THEN FileContent(file) ELSE held[f]]]
              /\ UNCHANGED latest
  /\ IF writing = Len(Files(protocol.study))
     THEN Forget
     ELSE /\ writing' = writing + 1
          /\ UNCHANGED <<pc, protocol, checked, plan, physical, result, certificate>>
  /\ UNCHANGED <<data, crashes, rewrites>>

Crash ==
  /\ pc # "idle"
  /\ crashes < MaxCrashes
  /\ crashes' = crashes + 1
  /\ Forget
  /\ UNCHANGED <<data, evidence, rewrites>>

\* A preparation replaces the table, and then the manifest.
PrepareTable ==
  /\ rewrites < MaxRewrites
  /\ rewrites' = rewrites + 1
  /\ table' \in Contents
  /\ UNCHANGED <<manifest, evidence, process, crashes>>

PrepareManifest ==
  /\ manifest # table
  /\ manifest' = table
  /\ UNCHANGED <<table, evidence, process, crashes, rewrites>>

Loop ==
  \/ CheckData \/ Validate \/ ChooseCandidate \/ Execute \/ Repeat \/ Certify \/ Write

Next ==
  \/ \E p \in Protocols : Start(p)
  \/ Loop \/ Crash \/ PrepareTable \/ PrepareManifest

Spec == Init /\ [][Next]_vars

\* A loop that was started goes on.
FairSpec == Spec /\ WF_vars(Loop)
-----------------------------------------------------------------------------
(* Properties.                                                             *)

Stages == {"idle", "check", "validate", "plan", "execute", "repeat", "certify", "write"}

\* A process has a protocol; each stage has what the earlier ones made.
GovernedTypeOK ==
  /\ table \in Contents /\ manifest \in Contents
  /\ pc \in Stages
  /\ IF pc = "idle" THEN protocol = None ELSE protocol \in Protocols
  /\ pc \in Stages \ {"idle", "check"} => checked # None
  /\ plan # None <=> pc \in Stages \ {"idle", "check", "validate"}
  /\ certificate # None <=> pc = "write"
  /\ latest \in 0 .. Len(runs)
  /\ Len(runs) <= MaxRuns
  /\ writing \in 1 .. 6

Has(r, file) == file \in DOMAIN runs[r].files
FileOf(r, file) == runs[r].files[file]

Having(file) == {r \in DOMAIN runs : Has(r, file)}

\* A reader may have no observation at all.
Observations == {FileOf(r, "summary") : r \in Having("summary")} \cup {ObservedResult(None)}

(* Plan, physical plan and certificate of different runs are accepted      *)
(* together only when no run could tell them apart: another policy, other  *)
(* data, another strategy or another decision of the planner is noticed,   *)
(* and the evidence is of the plan's snapshots and the observed result.    *)
(* "A certificate from the base snapshot cannot attest a refreshed one."   *)
AcceptedIsOneExecution ==
  \A l \in Having("validated_plan"), p \in Having("approved_physical_plan"),
     c \in Having("certificate"), o \in Observations :
    Accepted(FileOf(l, "validated_plan"), FileOf(p, "approved_physical_plan"),
             FileOf(c, "certificate"), o) =>
      /\ FileOf(l, "validated_plan") = FileOf(c, "validated_plan")
      /\ FileOf(p, "approved_physical_plan") = FileOf(c, "approved_physical_plan")
      /\ FileOf(c, "certificate").evidence.edges = {<<Target, FileOf(l, "validated_plan").data>>}
      /\ o.result # None => o.result = FileOf(c, "certificate").result

(* What was approved for execution under a planner's decision was legal    *)
(* for the row counts of the checked data under the run's own limits, and  *)
(* no legal candidate is better: a required strategy is no permission.     *)
ApprovedIsLegal ==
  \A r \in Having("approved_physical_plan") :
    LET approved == FileOf(r, "approved_physical_plan")
        profiles == Profiles[runs[r].checked]
    IN  approved.decision # None =>
          \E q \in profiles :
            /\ q.id = approved.strategy
            /\ q \in FeasibleCandidates(profiles, runs[r].protocol.limits)
            /\ Dominators(q, FeasibleCandidates(profiles, runs[r].protocol.limits)) = {}

(* The run that latest_run.json names is whole, whatever killed a process, *)
(* and its files verify together with nothing but the execution and, where *)
(* no planner ran, no decision left open.                                  *)
LatestVerifies ==
  latest # 0 =>
    /\ {"validated_plan", "approved_physical_plan", "certificate", "summary"}
         \subseteq DOMAIN runs[latest].files
    /\ Accepted(FileOf(latest, "validated_plan"), FileOf(latest, "approved_physical_plan"),
                FileOf(latest, "certificate"), FileOf(latest, "summary"))
    /\ Unverified(FileOf(latest, "approved_physical_plan"), FileOf(latest, "certificate"),
                  FileOf(latest, "summary")) = {"physical_plan_execution"}

(* Where a protocol freezes the result, what is certified are the rows     *)
(* that the snapshot named in the certificate gives, though the table may  *)
(* be replaced after it was checked and between the executions.  The table *)
(* that was read may still be another one that gives the same rows.        *)
FrozenResultIsOfSnapshot ==
  \A r \in Having("certificate") :
    runs[r].protocol.result # None =>
      FileOf(r, "certificate").result =
        ResultRows[runs[r].protocol.request][FileOf(r, "certificate").data]

\* A protocol the loop has no reason to give up.
Sound(p) ==
  LET content == IF p.table = None THEN table ELSE p.table
      planning == Planning(p, content)
      rows == ResultOf(ValidatedPlan(p), content)
  IN  /\ p.lineage = "source"
      /\ p.study = "v2" => planning.status = "SELECT" /\ planning.selected = p.required
      /\ rows # {} /\ p.result \in {None, rows}

(* A loop over a sound protocol publishes evidence in the end, unless the  *)
(* table was replaced or a process died.                                   *)
SoundLoopPublishes ==
  (pc = "check" /\ table = manifest /\ Sound(protocol))
    ~> (latest # 0 \/ crashes > 0 \/ rewrites > 0)
=============================================================================
