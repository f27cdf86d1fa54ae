------------------------- MODULE GovernedQueryProofs -------------------------
(***************************************************************************)
(* For every set of protocols and profiles: the planner selects a legal    *)
(* candidate that no legal one is better than, and leaves one as long as   *)
(* there is a legal one; what a run approves is legal; and files the       *)
(* verifier accepts together are those of one execution.  And for every    *)
(* plan: the event log a certificate names is that of an execution.  And   *)
(* for every unit of the pipeline experiments: its statements find the     *)
(* tables they read and no others of their name, its candidates give one   *)
(* answer, that of the governed query, and each does the work that its     *)
(* profile declared.                                                       *)
(*                                                                         *)
(* The strengthening follows the artifacts of a process from stage to      *)
(* stage (Made) and ties the files of a run directory to one physical plan *)
(* and one result (Holds), whatever of them a crash left out.  The tables  *)
(* of a candidate are written as rows of the unit's events and lines       *)
(* (EventRow, JoinedRow): what each statement makes of them is then a      *)
(* matter of which events and which columns are left.                      *)
(***************************************************************************)
EXTENDS GovernedQuery, CertificateEvents, GovernedPipeline,
        FiniteLemmas, FiniteSetTheorems, WellFoundedInduction, TLAPS

(* A selected candidate is legal and no legal candidate dominates it:      *)
(* plan_governed_candidates looks up the fallback among the survivors.     *)
THEOREM SelectedIsBest ==
  ASSUME NEW profiles, NEW policy, NEW fallback,
         PlanCandidates(profiles, policy, fallback).status = "SELECT"
  PROVE  \E q \in FeasibleCandidates(profiles, policy) :
           /\ q.id = PlanCandidates(profiles, policy, fallback).selected
           /\ Dominators(q, FeasibleCandidates(profiles, policy)) = {}
<1> DEFINE legal == FeasibleCandidates(profiles, policy)
           best == Ids(Nondominated(legal))
           answer == PlanCandidates(profiles, policy, fallback)
<1> HIDE DEF legal
<1>1. answer.selected \in best
  <2>1. CASE legal = {}
    <3>1. answer = Decision("REJECT", None, legal, policy, profiles)
      BY <2>1 DEF PlanCandidates, legal
    <3> QED BY <3>1 DEF Decision
  <2>2. CASE legal # {} /\ Cardinality(best) = 1
    <3>1. answer = Decision("SELECT", CHOOSE c \in best : TRUE, legal, policy, profiles)
      BY <2>2 DEF PlanCandidates, legal
    <3>2. best # {}
      BY <2>2, FS_EmptySet
    <3>3. (CHOOSE c \in best : TRUE) \in best
      BY <3>2
    <3> QED BY <3>1, <3>3 DEF Decision
  <2>3. CASE legal # {} /\ Cardinality(best) # 1 /\ fallback # None /\ fallback \in best
    <3>1. answer = Decision("SELECT", fallback, legal, policy, profiles)
      BY <2>3 DEF PlanCandidates, legal
    <3> QED BY <2>3, <3>1 DEF Decision
  <2>4. CASE legal # {} /\ Cardinality(best) # 1 /\ ~(fallback # None /\ fallback \in best)
    <3>1. answer = Decision("DEFER", None, legal, policy, profiles)
      BY <2>4 DEF PlanCandidates, legal
    <3> QED BY <3>1 DEF Decision
  <2> QED BY <2>1, <2>2, <2>3, <2>4
<1> QED BY <1>1 DEF Ids, Nondominated, legal

\* The profiles an optimizer may compare: named differently, in natural numbers.
Comparable(profiles) ==
  /\ IsFiniteSet(profiles)
  /\ \A p, q \in profiles : p.id = q.id => p = q
  /\ \A p \in profiles :
       /\ \A d \in DOMAIN p.work : p.work[d] \in Nat
       /\ p.exposure.raw_join \in Nat
       /\ p.exposure.raw_materialized \in Nat
       /\ p.exposure.masked_materialized \in Nat

LEMMA BetterIsNotWorse ==
  ASSUME NEW f, NEW g, DOMAIN f = DOMAIN g,
         \A d \in DOMAIN f : f[d] \in Nat /\ g[d] \in Nat,
         Better(f, g)
  PROVE  ~NoWorse(g, f)
BY DEF Better, NoWorse

LEMMA NoWorseTransitive ==
  ASSUME NEW f, NEW g, NEW h, DOMAIN f = DOMAIN g, DOMAIN g = DOMAIN h,
         \A d \in DOMAIN f : f[d] \in Nat /\ g[d] \in Nat /\ h[d] \in Nat,
         NoWorse(f, g), NoWorse(g, h)
  PROVE  /\ NoWorse(f, h)
         /\ Better(f, g) => Better(f, h)
BY DEF Better, NoWorse

LEMMA RiskIsNatural ==
  ASSUME NEW profiles, Comparable(profiles), NEW p \in profiles, NEW q
  PROVE  /\ DOMAIN Risk(p.exposure) = DOMAIN Risk(q.exposure)
         /\ \A d \in DOMAIN Risk(p.exposure) : Risk(p.exposure)[d] \in Nat
BY DEF Risk, Comparable

\* Dominance is a strict order.
LEMMA DominatesIrreflexive ==
  ASSUME NEW profiles, Comparable(profiles), NEW p \in profiles
  PROVE  ~Dominates(p, p)
<1>1. ~Better(p.work, p.work)
  BY DEF Comparable, Better
<1>2. ~Better(Risk(p.exposure), Risk(p.exposure))
  BY RiskIsNatural DEF Better
<1> QED BY <1>1, <1>2 DEF Dominates

LEMMA DominatesTransitive ==
  ASSUME NEW profiles, Comparable(profiles),
         NEW p \in profiles, NEW q \in profiles, NEW r \in profiles,
         Dominates(p, q), Dominates(q, r)
  PROVE  Dominates(p, r)
<1>1. /\ NoWorse(p.work, r.work)
      /\ Better(p.work, q.work) => Better(p.work, r.work)
  <2>1. /\ DOMAIN p.work = DOMAIN q.work /\ DOMAIN q.work = DOMAIN r.work
        /\ NoWorse(p.work, q.work) /\ NoWorse(q.work, r.work)
    BY DEF Dominates
  <2>2. \A d \in DOMAIN p.work : p.work[d] \in Nat /\ q.work[d] \in Nat /\ r.work[d] \in Nat
    BY <2>1 DEF Comparable
  <2> QED BY <2>1, <2>2, NoWorseTransitive
<1>2. /\ NoWorse(Risk(p.exposure), Risk(r.exposure))
      /\ Better(Risk(p.exposure), Risk(q.exposure)) => Better(Risk(p.exposure), Risk(r.exposure))
  <2>1. /\ NoWorse(Risk(p.exposure), Risk(q.exposure))
        /\ NoWorse(Risk(q.exposure), Risk(r.exposure))
    BY DEF Dominates
  <2>2. /\ DOMAIN Risk(p.exposure) = DOMAIN Risk(q.exposure)
        /\ DOMAIN Risk(q.exposure) = DOMAIN Risk(r.exposure)
        /\ \A d \in DOMAIN Risk(p.exposure) :
             /\ Risk(p.exposure)[d] \in Nat /\ Risk(q.exposure)[d] \in Nat
             /\ Risk(r.exposure)[d] \in Nat
    BY RiskIsNatural
  <2> QED BY <2>1, <2>2, NoWorseTransitive
<1>3. p.equivalence = r.equivalence /\ DOMAIN p.work = DOMAIN r.work
  BY DEF Dominates
<1> QED BY <1>1, <1>2, <1>3 DEF Dominates

(* Pruning never empties a legal set: a candidate whose dominators are     *)
(* fewest, as a set, has none, since its dominator would have fewer.  The  *)
(* planner thus rejects only when nothing is legal.                        *)
THEOREM SomethingSurvives ==
  ASSUME NEW profiles, Comparable(profiles), profiles # {}
  PROVE  Nondominated(profiles) # {}
<1> DEFINE above(p) == Dominators(p, profiles)
           sets == {above(p) : p \in profiles}
<1>1. PICK p \in profiles : \A q \in profiles :
        <<above(q), above(p)>> \notin StrictSubsetOrdering(profiles)
  <2>1. sets \subseteq FiniteSubsetsOf(profiles) /\ sets # {}
    <3>1. \A q \in profiles : above(q) \subseteq profiles /\ IsFiniteSet(above(q))
      BY FS_Subset DEF Comparable, Dominators
    <3> QED BY <3>1 DEF FiniteSubsetsOf
  <2>2. PICK U \in sets : \A V \in sets : <<V, U>> \notin StrictSubsetOrdering(profiles)
    <3> HIDE DEF sets
    <3> QED BY <2>1, WFMin, FS_StrictSubsetOrderingWellFounded
  <2> QED BY <2>2
<1>2. SUFFICES ASSUME NEW q \in above(p) PROVE FALSE
  BY DEF Nondominated
<1>3. q \in profiles /\ q.id # p.id /\ Dominates(q, p)
  BY <1>2 DEF Dominators
<1>4. above(q) \subseteq above(p)
  <2> SUFFICES ASSUME NEW r \in above(q) PROVE r \in above(p)
    OBVIOUS
  <2>1. r \in profiles /\ Dominates(r, q)
    BY DEF Dominators
  <2>2. Dominates(r, p)
    BY <1>3, <2>1, DominatesTransitive
  <2>3. r.id # p.id
    BY <2>1, <2>2, DominatesIrreflexive DEF Comparable
  <2> QED BY <2>1, <2>2, <2>3 DEF Dominators
<1>5. q \notin above(q) /\ above(p) \subseteq profiles /\ above(q) \subseteq profiles
  BY DEF Dominators
<1>6. <<above(q), above(p)>> \in StrictSubsetOrdering(profiles)
  BY <1>2, <1>4, <1>5 DEF StrictSubsetOrdering
<1> QED BY <1>1, <1>3, <1>6
-----------------------------------------------------------------------------
\* What ChooseCandidate approves for a protocol and the checked data.
Chosen(ph, p, content) ==
  \/ /\ p.study = "v1"
     /\ ph = PhysicalPlan(ValidatedPlan(p), "fused", None, None)
  \/ /\ Planning(p, content).status = "SELECT"
     /\ Planning(p, content).selected = p.required
     /\ ph = PhysicalPlan(ValidatedPlan(p), p.required, Planning(p, content), p.required)

Approved == {"execute", "repeat", "certify", "write"}

\* A result that passed Repeat is the frozen one, where there is one.
OfFrozen(p, res) == p.result # None => res = p.result

\* The artifacts of the process, as far as it has come.
Made ==
  /\ pc \in Stages
  /\ table \in Contents
  /\ pc # "idle" => protocol \in Protocols
  /\ pc \in {"validate", "plan"} \cup Approved => checked \in Contents
  /\ pc \in {"plan"} \cup Approved => plan = ValidatedPlan(protocol)
  /\ pc \in Approved => Chosen(physical, protocol, checked)
  /\ pc = "certify" => OfFrozen(protocol, result)
  /\ pc = "write" => certificate = Certificate(plan, physical, result)

\* What Certify required of the physical plan and the result it certified.
Certified(p, ph, res) ==
  /\ OfFrozen(p, res)
  /\ Convincing(ValidatedPlan(p), ph, Certificate(ValidatedPlan(p), ph, res), res)

\* The files of a run directory are those of one physical plan and result.
Holds(run, ph, res) ==
  LET l == ValidatedPlan(run.protocol) IN
    /\ run.protocol \in Protocols /\ run.checked \in Contents
    /\ Chosen(ph, run.protocol, run.checked)
    /\ Certified(run.protocol, ph, res)
    /\ "validated_plan" \in DOMAIN run.files => run.files["validated_plan"] = l
    /\ "approved_physical_plan" \in DOMAIN run.files => run.files["approved_physical_plan"] = ph
    /\ "certificate" \in DOMAIN run.files => run.files["certificate"] = Certificate(l, ph, res)
    /\ "summary" \in DOMAIN run.files => run.files["summary"] = Observation(res, ph)

\* Only the last directory is still written to, by the process.
RunsHold ==
  /\ \E S : runs \in Seq(S)
  /\ \A r \in DOMAIN runs : \E ph, res : Holds(runs[r], ph, res)
  /\ pc = "write" =>
       /\ Len(runs) # 0
       /\ runs[Len(runs)].protocol = protocol /\ runs[Len(runs)].checked = checked
       /\ Holds(runs[Len(runs)], physical, result)

IInv == Made /\ RunsHold

\* The data a protocol reads has known contents.
LEMMA TableOfIsContent ==
  ASSUME ProtocolAssumption, table \in Contents, NEW p \in Protocols
  PROVE  TableOf(p) \in Contents
BY DEF ProtocolAssumption, TableOf

THEOREM InitHolds == Init => IInv
<1> SUFFICES ASSUME Init PROVE IInv
  OBVIOUS
<1>1. runs = << >> /\ runs \in Seq({})
  BY DEF Init
<1> QED BY <1>1 DEF Init, IInv, Made, RunsHold, Stages, Approved

\* A process that ends leaves the directories as they are.
LEMMA ForgetHolds ==
  ASSUME IInv, Forget, UNCHANGED <<table, runs>>
  PROVE  IInv'
<1>1. Made'
  BY DEF IInv, Made, Forget, Stages, Approved
<1>2. RunsHold'
  BY DEF IInv, RunsHold, Forget
<1> QED BY <1>1, <1>2 DEF IInv

\* A stage that only makes artifacts leaves the directories as they are.
LEMMA DirectoriesKept ==
  ASSUME IInv, UNCHANGED runs, pc' # "write"
  PROVE  RunsHold'
BY DEF IInv, RunsHold

THEOREM NextHolds ==
  ASSUME ProtocolAssumption, IInv, [Next]_vars
  PROVE  IInv'
<1> USE DEF Proceed, Abort, data, evidence
<1>1. ASSUME NEW p \in Protocols, Start(p) PROVE IInv'
  <2>1. Made'
    BY <1>1 DEF IInv, Made, Start, Stages, Approved
  <2> QED BY <1>1, <2>1, DirectoriesKept DEF IInv, Start
<1>2. CASE CheckData
  <2>1. CASE table = manifest
    <3>1. Made'
      BY <1>2, <2>1, TableOfIsContent DEF IInv, Made, CheckData, Stages, Approved
    <3> QED BY <1>2, <2>1, <3>1, DirectoriesKept DEF IInv, CheckData
  <2>2. CASE table # manifest
    BY <1>2, <2>2, ForgetHolds DEF CheckData
  <2> QED BY <2>1, <2>2
<1>3. CASE Validate
  <2>1. Made'
    BY <1>3 DEF IInv, Made, Validate, Stages, Approved
  <2> QED BY <1>3, <2>1, DirectoriesKept DEF IInv, Validate
<1>4. CASE ChooseCandidate
  <2>1. CASE \/ protocol.study = "v1"
             \/ /\ Planning(protocol, checked).status = "SELECT"
                /\ Planning(protocol, checked).selected = protocol.required
    <3>1. Chosen(physical, protocol, checked)'
      BY <1>4, <2>1 DEF IInv, Made, ChooseCandidate, Chosen
    <3>2. Made'
      BY <1>4, <2>1, <3>1 DEF IInv, Made, ChooseCandidate, Stages, Approved
    <3> QED BY <1>4, <2>1, <3>2, DirectoriesKept DEF IInv, ChooseCandidate
  <2>2. CASE ~(\/ protocol.study = "v1"
               \/ /\ Planning(protocol, checked).status = "SELECT"
                  /\ Planning(protocol, checked).selected = protocol.required)
    BY <1>4, <2>2, ForgetHolds DEF ChooseCandidate
  <2> QED BY <2>1, <2>2
<1>5. CASE Execute
  <2>1. Made'
    BY <1>5 DEF IInv, Made, Execute, Stages, Approved
  <2> QED BY <1>5, <2>1, DirectoriesKept DEF IInv, Execute
<1>6. CASE Repeat
  <2>1. CASE Repeatable(protocol, result, ResultOf(plan, TableOf(protocol)))
    <3>1. Made'
      BY <1>6, <2>1 DEF IInv, Made, Repeat, Repeatable, OfFrozen, Stages, Approved
    <3> QED BY <1>6, <2>1, <3>1, DirectoriesKept DEF IInv, Repeat
  <2>2. CASE ~Repeatable(protocol, result, ResultOf(plan, TableOf(protocol)))
    BY <1>6, <2>2, ForgetHolds DEF Repeat
  <2> QED BY <2>1, <2>2
<1>7. CASE Certify
  <2> DEFINE c == Certificate(plan, physical, result)
             run == [protocol |-> protocol, checked |-> checked,
                     files |-> [f \in {} |-> None]]
             good == /\ protocol.lineage = "source"
                     /\ Convincing(plan, physical, c, result)
                     /\ FaultsRejected(plan, physical, c, result)
  <2>1. CASE good
    <3>1. /\ certificate' = c /\ runs' = Append(runs, run) /\ pc' = "write" /\ pc = "certify"
          /\ UNCHANGED <<table, protocol, checked, plan, physical, result>>
      BY <1>7, <2>1 DEF Certify
    <3>2. Made'
      BY <3>1 DEF IInv, Made, Stages, Approved
    <3>3. Holds(run, physical, result)
      <4>1. Certified(protocol, physical, result)
        BY <2>1, <3>1 DEF IInv, Made, Approved, Certified
      <4> QED BY <3>1, <4>1 DEF IInv, Made, Approved, Holds
    <3>4. PICK S : runs \in Seq(S)
      BY DEF IInv, RunsHold
    <3>5. /\ runs' \in Seq(S \cup {run})
          /\ Len(runs') = Len(runs) + 1 /\ Len(runs) \in Nat
          /\ \A r \in DOMAIN runs : runs'[r] = runs[r]
          /\ runs'[Len(runs')] = run
          /\ \A r \in DOMAIN runs' : r \in DOMAIN runs \/ r = Len(runs')
      <4> HIDE DEF run
      <4>1. runs \in Seq(S \cup {run})
        BY <3>4
      <4> QED BY <3>1, <3>4, <4>1
    <3>6. RunsHold'
      <4>1. \A r \in DOMAIN runs' : \E ph, res : Holds(runs'[r], ph, res)
        BY <3>3, <3>5 DEF IInv, RunsHold
      <4>2. Holds(runs'[Len(runs')], physical', result')
        BY <3>1, <3>3, <3>5
      <4>3. Len(runs') # 0
        BY <3>5
      <4>4. runs'[Len(runs')].protocol = protocol' /\ runs'[Len(runs')].checked = checked'
        BY <3>1, <3>5
      <4> HIDE DEF run
      <4> QED BY <3>5, <4>1, <4>2, <4>3, <4>4 DEF RunsHold
    <3> QED BY <3>2, <3>6 DEF IInv
  <2>2. CASE ~good
    BY <1>7, <2>2, ForgetHolds DEF Certify
  <2> QED BY <2>1, <2>2
<1>8. CASE Write
  <2> DEFINE last == Len(runs)
             file == Files(protocol.study)[writing]
             held == runs[last].files
             files == [f \in DOMAIN held \cup {file} |->
                         IF f = file THEN FileContent(file) ELSE held[f]]
  <2>1. /\ pc = "write"
        /\ UNCHANGED table
        /\ \/ UNCHANGED runs
           \/ runs' = [runs EXCEPT ![last].files = files]
        /\ \/ Forget
           \/ UNCHANGED <<pc, protocol, checked, plan, physical, result, certificate>>
    BY <1>8 DEF Write
  <2>2. Holds(runs[last], physical, result) /\ last \in DOMAIN runs
    <3>1. PICK S : runs \in Seq(S)
      BY DEF IInv, RunsHold
    <3>2. Len(runs) # 0 /\ Holds(runs[last], physical, result)
      BY <2>1 DEF IInv, RunsHold
    <3> QED BY <3>1, <3>2
  <2>3. /\ \E S : runs' \in Seq(S)
        /\ DOMAIN runs' = DOMAIN runs /\ Len(runs') = Len(runs)
        /\ \A r \in DOMAIN runs : r # last => runs'[r] = runs[r]
        /\ \/ runs'[last] = runs[last]
           \/ runs'[last] = [runs[last] EXCEPT !.files = files]
    <3>1. PICK S : runs \in Seq(S)
      BY DEF IInv, RunsHold
    <3>2. CASE UNCHANGED runs
      BY <3>1, <3>2
    <3>3. CASE runs' = [runs EXCEPT ![last].files = files]
      <4> DEFINE new == [runs[last] EXCEPT !.files = files]
      <4> HIDE DEF files
      <4>1. runs' = [runs EXCEPT ![last] = new]
        BY <3>3
      <4> HIDE DEF new
      <4>2. runs \in Seq(S \cup {new})
        BY <3>1
      <4>3. runs' \in Seq(S \cup {new}) /\ Len(runs') = Len(runs) /\ runs'[last] = new
        BY <2>2, <4>1, <4>2
      <4> QED BY <2>2, <3>1, <4>1, <4>3 DEF new
    <3> QED BY <2>1, <3>2, <3>3
  <2>4. ASSUME runs'[last] = [runs[last] EXCEPT !.files = files]
        PROVE  Holds(runs'[last], physical, result)
    <3>1. /\ runs[last].protocol = protocol /\ runs[last].checked = checked
          /\ plan = ValidatedPlan(protocol) /\ certificate = Certificate(plan, physical, result)
      BY <2>1 DEF IInv, Made, RunsHold, Approved
    <3>2. /\ runs'[last].protocol = runs[last].protocol
          /\ runs'[last].checked = runs[last].checked
          /\ runs'[last].files = files
      BY <2>4
    <3> QED BY <2>2, <3>1, <3>2 DEF Holds, FileContent
  <2>5. Holds(runs'[last], physical, result)
    BY <2>2, <2>3, <2>4
  <2>6. /\ runs'[last].protocol = runs[last].protocol
        /\ runs'[last].checked = runs[last].checked
    <3>1. CASE runs'[last] = runs[last]
      BY <3>1
    <3>2. CASE runs'[last] = [runs[last] EXCEPT !.files = files]
      <4> HIDE DEF files
      <4> QED BY <3>2
    <3> QED BY <2>3, <3>1, <3>2
  <2>7. \A r \in DOMAIN runs' : \E ph, res : Holds(runs'[r], ph, res)
    BY <2>3, <2>5 DEF IInv, RunsHold
  <2>8. CASE Forget
    <3>1. Made'
      BY <2>1, <2>8 DEF IInv, Made, Forget, Stages, Approved
    <3>2. RunsHold'
      BY <2>3, <2>7, <2>8 DEF RunsHold, Forget
    <3> QED BY <3>1, <3>2 DEF IInv
  <2>9. CASE UNCHANGED <<pc, protocol, checked, plan, physical, result, certificate>>
    <3>1. Made'
      BY <2>1, <2>9 DEF IInv, Made, Stages, Approved, Chosen
    <3>2. RunsHold'
      BY <2>1, <2>3, <2>5, <2>6, <2>7, <2>9 DEF IInv, RunsHold
    <3> QED BY <3>1, <3>2 DEF IInv
  <2> QED BY <2>1, <2>8, <2>9
<1>9. CASE Crash
  BY <1>9, ForgetHolds DEF Crash
<1>10. CASE PrepareTable
  <2>1. Made'
    BY <1>10 DEF IInv, Made, PrepareTable, process, Chosen
  <2>2. RunsHold'
    BY <1>10 DEF IInv, RunsHold, PrepareTable, process
  <2> QED BY <2>1, <2>2 DEF IInv
<1>11. CASE PrepareManifest
  <2>1. Made'
    BY <1>11 DEF IInv, Made, PrepareManifest, process, Chosen
  <2>2. RunsHold'
    BY <1>11 DEF IInv, RunsHold, PrepareManifest, process
  <2> QED BY <2>1, <2>2 DEF IInv
<1>12. CASE UNCHANGED vars
  <2>1. Made'
    BY <1>12 DEF IInv, Made, vars, process, Chosen
  <2>2. RunsHold'
    BY <1>12 DEF IInv, RunsHold, vars, process
  <2> QED BY <2>1, <2>2 DEF IInv
<1> QED BY <1>1, <1>2, <1>3, <1>4, <1>5, <1>6, <1>7, <1>8, <1>9, <1>10, <1>11, <1>12
        DEF Next, Loop
-----------------------------------------------------------------------------
\* An approved plan with a decision is the planner's selection.
LEMMA ApprovedByPlanner ==
  ASSUME IInv, NEW r \in Having("approved_physical_plan"),
         FileOf(r, "approved_physical_plan").decision # None
  PROVE  /\ Planning(runs[r].protocol, runs[r].checked).status = "SELECT"
         /\ Planning(runs[r].protocol, runs[r].checked).selected
              = FileOf(r, "approved_physical_plan").strategy
<1>1. PICK ph, res : Holds(runs[r], ph, res)
  BY DEF IInv, RunsHold, Having
<1>2. ph = FileOf(r, "approved_physical_plan") /\ Chosen(ph, runs[r].protocol, runs[r].checked)
  BY <1>1 DEF Holds, Having, Has, FileOf
<1> QED BY <1>2 DEF Chosen, PhysicalPlan

LEMMA LegalFromInvariant == IInv => ApprovedIsLegal
<1> SUFFICES ASSUME IInv, NEW r \in Having("approved_physical_plan"),
                    FileOf(r, "approved_physical_plan").decision # None
             PROVE  \E q \in Profiles[runs[r].checked] :
                      /\ q.id = FileOf(r, "approved_physical_plan").strategy
                      /\ q \in FeasibleCandidates(Profiles[runs[r].checked],
                                                  runs[r].protocol.limits)
                      /\ Dominators(q, FeasibleCandidates(Profiles[runs[r].checked],
                                                          runs[r].protocol.limits)) = {}
  BY DEF ApprovedIsLegal
<1>1. /\ Planning(runs[r].protocol, runs[r].checked).status = "SELECT"
      /\ Planning(runs[r].protocol, runs[r].checked).selected
           = FileOf(r, "approved_physical_plan").strategy
  BY ApprovedByPlanner
<1>2. PICK q \in FeasibleCandidates(Profiles[runs[r].checked], runs[r].protocol.limits) :
        /\ q.id = FileOf(r, "approved_physical_plan").strategy
        /\ Dominators(q, FeasibleCandidates(Profiles[runs[r].checked],
                                            runs[r].protocol.limits)) = {}
  BY <1>1, SelectedIsBest DEF Planning
<1>3. q \in Profiles[runs[r].checked]
  BY <1>2 DEF FeasibleCandidates
<1> QED BY <1>2, <1>3

LEMMA Invariance == Spec => []IInv
<1>1. IInv /\ [Next]_vars => IInv'
  BY ProtocolAssumption, NextHolds
<1> QED BY InitHolds, <1>1, PTL DEF Spec

(* Whatever was prepared, crashed or mixed in between, a plan is executed  *)
(* under a planner's decision only when its candidate was legal for the    *)
(* checked data and unbeaten among the legal ones.                         *)
THEOREM AlwaysLegal == Spec => []ApprovedIsLegal
<1> QED BY Invariance, LegalFromInvariant, PTL
-----------------------------------------------------------------------------
\* A chosen plan carries the planner's selection with its decision, or neither.
LEMMA ChosenDecision ==
  ASSUME ProtocolAssumption, NEW p \in Protocols, NEW c \in Contents, NEW ph, Chosen(ph, p, c)
  PROVE  /\ ph = PhysicalPlan(ValidatedPlan(p), ph.strategy, ph.decision, ph.selected)
         /\ IF ph.decision = None THEN ph.selected = None ELSE ph.selected = ph.decision.selected
<1>1. CASE ph = PhysicalPlan(ValidatedPlan(p), "fused", None, None)
  BY <1>1 DEF PhysicalPlan
<1>2. CASE /\ Planning(p, c).selected = p.required
           /\ ph = PhysicalPlan(ValidatedPlan(p), p.required, Planning(p, c), p.required)
  <2>1. Planning(p, c) # None
    BY DEF ProtocolAssumption
  <2> QED BY <1>2, <2>1 DEF PhysicalPlan
<1> QED BY <1>1, <1>2 DEF Chosen

\* Plans of equal digest, policy and data are the same plan.
LEMMA SamePlan ==
  ASSUME NEW p, NEW q,
         ValidatedPlan(p).digest = ValidatedPlan(q).digest,
         ValidatedPlan(p).policy = ValidatedPlan(q).policy,
         ValidatedPlan(p).data = ValidatedPlan(q).data
  PROVE  ValidatedPlan(p) = ValidatedPlan(q)
<1>1. p.request = q.request /\ p.lineage = q.lineage
  BY DEF ValidatedPlan
<1>2. p.policy = q.policy /\ p.snapshot = q.snapshot
  BY DEF ValidatedPlan
<1> QED BY <1>1, <1>2 DEF ValidatedPlan

(* The verifier accepts a certificate only with the physical plan it was   *)
(* issued for: the id binds the strategy, the comparison of the decisions  *)
(* binds what the id does not cover.                                       *)
LEMMA SamePhysicalPlan ==
  ASSUME ProtocolAssumption,
         NEW p \in Protocols, NEW a \in Contents, NEW ph, Chosen(ph, p, a),
         NEW q \in Protocols, NEW b \in Contents, NEW ch, Chosen(ch, q, b),
         NEW l, NEW res, NEW o, Accepted(l, ph, Certificate(ValidatedPlan(q), ch, res), o)
  PROVE  ph = ch
<1> DEFINE c == Certificate(ValidatedPlan(q), ch, res)
<1>1. PhysicalPlanId(ph) = PhysicalPlanId(ch)
  BY DEF Accepted, CertificateBound, Certificate
<1>2. /\ ph.digest = ch.digest /\ ph.policy = ch.policy /\ ph.data = ch.data
      /\ ph.strategy = ch.strategy /\ ph.instrumentation = ch.instrumentation
      /\ ph.pending = ch.pending
  BY <1>1 DEF PhysicalPlanId
<1>3. PlannerBound(ph, c, o)
  BY DEF Accepted
<1>4. c.decision = ch.decision
  BY DEF Certificate
<1>5. ph.decision = ch.decision
  <2> HIDE DEF c
  <2> QED BY <1>3, <1>4 DEF PlannerBound
<1>6. ph.selected = ch.selected
  BY <1>5, ChosenDecision
<1>7. /\ ph = [digest |-> ph.digest, policy |-> ph.policy, data |-> ph.data,
               pending |-> ph.pending, instrumentation |-> ph.instrumentation,
               strategy |-> ph.strategy, decision |-> ph.decision, selected |-> ph.selected]
      /\ ch = [digest |-> ch.digest, policy |-> ch.policy, data |-> ch.data,
               pending |-> ch.pending, instrumentation |-> ch.instrumentation,
               strategy |-> ch.strategy, decision |-> ch.decision, selected |-> ch.selected]
  <2>1. /\ ph = PhysicalPlan(ValidatedPlan(p), ph.strategy, ph.decision, ph.selected)
        /\ ch = PhysicalPlan(ValidatedPlan(q), ch.strategy, ch.decision, ch.selected)
    BY ChosenDecision
  <2> QED BY <2>1 DEF PhysicalPlan
<1> QED BY <1>2, <1>5, <1>6, <1>7

\* What a file of a run directory holds.
LEMMA FilesHold ==
  ASSUME IInv, NEW r \in DOMAIN runs
  PROVE  /\ runs[r].protocol \in Protocols /\ runs[r].checked \in Contents
         /\ Has(r, "validated_plan") =>
              FileOf(r, "validated_plan") = ValidatedPlan(runs[r].protocol)
         /\ Has(r, "approved_physical_plan") =>
              Chosen(FileOf(r, "approved_physical_plan"), runs[r].protocol, runs[r].checked)
         /\ \E ph, res :
              /\ Chosen(ph, runs[r].protocol, runs[r].checked)
              /\ Has(r, "approved_physical_plan") => FileOf(r, "approved_physical_plan") = ph
              /\ Has(r, "certificate") =>
                   FileOf(r, "certificate") = Certificate(ValidatedPlan(runs[r].protocol), ph, res)
<1>1. PICK ph, res : Holds(runs[r], ph, res)
  BY DEF IInv, RunsHold
<1> QED BY <1>1 DEF Holds, Has, FileOf
-----------------------------------------------------------------------------
\* The place of the approved physical plan among the files of a study.
PlanPlace(study) == IF study = "v1" THEN 2 ELSE 3

Evidence == {"validated_plan", "approved_physical_plan", "certificate", "summary"}

(* Evidence is written in order: no certificate without the plans it is    *)
(* for, and a run is named when all of its evidence is there.              *)
Ordered ==
  /\ writing \in Nat /\ 0 < writing /\ (pc # "write" => writing = 1)
  /\ \A r \in DOMAIN runs : Has(r, "certificate") =>
       Has(r, "validated_plan") /\ Has(r, "approved_physical_plan")
  /\ latest # 0 => latest \in DOMAIN runs /\ \A f \in Evidence : Has(latest, f)
  /\ pc = "write" =>
       /\ writing <= Len(Files(protocol.study))
       /\ \A n \in 1 .. Len(Files(protocol.study)) :
            n < writing => Has(Len(runs), Files(protocol.study)[n])

\* Where each file stands.
LEMMA FilePlaces ==
  ASSUME NEW study
  PROVE  /\ Len(Files(study)) \in Nat
         /\ PlanPlace(study) \in {2, 3} /\ PlanPlace(study) + 3 = Len(Files(study))
         /\ \A n \in 1 .. Len(Files(study)) :
              /\ Files(study)[n] = "validated_plan" <=> n = 1
              /\ Files(study)[n] = "approved_physical_plan" <=> n = PlanPlace(study)
              /\ Files(study)[n] = "certificate" <=> n = PlanPlace(study) + 1
              /\ Files(study)[n] = "summary" <=> n = PlanPlace(study) + 2
              /\ Files(study)[n] = "latest_run" <=> n = Len(Files(study))
<1>1. CASE study = "v1"
  BY <1>1 DEF Files, PlanPlace
<1>2. CASE study # "v1"
  BY <1>2 DEF Files, PlanPlace
<1> QED BY <1>1, <1>2

\* A step that writes nothing, and the end of a process, keep the order.
LEMMA OrderKept ==
  ASSUME Ordered, UNCHANGED <<runs, latest>>, writing' = writing \/ Forget,
         pc' # "write", pc = "write" => Forget
  PROVE  Ordered'
BY DEF Ordered, Forget, Has

\* One file more is in the directory that is written to.
LEMMA WriteAdds ==
  ASSUME IInv, Write
  PROVE  /\ DOMAIN runs' = DOMAIN runs /\ Len(runs') = Len(runs) /\ Len(runs) \in DOMAIN runs
         /\ \A r \in DOMAIN runs : \A f : Has(r, f) => Has(r, f)'
         /\ \A r \in DOMAIN runs : \A f : Has(r, f)' =>
              Has(r, f) \/ (r = Len(runs) /\ f = Files(protocol.study)[writing])
         /\ Files(protocol.study)[writing] # "latest_run" =>
              /\ Files(protocol.study)[writing] \in DOMAIN runs'[Len(runs)].files
              /\ UNCHANGED latest
         /\ Files(protocol.study)[writing] = "latest_run" => latest' = Len(runs)
<1> DEFINE last == Len(runs)
           file == Files(protocol.study)[writing]
           held == runs[last].files
           files == [f \in DOMAIN held \cup {file} |-> IF f = file THEN FileContent(file) ELSE held[f]]
<1>1. PICK S : runs \in Seq(S)
  BY DEF IInv, RunsHold
<1>2. pc = "write" /\ last # 0
  BY DEF Write, IInv, RunsHold
<1>3. last \in DOMAIN runs
  BY <1>1, <1>2
<1>4. CASE UNCHANGED runs /\ file = "latest_run"
  BY <1>3, <1>4 DEF Has, Write
<1>5. CASE runs' = [runs EXCEPT ![last].files = files] /\ file # "latest_run" /\ UNCHANGED latest
  <2> DEFINE new == [runs[last] EXCEPT !.files = files]
  <2> HIDE DEF files
  <2>1. runs' = [runs EXCEPT ![last] = new]
    BY <1>5
  <2>2. new.files = files
    OBVIOUS
  <2> HIDE DEF new
  <2>3. runs \in Seq(S \cup {new})
    BY <1>1
  <2>4. /\ runs' \in Seq(S \cup {new}) /\ DOMAIN runs' = DOMAIN runs /\ Len(runs') = Len(runs)
        /\ \A r \in DOMAIN runs : r # last => runs'[r] = runs[r]
        /\ runs'[last].files = files
    BY <1>3, <2>1, <2>2, <2>3
  <2>5. DOMAIN files = DOMAIN runs[last].files \cup {file}
    BY DEF files
  <2>6. ASSUME NEW r \in DOMAIN runs
        PROVE  DOMAIN runs'[r].files
                 = DOMAIN runs[r].files \cup IF r = last THEN {file} ELSE {}
    BY <2>4, <2>5
  <2> HIDE DEF file
  <2>7. \A r \in DOMAIN runs : \A f :
          Has(r, f)' <=> Has(r, f) \/ (r = last /\ f = file)
    BY <2>6 DEF Has
  <2>8. /\ \A r \in DOMAIN runs : \A f : Has(r, f) => Has(r, f)'
        /\ \A r \in DOMAIN runs : \A f : Has(r, f)' => Has(r, f) \/ (r = Len(runs) /\ f = file)
        /\ file \in DOMAIN runs'[Len(runs)].files
    BY <1>3, <2>4, <2>6, <2>7 DEF last
  <2> QED BY <1>3, <1>5, <2>4, <2>8 DEF file
<1>6. \/ UNCHANGED runs /\ file = "latest_run"
      \/ runs' = [runs EXCEPT ![last].files = files] /\ file # "latest_run" /\ UNCHANGED latest
  BY DEF Write
<1> QED BY <1>4, <1>5, <1>6

LEMMA OrderedInit == Init => Ordered
BY DEF Init, Ordered

LEMMA OrderedNext ==
  ASSUME IInv, Ordered, [Next]_vars
  PROVE  Ordered'
<1> USE DEF Proceed, Abort, data, evidence
<1>1. CASE Certify
  <2> DEFINE run == [protocol |-> protocol, checked |-> checked, files |-> [f \in {} |-> None]]
  <2>1. CASE runs' = Append(runs, run) /\ pc' = "write" /\ UNCHANGED <<writing, protocol, latest>>
    <3>1. PICK S : runs \in Seq(S)
      BY DEF IInv, RunsHold
    <3>2. run.files = [f \in {} |-> None]
      OBVIOUS
    <3> HIDE DEF run
    <3>3. runs \in Seq(S \cup {run})
      BY <3>1
    <3>4. /\ \A r \in DOMAIN runs' : (r \in DOMAIN runs /\ runs'[r] = runs[r]) \/ runs'[r] = run
          /\ \A r \in DOMAIN runs : r \in DOMAIN runs' /\ runs'[r] = runs[r]
      BY <2>1, <3>3
    <3>5. \A r \in DOMAIN runs' : Has(r, "certificate")' =>
            r \in DOMAIN runs /\ runs'[r] = runs[r]
      BY <3>2, <3>4 DEF Has
    <3>6. \A r \in DOMAIN runs' : Has(r, "certificate")' =>
            Has(r, "validated_plan")' /\ Has(r, "approved_physical_plan")'
      BY <3>5 DEF Ordered, Has
    <3>7. writing = 1
      BY <1>1 DEF Ordered, Certify
    <3>8. PlanPlace(protocol.study) \in {2, 3} /\ PlanPlace(protocol.study) < Len(Files(protocol.study))
          /\ Len(Files(protocol.study)) \in Nat
      BY FilePlaces
    <3>9. latest' # 0 => latest' \in DOMAIN runs' /\ \A f \in Evidence : Has(latest, f)'
      BY <2>1, <3>4 DEF Ordered, Has
    <3> QED BY <2>1, <3>6, <3>7, <3>8, <3>9 DEF Ordered
  <2>2. CASE Abort
    BY <1>1, <2>2, OrderKept DEF Certify, Forget
  <2> QED BY <1>1, <2>1, <2>2 DEF Certify
<1>2. CASE Write
  <2> DEFINE study == protocol.study
             file == Files(study)[writing]
  <2>1. /\ pc = "write" /\ writing \in 1 .. Len(Files(study)) /\ Len(Files(study)) \in Nat
    BY <1>2, FilePlaces DEF Ordered, Write
  <2>2. /\ file = "certificate" <=> writing = PlanPlace(study) + 1
        /\ file = "latest_run" <=> writing = Len(Files(study))
        /\ PlanPlace(study) \in {2, 3} /\ PlanPlace(study) + 3 = Len(Files(study))
        /\ Files(study)[1] = "validated_plan"
        /\ Files(study)[PlanPlace(study)] = "approved_physical_plan"
        /\ Files(study)[PlanPlace(study) + 1] = "certificate"
        /\ Files(study)[PlanPlace(study) + 2] = "summary"
    BY <2>1, FilePlaces
  <2>3. \A n \in 1 .. Len(Files(study)) :
          n <= writing /\ n # Len(Files(study)) =>
            Files(study)[n] \in DOMAIN runs'[Len(runs)].files
    <3> SUFFICES ASSUME NEW n \in 1 .. Len(Files(study)), n <= writing, n # Len(Files(study))
                 PROVE  Files(study)[n] \in DOMAIN runs'[Len(runs)].files
      OBVIOUS
    <3>1. CASE n < writing
      <4>1. Has(Len(runs), Files(study)[n])
        BY <2>1, <3>1 DEF Ordered
      <4> HIDE DEF study
      <4>2. \A f : Has(Len(runs), f) => f \in DOMAIN runs'[Len(runs)].files
        BY <1>2, WriteAdds DEF Has
      <4> QED BY <4>1, <4>2
    <3>2. CASE n = writing
      BY <1>2, <2>1, <2>2, <3>2, WriteAdds
    <3> QED BY <2>1, <3>1, <3>2
  <2>4. ASSUME NEW r \in DOMAIN runs', Has(r, "certificate")'
        PROVE  Has(r, "validated_plan")' /\ Has(r, "approved_physical_plan")'
    <3>1. r \in DOMAIN runs
      BY <1>2, WriteAdds
    <3>2. CASE Has(r, "certificate")
      BY <1>2, <3>1, <3>2, WriteAdds DEF Ordered
    <3>3. CASE r = Len(runs) /\ file = "certificate"
      <4>1. PlanPlace(study) <= writing /\ PlanPlace(study) \in 1 .. Len(Files(study))
            /\ PlanPlace(study) # Len(Files(study)) /\ 1 <= writing /\ 1 \in 1 .. Len(Files(study))
            /\ 1 # Len(Files(study))
        <5> DEFINE place == PlanPlace(study)
                   size == Len(Files(study))
        <5>1. place \in {2, 3} /\ place + 3 = size /\ writing = place + 1
          BY <2>2, <3>3
        <5> HIDE DEF place, size
        <5>2. /\ place <= writing /\ place \in 1 .. size /\ place # size
              /\ 1 <= writing /\ 1 \in 1 .. size /\ 1 # size
          BY <5>1
        <5> QED BY <5>2 DEF place, size
      <4>2. {"validated_plan", "approved_physical_plan"} \subseteq DOMAIN runs'[Len(runs)].files
        BY <2>2, <2>3, <4>1
      <4> QED BY <3>3, <4>2 DEF Has
    <3> QED BY <1>2, <2>4, <3>1, <3>2, <3>3, WriteAdds
  <2>7. latest' # 0 => latest' \in DOMAIN runs' /\ \A f \in Evidence : Has(latest, f)'
    <3>1. CASE file = "latest_run"
      <4>1. latest' = Len(runs) /\ Len(runs) \in DOMAIN runs'
        BY <1>2, <3>1, WriteAdds
      <4>2. \A n \in 1 .. (Len(Files(study)) - 1) : Files(study)[n] \in DOMAIN runs'[Len(runs)].files
        BY <2>1, <2>2, <2>3, <3>1
      <4>3. {1, PlanPlace(study), PlanPlace(study) + 1, PlanPlace(study) + 2}
              \subseteq 1 .. (Len(Files(study)) - 1)
        <5> DEFINE place == PlanPlace(study)
                   size == Len(Files(study))
        <5>1. place \in {2, 3} /\ place + 3 = size
          BY <2>2
        <5> HIDE DEF place, size
        <5>2. {1, place, place + 1, place + 2} \subseteq 1 .. (size - 1)
          BY <5>1
        <5> QED BY <5>2 DEF place, size
      <4>4. Evidence \subseteq DOMAIN runs'[Len(runs)].files
        BY <2>2, <4>2, <4>3 DEF Evidence
      <4> QED BY <4>1, <4>4 DEF Has
    <3>2. CASE file # "latest_run"
      <4>1. UNCHANGED latest /\ DOMAIN runs' = DOMAIN runs
        BY <1>2, <3>2, WriteAdds
      <4>2. \A r \in DOMAIN runs : \A f : Has(r, f) => f \in DOMAIN runs'[r].files
        BY <1>2, WriteAdds DEF Has
      <4> QED BY <4>1, <4>2 DEF Ordered, Has
    <3> QED BY <3>1, <3>2
  <2>5. CASE Forget
    BY <2>4, <2>5, <2>7 DEF Ordered, Forget
  <2>6. CASE /\ writing' = writing + 1 /\ writing # Len(Files(study))
             /\ UNCHANGED <<pc, protocol>>
    <3>1. writing' \in Nat /\ 0 < writing' /\ writing' <= Len(Files(study))
      BY <2>1, <2>6
    <3>2. \A n \in 1 .. Len(Files(study)) :
            n < writing' => n <= writing /\ n # Len(Files(study))
      BY <2>1, <2>6
    <3>3. Len(runs') = Len(runs)
      BY <1>2, WriteAdds
    <3>4. \A n \in 1 .. Len(Files(study)) :
            n < writing' => Has(Len(runs), Files(protocol.study)[n])'
      BY <2>3, <2>6, <3>2, <3>3 DEF Has
    <3>5. writing' <= Len(Files(protocol'.study)) /\ pc' = "write"
      BY <2>1, <2>6, <3>1
    <3> QED BY <2>4, <2>6, <2>7, <3>1, <3>4, <3>5 DEF Ordered
  <2> QED BY <1>2, <2>5, <2>6 DEF Write
<1>3. CASE UNCHANGED <<runs, latest, pc, protocol, writing>>
  BY <1>3 DEF Ordered, Has
<1>4. ASSUME NEW p \in Protocols, Start(p) PROVE Ordered'
  BY <1>4, OrderKept DEF Start
<1>5. CASE Validate \/ Execute
  BY <1>5, OrderKept DEF Validate, Execute
<1>6. CASE CheckData
  BY <1>6, OrderKept DEF CheckData, Forget
<1>7. CASE ChooseCandidate
  BY <1>7, OrderKept DEF ChooseCandidate, Forget
<1>8. CASE Repeat
  BY <1>8, OrderKept DEF Repeat, Forget
<1>9. CASE Crash
  BY <1>9, OrderKept DEF Crash, Forget
<1> QED BY <1>1, <1>2, <1>3, <1>4, <1>5, <1>6, <1>7, <1>8, <1>9
        DEF Next, Loop, PrepareTable, PrepareManifest, process, vars
-----------------------------------------------------------------------------
LEMMA OneExecutionFromInvariant ==
  ProtocolAssumption /\ IInv /\ Ordered => AcceptedIsOneExecution
<1> SUFFICES ASSUME ProtocolAssumption, IInv, Ordered,
                    NEW l \in Having("validated_plan"), NEW p \in Having("approved_physical_plan"),
                    NEW c \in Having("certificate"), NEW o \in Observations,
                    Accepted(FileOf(l, "validated_plan"), FileOf(p, "approved_physical_plan"),
                             FileOf(c, "certificate"), o)
             PROVE  /\ FileOf(l, "validated_plan") = FileOf(c, "validated_plan")
                    /\ FileOf(p, "approved_physical_plan") = FileOf(c, "approved_physical_plan")
                    /\ FileOf(c, "certificate").evidence.edges
                         = {<<Target, FileOf(l, "validated_plan").data>>}
                    /\ o.result # None => o.result = FileOf(c, "certificate").result
  BY DEF AcceptedIsOneExecution
<1>1. /\ l \in DOMAIN runs /\ Has(l, "validated_plan")
      /\ p \in DOMAIN runs /\ Has(p, "approved_physical_plan")
      /\ c \in DOMAIN runs /\ Has(c, "certificate")
      /\ Has(c, "validated_plan") /\ Has(c, "approved_physical_plan")
  BY DEF Having, Ordered
<1> DEFINE lp == ValidatedPlan(runs[l].protocol)
           cp == ValidatedPlan(runs[c].protocol)
<1>2. FileOf(l, "validated_plan") = lp /\ FileOf(c, "validated_plan") = cp
  BY <1>1, FilesHold
<1>3. PICK res : FileOf(c, "certificate")
                   = Certificate(cp, FileOf(c, "approved_physical_plan"), res)
  BY <1>1, FilesHold
<1>4. CertificateBound(lp, FileOf(p, "approved_physical_plan"), FileOf(c, "certificate"))
  BY <1>2 DEF Accepted
<1>5. lp.digest = cp.digest /\ lp.policy = cp.policy /\ lp.data = cp.data
  <2> HIDE DEF lp, cp
  <2> QED BY <1>3, <1>4 DEF CertificateBound, Certificate
<1>6. lp = cp
  BY <1>5, SamePlan
<1>7. FileOf(p, "approved_physical_plan") = FileOf(c, "approved_physical_plan")
  <2>1. /\ runs[p].protocol \in Protocols /\ runs[p].checked \in Contents
        /\ Chosen(FileOf(p, "approved_physical_plan"), runs[p].protocol, runs[p].checked)
        /\ runs[c].protocol \in Protocols /\ runs[c].checked \in Contents
        /\ Chosen(FileOf(c, "approved_physical_plan"), runs[c].protocol, runs[c].checked)
    BY <1>1, FilesHold
  <2>2. Accepted(lp, FileOf(p, "approved_physical_plan"),
                 Certificate(ValidatedPlan(runs[c].protocol),
                             FileOf(c, "approved_physical_plan"), res), o)
    BY <1>2, <1>3
  <2> QED BY <2>1, <2>2, SamePhysicalPlan
<1>8. FileOf(c, "certificate").evidence.edges = {<<Target, cp.data>>}
  <2> HIDE DEF cp
  <2> QED BY <1>3 DEF Certificate, Lineage
<1>9. o.result # None => o.result = FileOf(c, "certificate").result
  BY DEF Accepted, ResultBound
<1> QED BY <1>2, <1>6, <1>7, <1>8, <1>9

\* The gates of Repeat and Certify are behind every certificate on disk.
LEMMA CertificateHolds ==
  ASSUME IInv, NEW r \in Having("certificate")
  PROVE  \E ph, res :
           /\ Holds(runs[r], ph, res)
           /\ FileOf(r, "certificate") = Certificate(ValidatedPlan(runs[r].protocol), ph, res)
<1>1. r \in DOMAIN runs /\ "certificate" \in DOMAIN runs[r].files
  BY DEF Having, Has
<1>2. PICK ph, res : Holds(runs[r], ph, res)
  BY <1>1 DEF IInv, RunsHold
<1> QED BY <1>1, <1>2 DEF Holds, FileOf

LEMMA FrozenFromInvariant == FrozenAssumption /\ IInv => FrozenResultIsOfSnapshot
<1> SUFFICES ASSUME FrozenAssumption, IInv, NEW r \in Having("certificate"),
                    runs[r].protocol.result # None
             PROVE  FileOf(r, "certificate").result
                      = ResultRows[runs[r].protocol.request][FileOf(r, "certificate").data]
  BY DEF FrozenResultIsOfSnapshot
<1> DEFINE p == runs[r].protocol
<1>1. PICK ph, res : /\ Holds(runs[r], ph, res)
                     /\ FileOf(r, "certificate") = Certificate(ValidatedPlan(p), ph, res)
  BY CertificateHolds
<1>2. p \in Protocols /\ res = p.result
  BY <1>1 DEF Holds, Certified, OfFrozen
<1>3. FileOf(r, "certificate").result = res /\ FileOf(r, "certificate").data = p.snapshot
  BY <1>1 DEF Certificate, ValidatedPlan
<1> QED BY <1>2, <1>3 DEF FrozenAssumption

(* Whatever is prepared between the check of the table and its two reads,  *)
(* where a protocol freezes a result only the rows that the snapshot named *)
(* in the certificate gives are certified.  That the table read was that   *)
(* snapshot does not follow, and is not claimed: the digest covers the     *)
(* result rows alone.                                                      *)
THEOREM AlwaysOfSnapshot == Spec => []FrozenResultIsOfSnapshot
<1>1. IInv => FrozenResultIsOfSnapshot
  BY FrozenAssumption, FrozenFromInvariant
<1> QED BY Invariance, <1>1, PTL

LEMMA LatestFromInvariant == IInv /\ Ordered => LatestVerifies
<1> SUFFICES ASSUME IInv, Ordered, latest # 0
             PROVE  /\ Evidence \subseteq DOMAIN runs[latest].files
                    /\ Accepted(FileOf(latest, "validated_plan"),
                                FileOf(latest, "approved_physical_plan"),
                                FileOf(latest, "certificate"), FileOf(latest, "summary"))
                    /\ Unverified(FileOf(latest, "approved_physical_plan"),
                                  FileOf(latest, "certificate"), FileOf(latest, "summary"))
                         = {"physical_plan_execution"}
  BY DEF LatestVerifies, Evidence
<1>1. latest \in DOMAIN runs /\ \A f \in Evidence : Has(latest, f)
  BY DEF Ordered
<1> DEFINE l == ValidatedPlan(runs[latest].protocol)
<1>2. PICK ph, res : Holds(runs[latest], ph, res)
  BY <1>1 DEF IInv, RunsHold
<1>3. /\ FileOf(latest, "validated_plan") = l
      /\ FileOf(latest, "approved_physical_plan") = ph
      /\ FileOf(latest, "certificate") = Certificate(l, ph, res)
      /\ FileOf(latest, "summary") = Observation(res, ph)
  BY <1>1, <1>2 DEF Holds, Has, FileOf, Evidence
<1>4. Convincing(l, ph, Certificate(l, ph, res), res)
  BY <1>2 DEF Holds, Certified
<1>5. Evidence \subseteq DOMAIN runs[latest].files
  BY <1>1 DEF Has
<1> QED BY <1>3, <1>4, <1>5 DEF Convincing

(* latest_run.json is written after the evidence it names, and only for a  *)
(* run the verifier was convinced by: a crash leaves the name of an older  *)
(* whole run, never of a torn one.                                         *)
THEOREM AlwaysLatestVerifies == Spec => []LatestVerifies
<1>1. Ordered /\ IInv /\ [Next]_vars => Ordered'
  BY OrderedNext
<1> QED BY Invariance, OrderedInit, LatestFromInvariant, <1>1, PTL DEF Spec

(* Whichever files of whichever runs a reader puts together, the verifier  *)
(* accepts them only when they are of one plan, one physical plan and one  *)
(* result.                                                                 *)
THEOREM AlwaysOneExecution == Spec => []AcceptedIsOneExecution
<1>1. Ordered /\ IInv /\ [Next]_vars => Ordered'
  BY OrderedNext
<1>2. IInv /\ Ordered => AcceptedIsOneExecution
  BY ProtocolAssumption, OneExecutionFromInvariant
<1> QED BY Invariance, OrderedInit, <1>1, <1>2, PTL DEF Spec
-----------------------------------------------------------------------------
(* The event log that certifying writes: the code's recorder implements    *)
(* the recorded execution the verifier expects, for every plan whose DAG   *)
(* is valid and every order of ids.                                        *)

(* Before the operators the log is known: the decision is written once.    *)
RecorderOpening ==
  /\ phase = "plan" => events = <<>>
  /\ phase = "decision" => events = <<Event(0, "PlanApproved", NoOperator)>>

RecorderInv == RoundsOK /\ RecorderOpening

(* The instance's operators on plans are this module's.                    *)
LEMMA SameDag ==
  /\ Recorded!Known(Plan) = Known(Plan)
  /\ \A o : Recorded!Inputs(Plan, o) = Inputs(Plan, o)
BY DEF Recorded!Known, Known, Recorded!Indices, Indices, Recorded!Inputs,
       Inputs, Recorded!LastIndex, LastIndex

LEMMA RecorderInitInv == RecorderInit => RecorderInv
BY DEF RecorderInit, RecorderInv, RoundsOK, RecorderOpening

LEMMA RecorderNextInv == RecorderInv /\ [RecorderNext]_recorderVars => RecorderInv'
<1> SUFFICES ASSUME RecorderInv, [RecorderNext]_recorderVars PROVE RecorderInv'
  OBVIOUS
<1> USE DEF RecorderInv, RoundsOK, RecorderOpening
<1>1. CASE WritePlan
  <2>1. Event(Len(<<>>), "PlanApproved", NoOperator) = Event(0, "PlanApproved", NoOperator)
    BY DEF Event
  <2> QED
    BY <1>1, <2>1 DEF WritePlan, WriteRun, Record
<1>2. CASE WriteDecision
  BY <1>2 DEF WriteDecision, WriteRun
<1>3. CASE FormRound
  BY <1>3 DEF FormRound, Ready
<1>4. CASE \E o \in Known(Plan) : WriteStart(o)
  BY <1>4 DEF WriteStart
<1>5. CASE \E o \in Known(Plan) : WriteCompletion(o)
  BY <1>5 DEF WriteCompletion
<1>6. CASE WriteResult
  BY <1>6 DEF WriteResult, WriteRun
<1>7. CASE WriteLineage
  BY <1>7 DEF WriteLineage, WriteRun
<1>8. CASE WriteCertificate
  BY <1>8 DEF WriteCertificate, WriteRun
<1>9. CASE UNCHANGED recorderVars
  BY <1>9 DEF recorderVars
<1> QED
  BY <1>1, <1>2, <1>3, <1>4, <1>5, <1>6, <1>7, <1>8, <1>9 DEF RecorderNext

LEMMA RecorderInitRefines == RecorderInit => Recorded!Init
BY DEF RecorderInit, Recorded!Init, Recorded!ExecInit, recordedStage

(* Every step of the recorder is a step of the recorded execution, or the  *)
(* forming of a round, which the log does not show.                        *)
LEMMA RecorderNextRefines ==
  RecorderInv /\ [RecorderNext]_recorderVars => [Recorded!Next]_(Recorded!vars)
<1> SUFFICES ASSUME RecorderInv, [RecorderNext]_recorderVars
             PROVE  Recorded!Next \/ UNCHANGED Recorded!vars
  OBVIOUS
<1> USE SameDag
    DEF RecorderInv, RoundsOK, RecorderOpening, recordedStage, Record, Event, Recorded!Record,
        Recorded!Event, Recorded!vars, Recorded!execVars
<1>1. CASE WritePlan
  <2>1. Recorded!ApprovePlan
    BY <1>1 DEF WritePlan, WriteRun, Recorded!ApprovePlan, Recorded!Approve
  <2> QED
    BY <2>1 DEF Recorded!Next
<1>2. CASE WriteDecision
  <2>1. ~Recorded!HasEvent(events, "PolicyDecisionRecorded")
    BY <1>2 DEF WriteDecision, WriteRun, Recorded!HasEvent, Recorded!OfType
  <2>2. Recorded!RecordDecision
    BY <1>2, <2>1 DEF WriteDecision, WriteRun, Recorded!RecordDecision
  <2> QED
    BY <2>2 DEF Recorded!Next
<1>3. CASE FormRound
  BY <1>3 DEF FormRound
<1>4. ASSUME NEW o \in Known(Plan), WriteStart(o) PROVE Recorded!Next
  <2>1. Recorded!StartOperator(o)
    BY <1>4 DEF WriteStart, Recorded!StartOperator, Recorded!Start
  <2> QED
    BY <2>1 DEF Recorded!Next
<1>5. ASSUME NEW o \in Known(Plan), WriteCompletion(o) PROVE Recorded!Next
  <2>1. phase = "operators"
    BY <1>5 DEF WriteCompletion
  <2>2. Recorded!CompleteOperator(o)
    BY <1>5, <2>1 DEF WriteCompletion, Recorded!CompleteOperator, Recorded!Complete
  <2> QED
    BY <2>2 DEF Recorded!Next
<1>6. CASE WriteResult
  <2>1. Recorded!MaterializeResult
    BY <1>6 DEF WriteResult, WriteRun, Recorded!MaterializeResult, Recorded!Materialize
  <2> QED
    BY <2>1 DEF Recorded!Next
<1>7. CASE WriteLineage
  <2>1. Recorded!RecordLineageEvent
    BY <1>7 DEF WriteLineage, WriteRun, Recorded!RecordLineageEvent, Recorded!RecordLineage
  <2> QED
    BY <2>1 DEF Recorded!Next
<1>8. CASE WriteCertificate
  <2>1. Recorded!EmitCertificate
    BY <1>8 DEF WriteCertificate, WriteRun, Recorded!EmitCertificate, Recorded!Emit
  <2> QED
    BY <2>1 DEF Recorded!Next
<1>9. CASE UNCHANGED recorderVars
  BY <1>9 DEF recorderVars
<1> QED
  BY <1>1, <1>2, <1>3, <1>4, <1>5, <1>6, <1>7, <1>8, <1>9 DEF RecorderNext

(* The rounds of _topological_physical_operators: nothing is left out,     *)
(* nothing comes twice, and inputs come before what reads them.            *)
THEOREM RoundsInvariant == RecorderSpec => []RoundsOK
<1>1. RecorderInit => RecorderInv
  BY RecorderInitInv
<1>2. RecorderInv /\ [RecorderNext]_recorderVars => RecorderInv'
  BY RecorderNextInv
<1>3. RecorderInv => RoundsOK
  BY DEF RecorderInv
<1> QED
  BY <1>1, <1>2, <1>3, PTL DEF RecorderSpec

(* _certificate_events over _topological_physical_operators writes the log *)
(* of an execution in dependency order.                                    *)
THEOREM RecorderRefines == RecorderSpec => RecorderIsAnExecution
<1>1. RecorderInit => RecorderInv /\ Recorded!Init
  BY RecorderInitInv, RecorderInitRefines
<1>2. RecorderInv /\ [RecorderNext]_recorderVars => RecorderInv'
  BY RecorderNextInv
<1>3. RecorderInv /\ [RecorderNext]_recorderVars => [Recorded!Next]_(Recorded!vars)
  BY RecorderNextRefines
<1> QED
  BY <1>1, <1>2, <1>3, PTL DEF RecorderSpec, RecorderIsAnExecution, Recorded!Spec
-----------------------------------------------------------------------------
(* The statements of a candidate.                                          *)

Clean(s) == s = [db |-> s.db, error |-> s.error] /\ s.error = "none"

CandidateNames == {"policy_first", "query_first", "join_first"}

UnitKinds == unit.kind \in {"pipeline", "checkpoint"}

\* What dropping, creating and running a phase do to a session without an error.
LEMMA Drops ==
  ASSUME NEW s, NEW names, Clean(s)
  PROVE  Clean(Drop(s, names)) /\ DOMAIN Drop(s, names).db = DOMAIN s.db \ names
<1>1. PICK db : s = [db |-> db, error |-> "none"]
  BY DEF Clean
<1>2. Drop(s, names) = [db |-> [t \in DOMAIN db \ names |-> db[t]], error |-> "none"]
  BY <1>1 DEF Drop
<1> QED BY <1>1, <1>2 DEF Clean

LEMMA Creates ==
  ASSUME NEW s, NEW c, NEW target, Clean(s),
         target \notin DOMAIN s.db, Reads(unit, c, target) \subseteq DOMAIN s.db
  PROVE  /\ Clean(Create(s, c, target)) /\ DOMAIN Create(s, c, target).db = DOMAIN s.db \cup {target}
         /\ Create(s, c, target).db[target] = Rows(c, target, s.db)
         /\ \A t \in DOMAIN s.db : Create(s, c, target).db[t] = s.db[t]
<1>1. PICK db : s = [db |-> db, error |-> "none"]
  BY DEF Clean
<1>2. s.error = "none" /\ Failure(s, c, target) = "none"
  BY <1>1 DEF Failure
<1>3. PICK new : new = [t \in DOMAIN db \cup {target} |->
                          IF t = target THEN Rows(c, target, s.db) ELSE db[t]]
  OBVIOUS
<1>4. Create(s, c, target) = [db |-> new, error |-> "none"]
  BY <1>1, <1>2, <1>3 DEF Create
<1> QED BY <1>1, <1>3, <1>4 DEF Clean

LEMMA Phases ==
  ASSUME NEW s, NEW c, NEW target, Clean(s), engine.explain \in BOOLEAN,
         target \notin DOMAIN s.db, Reads(unit, c, target) \subseteq DOMAIN s.db
  PROVE  Clean(Phase(s, c, target)) /\ DOMAIN Phase(s, c, target).db = DOMAIN s.db \cup {target}
<1>1. PICK e : e = Explain(s, c, target, engine.explain)
  OBVIOUS
<1>2. Clean(e) /\ DOMAIN e.db \ {target} = DOMAIN s.db
  <2>1. Clean(Create(s, c, target)) /\ DOMAIN Create(s, c, target).db = DOMAIN s.db \cup {target}
    BY Creates
  <2>2. CASE engine.explain
    BY <1>1, <2>1, <2>2 DEF Explain
  <2>3. CASE ~engine.explain
    <3>1. PICK db : s = [db |-> db, error |-> "none"]
      BY DEF Clean
    <3>2. Create(s, c, target).error = "none"
      BY <2>1 DEF Clean
    <3>3. e = s
      BY <1>1, <2>3, <3>1, <3>2 DEF Explain
    <3> QED BY <3>3
  <2> QED BY <2>2, <2>3
<1>3. PICK d : d = Drop(e, {target})
  OBVIOUS
<1>4. Clean(d) /\ DOMAIN d.db = DOMAIN s.db
  BY <1>2, <1>3, Drops
<1>5. Clean(Create(d, c, target)) /\ DOMAIN Create(d, c, target).db = DOMAIN s.db \cup {target}
  BY <1>4, Creates
<1>6. Phase(s, c, target) = Create(d, c, target)
  BY <1>1, <1>3 DEF Phase
<1> QED BY <1>5, <1>6

\* The setup statements of a candidate: the second reads what the first made.
SetupOf(c, a, b) ==
  /\ Setup(unit, c) = (IF a = b THEN <<b>> ELSE <<a, b>>)
  /\ Reads(unit, c, a) = {}
  /\ a # b => Reads(unit, c, b) = {a}
  /\ Reads(unit, c, "governed_output") = {b}
  /\ Own(c) = {a, b}
  /\ {a, b} \subseteq Leftovers
  /\ "governed_output" \notin {a, b}
  /\ "governed_output" \in Leftovers

LEMMA SetupIs ==
  ASSUME UnitKinds, NEW c \in CandidateNames
  PROVE  \E a, b : SetupOf(c, a, b)
<1>1. CASE unit.kind = "checkpoint" \/ c = "policy_first"
  <2>1. PICK b \in {"governance_checkpoint", "pipeline_checkpoint"} :
               /\ Setup(unit, c) = <<b>> /\ b \in Leftovers /\ b # "governed_output"
               /\ "governed_output" \in Leftovers
    <3>1. CASE unit.kind = "checkpoint"
      BY <3>1 DEF Setup, Leftovers
    <3>2. CASE unit.kind = "pipeline" /\ c = "policy_first"
      BY <3>2 DEF Setup, Leftovers, Everything
    <3> QED BY <1>1, <3>1, <3>2 DEF UnitKinds
  <2>2. Last(Setup(unit, c)) = b /\ ToSet(Setup(unit, c)) = {b} /\ Len(Setup(unit, c)) = 1
    BY <2>1 DEF Last, ToSet
  <2>3. Reads(unit, c, b) = {} /\ Reads(unit, c, "governed_output") = {b}
    BY <2>1, <2>2 DEF Reads
  <2>4. SetupOf(c, b, b)
    BY <2>1, <2>2, <2>3 DEF SetupOf, Own
  <2> QED BY <2>4
<1>2. CASE unit.kind = "pipeline" /\ c # "policy_first"
  <2>1. PICK a, b : /\ Setup(unit, c) = <<a, b>> /\ {a, b} \subseteq Leftovers
                    /\ a # b /\ "governed_output" \notin {a, b}
                    /\ "governed_output" \in Leftovers
    BY <1>2 DEF CandidateNames, Setup, Leftovers, Everything
  <2>2. Last(Setup(unit, c)) = b /\ ToSet(Setup(unit, c)) = {a, b} /\ Len(Setup(unit, c)) = 2
    BY <2>1 DEF Last, ToSet
  <2>3. /\ Reads(unit, c, a) = {} /\ Reads(unit, c, b) = {a}
        /\ Reads(unit, c, "governed_output") = {b}
    BY <2>1, <2>2 DEF Reads
  <2>4. SetupOf(c, a, b)
    BY <2>1, <2>2, <2>3 DEF SetupOf, Own
  <2> QED BY <2>4
<1> QED BY <1>1, <1>2 DEF UnitKinds, CandidateNames
-----------------------------------------------------------------------------
(* Sequences of statements.                                                *)

\* At most three statements, each in what the one before it left.
LEMMA CreateAllIs ==
  ASSUME NEW s, NEW c, NEW names, Len(names) \in 1 .. 3,
         NEW one, one = Create(s, c, names[1]),
         NEW two, two = Create(one, c, names[2]),
         NEW three, three = Create(two, c, names[3])
  PROVE  /\ Len(names) = 1 => CreateAll(s, c, names) = one
         /\ Len(names) = 2 => CreateAll(s, c, names) = two
         /\ Len(names) = 3 => CreateAll(s, c, names) = three
<1> DEFINE D(f) == [n \in 0 .. Len(names) |->
                      IF n = 0 THEN s ELSE Create(f[n - 1], c, names[n])]
           after == CHOOSE f : f = D(f)
           steps == [n \in 0 .. Len(names) |->
                       CASE n = 0 -> s [] n = 1 -> one [] n = 2 -> two [] n = 3 -> three]
<1>1. steps = D(steps)
  <2>1. ASSUME NEW n \in 0 .. Len(names)
        PROVE  steps[n] = IF n = 0 THEN s ELSE Create(steps[n - 1], c, names[n])
    <3>1. CASE n = 0
      BY <3>1
    <3>2. CASE n = 1
      BY <3>2
    <3>3. CASE n = 2
      BY <3>3
    <3>4. CASE n = 3
      BY <3>4
    <3> QED BY <3>1, <3>2, <3>3, <3>4
  <2> QED BY <2>1
<1>2. after = D(after)
  BY <1>1, Zenon
<1> HIDE DEF after
<1>3. /\ after[0] = s /\ after[1] = one
      /\ Len(names) \in 2 .. 3 => after[2] = two
      /\ Len(names) = 3 => after[3] = three
  <2>1. \A n \in 0 .. Len(names) :
          after[n] = IF n = 0 THEN s ELSE Create(after[n - 1], c, names[n])
    BY <1>2
  <2> HIDE DEF D
  <2>2. after[0] = s
    BY <2>1
  <2>3. after[1] = one
    BY <2>1, <2>2
  <2>4. Len(names) \in 2 .. 3 => after[2] = two
    BY <2>1, <2>3
  <2>5. Len(names) = 3 => after[3] = three
    BY <2>1, <2>4
  <2> QED BY <2>2, <2>3, <2>4, <2>5
<1>4. CreateAll(s, c, names) = after[Len(names)]
  BY Zenon DEF CreateAll, after
<1> QED BY <1>3, <1>4

\* The same of the phases of an observed pipeline, of which there are two.
LEMMA ObservedIs ==
  ASSUME NEW c, NEW names, names = Setup(unit, c), Len(names) \in 1 .. 2,
         NEW s, s = Drop(Session, Own(c)),
         NEW one, one = Phase(s, c, names[1]),
         NEW two, two = Phase(one, c, names[2])
  PROVE  /\ Len(names) = 1 => ObservedPipeline(c) = Drop(one, Own(c))
         /\ Len(names) = 2 => ObservedPipeline(c) = Drop(two, Own(c))
<1> DEFINE D(f) == [n \in 0 .. Len(Setup(unit, c)) |->
                      IF n = 0 THEN Drop(Session, Own(c))
                      ELSE Phase(f[n - 1], c, Setup(unit, c)[n])]
           after == CHOOSE f : f = D(f)
           steps == [n \in 0 .. Len(names) |-> CASE n = 0 -> s [] n = 1 -> one [] n = 2 -> two]
<1>1. steps = D(steps)
  <2>1. ASSUME NEW n \in 0 .. Len(names)
        PROVE  steps[n] = IF n = 0 THEN s ELSE Phase(steps[n - 1], c, names[n])
    <3>1. CASE n = 0
      BY <3>1
    <3>2. CASE n = 1
      BY <3>2
    <3>3. CASE n = 2
      BY <3>3
    <3> QED BY <3>1, <3>2, <3>3
  <2> QED BY <2>1
<1>2. after = D(after)
  BY <1>1, Zenon
<1> HIDE DEF after
<1>3. after[1] = one /\ (Len(names) = 2 => after[2] = two)
  <2>1. \A n \in 0 .. Len(names) :
          after[n] = IF n = 0 THEN s ELSE Phase(after[n - 1], c, names[n])
    BY <1>2
  <2> HIDE DEF D
  <2>2. after[1] = one
    BY <2>1
  <2>3. Len(names) = 2 => after[2] = two
    BY <2>1, <2>2
  <2> QED BY <2>2, <2>3
<1>4. ObservedPipeline(c) = Drop(after[Len(names)], Own(c))
  BY DEF ObservedPipeline, after
<1> QED BY <1>3, <1>4

\* The tables of a candidate are made one from the other.
Built(c, a, b, db) ==
  \E empty, first :
    /\ db[a] = Rows(c, a, empty)
    /\ a # b => first[a] = db[a] /\ db[b] = Rows(c, b, first)

(* Where none of its tables is left, a candidate's statements all succeed  *)
(* and make its tables.                                                    *)
LEMMA CreatingSucceeds ==
  ASSUME NEW s, Clean(s), NEW c, NEW a, NEW b, SetupOf(c, a, b),
         a \notin DOMAIN s.db, b \notin DOMAIN s.db
  PROVE  /\ CreateAll(s, c, Setup(unit, c)).error = "none"
         /\ Built(c, a, b, CreateAll(s, c, Setup(unit, c)).db)
         /\ "governed_output" \notin DOMAIN s.db =>
              /\ CreateAll(s, c, Append(Setup(unit, c), "governed_output")).error = "none"
              /\ Built(c, a, b, CreateAll(s, c, Append(Setup(unit, c), "governed_output")).db)
<1> DEFINE output == "governed_output"
<1>1. CASE a = b
  <2>1. PICK names, all : names = <<b>> /\ all = <<b, output>>
    OBVIOUS
  <2>2. names = Setup(unit, c) /\ all = Append(Setup(unit, c), output)
    BY <1>1, <2>1 DEF SetupOf
  <2>8. /\ Len(names) = 1 /\ names[1] = b
        /\ Len(all) = 2 /\ all[1] = b /\ all[2] = output
    BY <2>1
  <2>3. PICK one, two, three, none :
          /\ one = Create(s, c, b) /\ two = Create(one, c, output)
          /\ three = Create(two, c, all[3]) /\ none = Create(one, c, names[2])
    OBVIOUS
  <2>4. Clean(one) /\ DOMAIN one.db = DOMAIN s.db \cup {b} /\ one.db[b] = Rows(c, b, s.db)
    BY <1>1, <2>3, Creates DEF SetupOf
  <2>41. Built(c, a, b, one.db)
    BY <1>1, <2>4 DEF Built
  <2>5. output \notin DOMAIN s.db => Clean(two) /\ Built(c, a, b, two.db)
    <3> SUFFICES ASSUME output \notin DOMAIN s.db PROVE Clean(two) /\ Built(c, a, b, two.db)
      OBVIOUS
    <3>1. Reads(unit, c, output) \subseteq DOMAIN one.db /\ output \notin DOMAIN one.db
      BY <2>4 DEF SetupOf
    <3>2. Clean(two) /\ two.db[b] = one.db[b]
      BY <2>3, <2>4, <3>1, Creates
    <3> QED BY <1>1, <2>4, <3>2 DEF Built
  <2>6. CreateAll(s, c, all) = two
    BY <2>3, <2>8, CreateAllIs
  <2>7. CreateAll(s, c, names) = one
    <3>1. PICK last : last = Create(none, c, names[3])
      OBVIOUS
    <3> QED BY <2>3, <2>8, <3>1, CreateAllIs
  <2> QED BY <2>2, <2>4, <2>41, <2>5, <2>6, <2>7 DEF Clean
<1>2. CASE a # b
  <2>1. PICK names, all : names = <<a, b>> /\ all = <<a, b, output>>
    OBVIOUS
  <2>2. names = Setup(unit, c) /\ all = Append(Setup(unit, c), output)
    BY <1>2, <2>1 DEF SetupOf
  <2>9. /\ Len(names) = 2 /\ names[1] = a /\ names[2] = b
        /\ Len(all) = 3 /\ all[1] = a /\ all[2] = b /\ all[3] = output
    BY <2>1
  <2>3. PICK one, two, three, none :
          /\ one = Create(s, c, a) /\ two = Create(one, c, b)
          /\ three = Create(two, c, output) /\ none = Create(two, c, names[3])
    OBVIOUS
  <2>4. Clean(one) /\ DOMAIN one.db = DOMAIN s.db \cup {a} /\ one.db[a] = Rows(c, a, s.db)
    BY <2>3, Creates DEF SetupOf
  <2>5. /\ Clean(two) /\ DOMAIN two.db = DOMAIN s.db \cup {a, b}
        /\ two.db[a] = one.db[a] /\ two.db[b] = Rows(c, b, one.db)
    <3>1. Reads(unit, c, b) \subseteq DOMAIN one.db /\ b \notin DOMAIN one.db /\ a \in DOMAIN one.db
      BY <1>2, <2>4 DEF SetupOf
    <3>2. /\ Clean(two) /\ DOMAIN two.db = DOMAIN one.db \cup {b}
          /\ two.db[b] = Rows(c, b, one.db) /\ two.db[a] = one.db[a]
      BY <2>3, <2>4, <3>1, Creates
    <3> QED BY <2>4, <3>2
  <2>51. Built(c, a, b, two.db)
    BY <2>4, <2>5 DEF Built
  <2>6. output \notin DOMAIN s.db => Clean(three) /\ Built(c, a, b, three.db)
    <3> SUFFICES ASSUME output \notin DOMAIN s.db PROVE Clean(three) /\ Built(c, a, b, three.db)
      OBVIOUS
    <3>1. Reads(unit, c, output) \subseteq DOMAIN two.db /\ output \notin DOMAIN two.db
      BY <2>5 DEF SetupOf
    <3>2. Clean(three) /\ \A t \in DOMAIN two.db : three.db[t] = two.db[t]
      BY <2>3, <2>5, <3>1, Creates
    <3>3. three.db[a] = two.db[a] /\ three.db[b] = two.db[b]
      BY <2>5, <3>2
    <3> QED BY <2>4, <2>5, <3>2, <3>3 DEF Built
  <2>7. CreateAll(s, c, all) = three
    BY <2>3, <2>9, CreateAllIs
  <2>8. CreateAll(s, c, names) = two
    BY <2>3, <2>9, CreateAllIs
  <2> QED BY <2>2, <2>5, <2>51, <2>6, <2>7, <2>8 DEF Clean
<1> QED BY <1>1, <1>2

LEMMA ExecutingSucceeds ==
  ASSUME UnitKinds, NEW c \in CandidateNames
  PROVE  /\ Executed(c).error = "none"
         /\ \E a, b : SetupOf(c, a, b) /\ Built(c, a, b, Executed(c).db)
<1>1. PICK a, b : SetupOf(c, a, b)
  BY SetupIs
<1>2. PICK session : session = Session /\ Clean(session)
  <2>1. PICK db : Session = [db |-> db, error |-> "none"]
    BY DEF Session
  <2> QED BY <2>1 DEF Clean
<1>3. ASSUME NEW names, {a, b} \subseteq names
      PROVE  /\ Clean(Drop(session, names))
             /\ {a, b} \cap DOMAIN Drop(session, names).db = {}
             /\ "governed_output" \in names => "governed_output" \notin DOMAIN Drop(session, names).db
  BY <1>2, <1>3, Drops
<1>4. PICK own, left : own = Own(c) /\ left = Leftovers
  OBVIOUS
<1>5. own = {a, b} /\ {a, b} \subseteq left /\ "governed_output" \in left
  BY <1>1, <1>4 DEF SetupOf
<1>6. CASE unit.kind = "pipeline" /\ stage = "warmup"
  <2>1. PICK s : s = Drop(session, own)
    OBVIOUS
  <2>2. Clean(s) /\ a \notin DOMAIN s.db /\ b \notin DOMAIN s.db
    BY <1>3, <1>5, <2>1
  <2>3. Executed(c) = CreateAll(s, c, Setup(unit, c))
    BY <1>2, <1>4, <1>6, <2>1 DEF Executed
  <2> QED BY <1>1, <2>2, <2>3, CreatingSucceeds
<1>7. CASE ~(unit.kind = "pipeline" /\ stage = "warmup")
  <2>1. PICK s : s = Drop(session, left)
    OBVIOUS
  <2>2. Clean(s) /\ a \notin DOMAIN s.db /\ b \notin DOMAIN s.db /\ "governed_output" \notin DOMAIN s.db
    BY <1>3, <1>5, <2>1
  <2>3. Executed(c) = CreateAll(s, c, Append(Setup(unit, c), "governed_output"))
    BY <1>2, <1>4, <1>7, <2>1 DEF Executed
  <2> QED BY <1>1, <2>2, <2>3, CreatingSucceeds
<1> QED BY <1>6, <1>7
\* An observation fails only where profiling does not leave the table it needs.
LEMMA ObservingSucceeds ==
  ASSUME UnitKinds, engine.explain \in BOOLEAN, NEW c \in CandidateNames,
         unit.kind = "pipeline" \/ engine.analyze
  PROVE  Observed(c).error = "none"
<1>1. PICK a, b : SetupOf(c, a, b)
  BY SetupIs
<1>2. PICK session : session = Session /\ Clean(session)
  <2>1. PICK db : Session = [db |-> db, error |-> "none"]
    BY DEF Session
  <2> QED BY <2>1 DEF Clean
<1>3. CASE unit.kind = "pipeline"
  <2>1. PICK own, s : own = Own(c) /\ s = Drop(session, own)
    OBVIOUS
  <2>2. own = {a, b} /\ Clean(s) /\ a \notin DOMAIN s.db /\ b \notin DOMAIN s.db
    <3>1. own = {a, b}
      BY <1>1, <2>1 DEF SetupOf
    <3>2. Clean(s) /\ DOMAIN s.db = DOMAIN session.db \ own
      BY <1>2, <2>1, Drops
    <3> QED BY <3>1, <3>2
  <2>3. PICK names : names = Setup(unit, c)
    OBVIOUS
  <2>4. names = (IF a = b THEN <<b>> ELSE <<a, b>>)
    BY <1>1, <2>3 DEF SetupOf
  <2>5. PICK one, two : one = Phase(s, c, names[1]) /\ two = Phase(one, c, names[2])
    OBVIOUS
  <2>6. names[1] = a /\ Clean(one) /\ DOMAIN one.db = DOMAIN s.db \cup {a}
    <3>1. names[1] = a
      BY <2>4
    <3>2. Reads(unit, c, a) \subseteq DOMAIN s.db
      BY <1>1 DEF SetupOf
    <3>3. one = Phase(s, c, a)
      BY <2>5, <3>1
    <3> QED BY <2>2, <3>1, <3>2, <3>3, Phases
  <2>7. s = Drop(Session, Own(c))
    BY <1>2, <2>1
  <2>8. CASE a = b
    <3>1. Len(names) = 1
      BY <2>4, <2>8
    <3>2. ObservedPipeline(c) = Drop(one, own)
      BY <2>1, <2>3, <2>5, <2>7, <3>1, ObservedIs
    <3>3. Clean(Drop(one, own))
      BY <2>6, Drops
    <3> QED BY <1>3, <3>2, <3>3 DEF Observed, Clean
  <2>9. CASE a # b
    <3>1. Len(names) = 2 /\ names[2] = b
      BY <2>4, <2>9
    <3>2. Clean(two)
      <4>1. Reads(unit, c, b) \subseteq DOMAIN one.db /\ b \notin DOMAIN one.db
        BY <1>1, <2>2, <2>6, <2>9 DEF SetupOf
      <4>2. two = Phase(one, c, b)
        BY <2>5, <3>1
      <4> QED BY <2>6, <4>1, <4>2, Phases
    <3>3. ObservedPipeline(c) = Drop(two, own)
      BY <2>1, <2>3, <2>5, <2>7, <3>1, ObservedIs
    <3>4. Clean(Drop(two, own))
      BY <3>2, Drops
    <3> QED BY <1>3, <3>3, <3>4 DEF Observed, Clean
  <2> QED BY <2>8, <2>9
<1>4. CASE unit.kind = "checkpoint"
  <2> DEFINE target == "governance_checkpoint"
             output == "governed_output"
  <2>1. PICK left, s : left = Leftovers /\ s = Drop(session, left)
    OBVIOUS
  <2>2. Clean(s) /\ target \notin DOMAIN s.db /\ output \notin DOMAIN s.db
    <3>1. Clean(s) /\ DOMAIN s.db = DOMAIN session.db \ left
      BY <1>2, <2>1, Drops
    <3> QED BY <1>4, <2>1, <3>1 DEF Leftovers
  <2>3. Reads(unit, c, target) = {} /\ Reads(unit, c, output) = {target}
    <3>1. Setup(unit, c) = <<target>>
      BY <1>4 DEF Setup
    <3>2. Last(Setup(unit, c)) = target /\ Len(Setup(unit, c)) = 1
      BY <3>1 DEF Last
    <3> QED BY <3>2 DEF Reads
  <2>4. PICK one : one = Create(s, c, target)
    OBVIOUS
  <2>5. Clean(one) /\ DOMAIN one.db = DOMAIN s.db \cup {target}
    BY <2>2, <2>3, <2>4, Creates
  <2>6. Clean(Create(one, c, output))
    BY <2>2, <2>3, <2>5, Creates
  <2>7. Observed(c) = Create(one, c, output)
    <3>1. one = Explain(Drop(Session, Leftovers), c, target, engine.analyze)
      BY <1>2, <1>4, <2>1, <2>4 DEF Explain
    <3> QED BY <1>4, <3>1 DEF Observed, ProfiledCheckpoint, Explain
  <2> QED BY <2>6, <2>7 DEF Clean
<1> QED BY <1>3, <1>4 DEF UnitKinds
-----------------------------------------------------------------------------
(* No run of a unit meets or misses a table.                               *)

UnitInv ==
  /\ UnitKinds
  /\ engine \in [explain : BOOLEAN, analyze : BOOLEAN]
  /\ order \in Seq(CandidateNames)
  /\ NoStatementFails

LEMMA CandidateOrders ==
  /\ \A u : Candidates(u) \in Seq(CandidateNames)
  /\ SetToSeqs(ToSet(Candidates(unit))) \subseteq Seq(CandidateNames)
<1>1. \A u : Candidates(u) \in Seq(CandidateNames)
  <2> TAKE u
  <2>1. <<"policy_first", "query_first">> \in Seq(CandidateNames)
    BY DEF CandidateNames
  <2>2. <<"policy_first", "query_first", "join_first">> \in Seq(CandidateNames)
    BY DEF CandidateNames
  <2> QED BY <2>1, <2>2 DEF Candidates
<1>2. PICK S : S = ToSet(Candidates(unit))
  OBVIOUS
<1>3. S \subseteq CandidateNames
  BY <1>1, <1>2 DEF ToSet
<1>4. IsFiniteSet(CandidateNames)
  <2>1. IsFiniteSet({"policy_first"}) /\ IsFiniteSet({"query_first"}) /\ IsFiniteSet({"join_first"})
    BY FS_Singleton
  <2>2. IsFiniteSet({"policy_first"} \cup {"query_first"})
    BY <2>1, FS_Union
  <2>3. IsFiniteSet({"policy_first"} \cup {"query_first"} \cup {"join_first"})
    BY <2>1, <2>2, FS_Union
  <2>4. CandidateNames = {"policy_first"} \cup {"query_first"} \cup {"join_first"}
    BY DEF CandidateNames
  <2> QED BY <2>3, <2>4
<1>5. Cardinality(S) \in Nat
  BY <1>3, <1>4, FS_Subset, FS_CardinalityType
<1>6. \A f \in SetToSeqs(S) : f \in [1 .. Cardinality(S) -> S]
  BY DEF SetToSeqs
<1>7. \A f \in SetToSeqs(S) : f \in Seq(CandidateNames)
  BY <1>3, <1>5, <1>6
<1> QED BY <1>1, <1>2, <1>7

LEMMA UnitStarts == UnitInit => UnitInv
<1> SUFFICES ASSUME UnitInit PROVE UnitInv
  OBVIOUS
<1>1. UnitKinds
  BY UnitAssumption DEF UnitInit, UnitKinds
<1>2. order \in Seq(CandidateNames)
  BY DEF UnitInit
<1> QED BY <1>1, <1>2 DEF UnitInit, UnitInv, NoStatementFails

LEMMA UnitSteps ==
  ASSUME UnitInv, [UnitNext]_unitVars
  PROVE  UnitInv'
<1>1. ASSUME UNCHANGED <<unit, engine, error>>, order' \in Seq(CandidateNames)
      PROVE  UnitInv'
  BY <1>1 DEF UnitInv, UnitKinds, NoStatementFails
<1>2. ASSUME NEW reason, Raise(reason),
             reason \in {"exists", "missing"} => unit.kind = "checkpoint" /\ ~engine.analyze
      PROVE  UnitInv'
  BY <1>2 DEF UnitInv, UnitKinds, NoStatementFails, Raise
<1>3. ASSUME order # <<>>
      PROVE  Head(order) \in CandidateNames /\ Tail(order) \in Seq(CandidateNames)
  BY <1>3 DEF UnitInv
<1>4. ASSUME NEW next, StartBlock(next)
      PROVE  order' \in Seq(CandidateNames)
  BY <1>4, CandidateOrders DEF StartBlock
<1>5. CASE PlanUnit
  BY <1>1, <1>5, CandidateOrders DEF PlanUnit
<1>6. CASE Reject
  BY <1>2, <1>6 DEF Reject
<1>7. CASE Observe
  <2>1. PICK c \in CandidateNames : c = Head(order)
    BY <1>3, <1>7 DEF Observe
  <2>2. CASE Observed(c).error = "none"
    BY <1>1, <1>3, <1>7, <2>1, <2>2 DEF Observe
  <2>3. CASE Observed(c).error # "none"
    <3>1. unit.kind = "checkpoint" /\ ~engine.analyze
      BY <2>3, ObservingSucceeds DEF UnitInv, UnitKinds
    <3>2. PICK reason : reason = Observed(c).error
      OBVIOUS
    <3>3. Raise(reason)
      BY <1>7, <2>1, <2>3, <3>2 DEF Observe
    <3> QED BY <1>2, <3>1, <3>3
  <2> QED BY <2>2, <2>3
<1>8. CASE Run
  <2>1. PICK c \in CandidateNames : c = Head(order)
    BY <1>3, <1>8 DEF Run
  <2>2. Executed(c).error = "none"
    BY ExecutingSucceeds DEF UnitInv
  <2> QED BY <1>1, <1>3, <1>8, <2>1, <2>2 DEF Run
<1>9. CASE StatementFails
  BY <1>2, <1>9 DEF StatementFails
<1>10. CASE EndObservation
  <2>1. CASE StartBlock("warmup")
    BY <1>1, <1>4, <2>1 DEF StartBlock
  <2>2. CASE Raise("plans")
    BY <1>2, <2>2
  <2> QED BY <1>10, <2>1, <2>2 DEF EndObservation
<1>11. CASE EndWarmup
  <2>1. CASE StartBlock("measure")
    BY <1>1, <1>4, <2>1 DEF StartBlock
  <2>2. CASE Raise("mismatch")
    BY <1>2, <2>2
  <2> QED BY <1>11, <2>1, <2>2 DEF EndWarmup
<1>12. CASE EndBlock
  <2>1. CASE StartBlock("measure")
    BY <1>1, <1>4, <2>1 DEF StartBlock
  <2>2. CASE Raise("mismatch")
    BY <1>2, <2>2
  <2>3. CASE UNCHANGED <<unit, engine, tables, order, block, error>>
    BY <1>1, <2>3 DEF UnitInv
  <2> QED BY <1>12, <2>1, <2>2, <2>3 DEF EndBlock
<1>13. CASE UNCHANGED unitVars
  BY <1>1, <1>13 DEF unitVars, UnitInv
<1> QED BY <1>5, <1>6, <1>7, <1>8, <1>9, <1>10, <1>11, <1>12, <1>13 DEF UnitNext

(* Whatever data a unit has, whichever candidates run in whichever order,  *)
(* however many blocks and whatever explaining leaves behind: no statement *)
(* of a candidate meets a table of another run or misses one of its own,   *)
(* except where a checkpoint is profiled by an engine whose EXPLAIN        *)
(* ANALYZE does not leave the table it explains.                           *)
THEOREM StatementsFindTheirTables == UnitSpec => []NoStatementFails
<1>1. UnitInv => NoStatementFails
  BY DEF UnitInv
<1> QED BY UnitStarts, UnitSteps, <1>1, PTL DEF UnitSpec
-----------------------------------------------------------------------------
(* The data of a unit.                                                     *)

UnitData ==
  /\ IsFiniteSet(unit.events)
  /\ \A e \in unit.events : e = [n \in EventColumns |-> e[n]] /\ e.row_id \in Int
  /\ \A e, f \in unit.events : e.row_id = f.row_id => e = f
  /\ IsFiniteSet(unit.dimension)
  /\ unit.dimension \subseteq [dimension_key : Int, marker : Int]

\* The keys of a generated dimension are numbered from zero.
LEMMA GeneratedIsFinite ==
  ASSUME UnitAssumption, NEW u \in Units
  PROVE  /\ IsFiniteSet(GeneratedDimension(u))
         /\ GeneratedDimension(u) \subseteq [dimension_key : Int, marker : Int]
<1> DEFINE domain == Smaller(Cardinality(u.events), KeyDomain)
           matching == Larger(1, Round(domain * u.declared.match, 10))
           lines == [k \in 0 .. matching - 1 |-> [dimension_key |-> k, marker |-> k % 97]]
<1>1. domain \in Nat
  <2>1. Cardinality(u.events) \in Nat /\ KeyDomain \in Nat
    BY FS_CardinalityType DEF UnitAssumption
  <2> QED BY <2>1 DEF Smaller
<1>2. domain * u.declared.match \in Nat
  <2>1. u.declared.match \in Nat
    BY DEF UnitAssumption
  <2> HIDE DEF domain
  <2> QED BY <1>1, <2>1
<1>3. matching \in Nat
  <2>1. PICK n \in Nat : n = domain * u.declared.match
    BY <1>2
  <2>2. n \div 10 \in Nat /\ n % 10 \in Nat
    BY <2>1
  <2>3. Round(n, 10) \in Nat
    BY <2>2 DEF Round
  <2> QED BY <2>1, <2>3 DEF Larger
<1> HIDE DEF matching
<1>4. IsFiniteSet(0 .. matching - 1)
  BY <1>3, FS_Interval
<1>5. GeneratedDimension(u) = {lines[k] : k \in 0 .. matching - 1}
  BY DEF GeneratedDimension, matching
<1>6. lines \in Surjection(0 .. matching - 1, GeneratedDimension(u))
  BY <1>5 DEF Surjection
<1>7. \A k \in 0 .. matching - 1 : lines[k] \in [dimension_key : Int, marker : Int]
  BY <1>3
<1> QED BY <1>4, <1>5, <1>6, <1>7, FS_Surjection

LEMMA DataOfUnit == UnitInit => UnitData
<1> SUFFICES ASSUME UnitInit PROVE UnitData
  OBVIOUS
<1>1. PICK u \in Units : \E dimension \in Dimensions(u) :
        unit = [f \in DOMAIN u \cup {"dimension"} |-> IF f = "dimension" THEN dimension ELSE u[f]]
  BY DEF UnitInit
<1>10. PICK dimension \in Dimensions(u) :
         unit = [f \in DOMAIN u \cup {"dimension"} |-> IF f = "dimension" THEN dimension ELSE u[f]]
  BY <1>1
<1>2. unit.events = u.events /\ unit.dimension = dimension
  BY <1>10, UnitAssumption DEF UnitAssumption
<1>3. IsFiniteSet(dimension) /\ dimension \subseteq [dimension_key : Int, marker : Int]
  <2>1. CASE dimension = GeneratedDimension(u)
    BY <2>1, UnitAssumption, GeneratedIsFinite
  <2>2. CASE dimension \subseteq u.lines
    <3>1. IsFiniteSet(u.lines) /\ u.lines \subseteq [dimension_key : Int, marker : Int]
      BY UnitAssumption DEF UnitAssumption
    <3> QED BY <2>2, <3>1, FS_Subset
  <2> QED BY <2>1, <2>2 DEF Dimensions
<1>4. IsFiniteSet(u.events) /\ (\A e \in u.events : e = [n \in EventColumns |-> e[n]] /\ e.row_id \in Int)
      /\ \A e, f \in u.events : e.row_id = f.row_id => e = f
  BY UnitAssumption DEF UnitAssumption
<1> QED BY <1>2, <1>3, <1>4 DEF UnitData
-----------------------------------------------------------------------------
(* The tables of a candidate, in the events and lines they are made of.    *)

Policed == Permitted(unit.events)

Queried == Wanted(unit.events)

Both == Policed \cap Queried

Pairs(T) == {x \in T \X unit.dimension : x[1].join_key = x[2].dimension_key}

\* What a table keeps of an event, and of an event with a line of its key.
EventRow(e, names) ==
  [n \in names |-> IF n = "masked_value" THEN <<"md5", e.sensitive_value>> ELSE e[n]]

JoinedRow(x, names) ==
  [n \in names |-> IF n = "masked_value" THEN <<"md5", x[1].sensitive_value>>
                   ELSE IF n \in EventColumns THEN x[1][n] ELSE x[2][n]]

LineColumns == {"dimension_key", "marker"}

\* The query's and the policy's predicates on rows that keep their column.
LEMMA RowsAdmitted ==
  ASSUME UnitData, NEW T \in SUBSET unit.events, NEW names
  PROVE  /\ "query_bucket" \in names =>
              Wanted({EventRow(e, names) : e \in T}) = {EventRow(e, names) : e \in T \cap Queried}
         /\ "sensitive_value" \in names =>
              Permitted({EventRow(e, names) : e \in T}) = {EventRow(e, names) : e \in T \cap Policed}
<1>1. ASSUME "query_bucket" \in names
      PROVE  Wanted({EventRow(e, names) : e \in T}) = {EventRow(e, names) : e \in T \cap Queried}
  <2>1. \A e \in T : EventRow(e, names).query_bucket = e.query_bucket
    BY <1>1 DEF EventRow
  <2> QED BY <2>1 DEF Wanted, Queried
<1>2. ASSUME "sensitive_value" \in names
      PROVE  Permitted({EventRow(e, names) : e \in T}) = {EventRow(e, names) : e \in T \cap Policed}
  <2>1. \A e \in T : EventRow(e, names).sensitive_value = e.sensitive_value
    BY <1>2 DEF EventRow
  <2> QED BY <2>1 DEF Permitted, Policed
<1> QED BY <1>1, <1>2

LEMMA PairsAdmitted ==
  ASSUME UnitData, NEW T \in SUBSET unit.events, NEW names
  PROVE  /\ "query_bucket" \in names =>
              Wanted({JoinedRow(x, names) : x \in Pairs(T)})
                = {JoinedRow(x, names) : x \in Pairs(T \cap Queried)}
         /\ "sensitive_value" \in names =>
              Permitted({JoinedRow(x, names) : x \in Pairs(T)})
                = {JoinedRow(x, names) : x \in Pairs(T \cap Policed)}
<1>1. ASSUME "query_bucket" \in names
      PROVE  Wanted({JoinedRow(x, names) : x \in Pairs(T)})
               = {JoinedRow(x, names) : x \in Pairs(T \cap Queried)}
  <2>1. \A x \in Pairs(T) : JoinedRow(x, names).query_bucket = x[1].query_bucket /\ x[1] \in T
    BY <1>1 DEF JoinedRow, EventColumns, Pairs
  <2>2. Pairs(T \cap Queried) = {x \in Pairs(T) : x[1].query_bucket < unit.query}
    BY DEF Pairs, Queried, Wanted
  <2> HIDE DEF Pairs
  <2> QED BY <2>1, <2>2 DEF Wanted
<1>2. ASSUME "sensitive_value" \in names
      PROVE  Permitted({JoinedRow(x, names) : x \in Pairs(T)})
               = {JoinedRow(x, names) : x \in Pairs(T \cap Policed)}
  <2>1. \A x \in Pairs(T) : JoinedRow(x, names).sensitive_value = x[1].sensitive_value /\ x[1] \in T
    BY <1>2 DEF JoinedRow, EventColumns, Pairs
  <2>2. Pairs(T \cap Policed) = {x \in Pairs(T) : x[1].sensitive_value \in unit.policy}
    BY DEF Pairs, Policed, Permitted
  <2> HIDE DEF Pairs
  <2> QED BY <2>1, <2>2 DEF Permitted
<1> QED BY <1>1, <1>2

\* Events are rows with all their columns.
LEMMA EventsAreRows ==
  ASSUME UnitData, NEW T \in SUBSET unit.events
  PROVE  {EventRow(e, EventColumns) : e \in T} = T
<1>1. \A e \in T : EventRow(e, EventColumns) = e
  BY DEF UnitData, EventRow, EventColumns
<1> QED BY <1>1

\* Keeping columns of events, masking rows of them, and joining these.
LEMMA ColumnsKept ==
  ASSUME NEW T, NEW names \in SUBSET EventColumns
  PROVE  Columns(T, names) = {EventRow(e, names) : e \in T}
<1>1. \A e \in T : [n \in names |-> e[n]] = EventRow(e, names)
  <2>1. "masked_value" \notin names
    BY DEF EventColumns
  <2> QED BY <2>1 DEF EventRow
<1> QED BY <1>1 DEF Columns

LEMMA MaskedColumns ==
  ASSUME NEW T, NEW names \in SUBSET EventColumns, "sensitive_value" \in names,
         NEW kept \in SUBSET (names \cup {"masked_value"})
  PROVE  Columns(Masked({EventRow(e, names) : e \in T}), kept) = {EventRow(e, kept) : e \in T}
<1> DEFINE masked(r) == Beside(r, [masked_value |-> <<"md5", r.sensitive_value>>])
<1>1. ASSUME NEW e \in T
      PROVE  [n \in kept |-> masked(EventRow(e, names))[n]] = EventRow(e, kept)
  <2>1. PICK r : r = EventRow(e, names)
    OBVIOUS
  <2>2. /\ DOMAIN r = names /\ r.sensitive_value = e.sensitive_value
        /\ \A n \in names : r[n] = e[n]
    BY <2>1 DEF EventRow, EventColumns
  <2>3. "masked_value" \notin names
    BY DEF EventColumns
  <2>4. \A n \in kept : masked(r)[n] = IF n = "masked_value" THEN <<"md5", e.sensitive_value>> ELSE e[n]
    BY <2>2, <2>3 DEF Beside
  <2> QED BY <2>1, <2>4 DEF EventRow
<1>2. Columns(Masked({EventRow(e, names) : e \in T}), kept)
        = {[n \in kept |-> masked(EventRow(e, names))[n]] : e \in T}
  <2>1. Masked({EventRow(e, names) : e \in T}) = {masked(EventRow(e, names)) : e \in T}
    BY DEF Masked
  <2> HIDE DEF masked
  <2> QED BY <2>1 DEF Columns
<1> QED BY <1>1, <1>2

LEMMA JoinedRows ==
  ASSUME UnitData, NEW T \in SUBSET unit.events, NEW names, "join_key" \in names,
         names \subseteq EventColumns \cup {"masked_value"}
  PROVE  Joined({EventRow(e, names) : e \in T}, unit.dimension)
           = {JoinedRow(x, names \cup LineColumns) : x \in Pairs(T)}
<1>1. ASSUME NEW e \in T, NEW d \in unit.dimension
      PROVE  Beside(EventRow(e, names), d) = JoinedRow(<<e, d>>, names \cup LineColumns)
  <2>1. DOMAIN d = LineColumns
    BY DEF UnitData, LineColumns
  <2>2. PICK r : r = EventRow(e, names)
    OBVIOUS
  <2>3. /\ DOMAIN r = names
        /\ \A n \in names : r[n] = IF n = "masked_value" THEN <<"md5", e.sensitive_value>> ELSE e[n]
    BY <2>2 DEF EventRow
  <2>4. \A n \in names \cup LineColumns :
          Beside(r, d)[n] = IF n = "masked_value" THEN <<"md5", e.sensitive_value>>
                            ELSE IF n \in EventColumns THEN e[n] ELSE d[n]
    BY <2>1, <2>3 DEF Beside, LineColumns, EventColumns
  <2>5. PICK x : x = <<e, d>>
    OBVIOUS
  <2>6. x[1] = e /\ x[2] = d
    BY <2>5
  <2> QED BY <2>1, <2>2, <2>3, <2>4, <2>5, <2>6 DEF JoinedRow, Beside
<1>2. \A e \in T : EventRow(e, names).join_key = e.join_key
  BY DEF EventRow
<1>3. ASSUME NEW r \in Joined({EventRow(e, names) : e \in T}, unit.dimension)
      PROVE  \E x \in Pairs(T) : r = JoinedRow(x, names \cup LineColumns)
  <2>1. PICK pair \in {EventRow(e, names) : e \in T} \X unit.dimension :
               pair[1].join_key = pair[2].dimension_key /\ r = Beside(pair[1], pair[2])
    BY <1>3 DEF Joined
  <2>2. PICK e \in T : pair[1] = EventRow(e, names)
    BY <2>1
  <2>3. PICK d \in unit.dimension : pair[2] = d
    BY <2>1
  <2>4. r = JoinedRow(<<e, d>>, names \cup LineColumns)
    BY <1>1, <2>1, <2>2, <2>3
  <2>5. <<e, d>> \in Pairs(T)
    BY <1>2, <2>1, <2>2, <2>3 DEF Pairs
  <2> QED BY <2>4, <2>5
<1>4. ASSUME NEW x \in Pairs(T)
      PROVE  JoinedRow(x, names \cup LineColumns)
               \in Joined({EventRow(e, names) : e \in T}, unit.dimension)
  <2>1. PICK e \in T, d \in unit.dimension : x = <<e, d>> /\ e.join_key = d.dimension_key
    BY DEF Pairs
  <2>2. PICK pair : pair = <<EventRow(e, names), d>>
    OBVIOUS
  <2>3. /\ pair \in {EventRow(f, names) : f \in T} \X unit.dimension
        /\ pair[1] = EventRow(e, names) /\ pair[2] = d
    BY <2>2
  <2>4. pair[1].join_key = pair[2].dimension_key
    BY <1>2, <2>1, <2>3
  <2>5. Beside(pair[1], pair[2]) \in Joined({EventRow(f, names) : f \in T}, unit.dimension)
    BY <2>3, <2>4 DEF Joined
  <2> QED BY <1>1, <2>1, <2>3, <2>5
<1> QED BY <1>3, <1>4

LEMMA JoinedKept ==
  ASSUME NEW T, NEW names, NEW kept \in SUBSET names
  PROVE  Columns({JoinedRow(x, names) : x \in Pairs(T)}, kept)
           = {JoinedRow(x, kept) : x \in Pairs(T)}
<1>1. ASSUME NEW x
      PROVE  [n \in kept |-> JoinedRow(x, names)[n]] = JoinedRow(x, kept)
  BY DEF JoinedRow
<1> QED BY <1>1 DEF Columns

LEMMA JoinedMasked ==
  ASSUME NEW T, NEW names, "masked_value" \notin names, "sensitive_value" \in names,
         NEW kept \in SUBSET (names \cup {"masked_value"})
  PROVE  Columns(Masked({JoinedRow(x, names) : x \in Pairs(T)}), kept)
           = {JoinedRow(x, kept) : x \in Pairs(T)}
<1> DEFINE masked(r) == Beside(r, [masked_value |-> <<"md5", r.sensitive_value>>])
<1>1. ASSUME NEW x
      PROVE  [n \in kept |-> masked(JoinedRow(x, names))[n]] = JoinedRow(x, kept)
  <2>1. PICK r : r = JoinedRow(x, names)
    OBVIOUS
  <2>2. /\ DOMAIN r = names /\ r.sensitive_value = x[1].sensitive_value
        /\ \A n \in names : r[n] = IF n \in EventColumns THEN x[1][n] ELSE x[2][n]
    BY <2>1 DEF JoinedRow, EventColumns
  <2>3. \A n \in kept : masked(r)[n] = IF n = "masked_value" THEN <<"md5", x[1].sensitive_value>>
                                        ELSE IF n \in EventColumns THEN x[1][n] ELSE x[2][n]
    BY <2>2 DEF Beside
  <2> QED BY <2>1, <2>3 DEF JoinedRow
<1>2. Columns(Masked({JoinedRow(x, names) : x \in Pairs(T)}), kept)
        = {[n \in kept |-> masked(JoinedRow(x, names))[n]] : x \in Pairs(T)}
  <2>1. Masked({JoinedRow(x, names) : x \in Pairs(T)}) = {masked(JoinedRow(x, names)) : x \in Pairs(T)}
    BY DEF Masked
  <2> HIDE DEF masked
  <2> QED BY <2>1 DEF Columns
<1> QED BY <1>1, <1>2
-----------------------------------------------------------------------------
(* The tables that the statements of each candidate make.                  *)

LEMMA Selections ==
  /\ Policed = unit.events \cap Policed /\ Queried = unit.events \cap Queried
  /\ Policed \subseteq unit.events /\ Queried \subseteq unit.events /\ Both \subseteq unit.events
  /\ Both = Policed \cap Queried /\ Both = Queried \cap Policed
BY DEF Policed, Queried, Both, Permitted, Wanted

LEMMA PolicyFirstTables ==
  ASSUME UnitData, unit.kind = "pipeline", NEW db,
         db["pipeline_checkpoint"] = Rows("policy_first", "pipeline_checkpoint", db)
  PROVE  /\ db["pipeline_checkpoint"] = {EventRow(e, Kept("policy_first")) : e \in Policed}
         /\ PolicyInput("policy_first", db) = unit.events
         /\ JoinInput("policy_first", db) = {EventRow(e, Kept("policy_first")) : e \in Both}
         /\ Rows("policy_first", "governed_output", db)
              = {JoinedRow(x, OutputColumns) : x \in Pairs(Both)}
<1>1. PICK kept : kept = Kept("policy_first")
  OBVIOUS
<1>2. kept = {"row_id", "join_key", "query_bucket", "masked_value"}
  BY <1>1 DEF Kept
<1>3. PolicyInput("policy_first", db) = unit.events
  BY DEF PolicyInput
<1>4. db["pipeline_checkpoint"] = Columns(Masked(Policed), kept)
  BY <1>1, <1>3 DEF Rows, Policed
<1>5. db["pipeline_checkpoint"] = {EventRow(e, kept) : e \in Policed}
  <2>1. Policed = {EventRow(e, EventColumns) : e \in Policed}
    BY Selections, EventsAreRows
  <2>2. "sensitive_value" \in EventColumns /\ kept \in SUBSET (EventColumns \cup {"masked_value"})
    BY <1>2 DEF EventColumns
  <2> QED BY <1>4, <2>1, <2>2, MaskedColumns
<1>6. JoinInput("policy_first", db) = {EventRow(e, kept) : e \in Both}
  <2>1. JoinInput("policy_first", db) = Wanted({EventRow(e, kept) : e \in Policed})
    BY <1>5 DEF JoinInput
  <2>2. "query_bucket" \in kept
    BY <1>2
  <2>3. Wanted({EventRow(e, kept) : e \in Policed}) = {EventRow(e, kept) : e \in Policed \cap Queried}
    <3>1. Policed \in SUBSET unit.events
      BY Selections
    <3> QED BY <2>2, <3>1, RowsAdmitted
  <2> QED BY <2>1, <2>3 DEF Both
<1>7. Rows("policy_first", "governed_output", db) = {JoinedRow(x, OutputColumns) : x \in Pairs(Both)}
  <2>1. Rows("policy_first", "governed_output", db)
          = Columns(Joined({EventRow(e, kept) : e \in Both}, unit.dimension), OutputColumns)
    BY <1>6 DEF Rows
  <2>2. "join_key" \in kept /\ kept \subseteq EventColumns \cup {"masked_value"}
        /\ OutputColumns \in SUBSET (kept \cup LineColumns)
    BY <1>2 DEF EventColumns, OutputColumns, LineColumns
  <2>3. Joined({EventRow(e, kept) : e \in Both}, unit.dimension)
          = {JoinedRow(x, kept \cup LineColumns) : x \in Pairs(Both)}
    BY <2>2, Selections, JoinedRows
  <2> QED BY <2>1, <2>2, <2>3, JoinedKept
<1> QED BY <1>1, <1>3, <1>5, <1>6, <1>7

\* What the candidates that query or join first keep of the raw rows.
RawColumns == {"row_id", "join_key", "sensitive_value"}

RawJoinedColumns == {"row_id", "dimension_key", "marker", "sensitive_value"}

LEMMA QueryFirstTables ==
  ASSUME UnitData, unit.kind = "pipeline", NEW db,
         db["raw_query_checkpoint"] = Rows("query_first", "raw_query_checkpoint", db),
         db["pipeline_checkpoint"] = Rows("query_first", "pipeline_checkpoint", db)
  PROVE  /\ db["raw_query_checkpoint"] = {EventRow(e, RawColumns) : e \in Queried}
         /\ db["pipeline_checkpoint"] = {EventRow(e, Kept("query_first")) : e \in Both}
         /\ PolicyInput("query_first", db) = db["raw_query_checkpoint"]
         /\ JoinInput("query_first", db) = db["pipeline_checkpoint"]
         /\ Rows("query_first", "governed_output", db)
              = {JoinedRow(x, OutputColumns) : x \in Pairs(Both)}
<1>1. PICK kept : kept = Kept("query_first")
  OBVIOUS
<1>2. kept = {"row_id", "join_key", "masked_value"}
  BY <1>1 DEF Kept
<1>3. PolicyInput("query_first", db) = db["raw_query_checkpoint"]
  BY DEF PolicyInput
<1>4. db["raw_query_checkpoint"] = {EventRow(e, RawColumns) : e \in Queried}
  <2>1. db["raw_query_checkpoint"] = Columns(Queried, RawColumns)
    BY DEF Rows, Queried, RawColumns
  <2>2. RawColumns \in SUBSET EventColumns
    BY DEF RawColumns, EventColumns
  <2> QED BY <2>1, <2>2, ColumnsKept
<1>5. db["pipeline_checkpoint"] = {EventRow(e, kept) : e \in Both}
  <2>1. db["pipeline_checkpoint"] = Columns(Masked(Permitted(db["raw_query_checkpoint"])), kept)
    BY <1>1, <1>3 DEF Rows
  <2>2. Permitted(db["raw_query_checkpoint"]) = {EventRow(e, RawColumns) : e \in Both}
    <3>1. "sensitive_value" \in RawColumns
      BY DEF RawColumns
    <3> QED BY <1>4, <3>1, Selections, RowsAdmitted
  <2>3. "sensitive_value" \in RawColumns /\ RawColumns \in SUBSET EventColumns
        /\ kept \in SUBSET (RawColumns \cup {"masked_value"})
    BY <1>2 DEF RawColumns, EventColumns
  <2> QED BY <2>1, <2>2, <2>3, MaskedColumns
<1>6. JoinInput("query_first", db) = db["pipeline_checkpoint"]
  BY DEF JoinInput
<1>7. Rows("query_first", "governed_output", db) = {JoinedRow(x, OutputColumns) : x \in Pairs(Both)}
  <2>1. Rows("query_first", "governed_output", db)
          = Columns(Joined({EventRow(e, kept) : e \in Both}, unit.dimension), OutputColumns)
    BY <1>5, <1>6 DEF Rows
  <2>2. "join_key" \in kept /\ kept \subseteq EventColumns \cup {"masked_value"}
        /\ OutputColumns \in SUBSET (kept \cup LineColumns)
    BY <1>2 DEF EventColumns, OutputColumns, LineColumns
  <2>3. Joined({EventRow(e, kept) : e \in Both}, unit.dimension)
          = {JoinedRow(x, kept \cup LineColumns) : x \in Pairs(Both)}
    BY <2>2, Selections, JoinedRows
  <2> QED BY <2>1, <2>2, <2>3, JoinedKept
<1> QED BY <1>1, <1>3, <1>4, <1>5, <1>6, <1>7

LEMMA JoinFirstTables ==
  ASSUME UnitData, unit.kind = "pipeline", NEW db,
         db["raw_join_checkpoint"] = Rows("join_first", "raw_join_checkpoint", db),
         db["pipeline_checkpoint"] = Rows("join_first", "pipeline_checkpoint", db)
  PROVE  /\ db["raw_join_checkpoint"] = {JoinedRow(x, RawJoinedColumns) : x \in Pairs(Queried)}
         /\ db["pipeline_checkpoint"] = {JoinedRow(x, OutputColumns) : x \in Pairs(Both)}
         /\ PolicyInput("join_first", db) = db["raw_join_checkpoint"]
         /\ JoinInput("join_first", db) = Queried
         /\ Rows("join_first", "governed_output", db)
              = {JoinedRow(x, OutputColumns) : x \in Pairs(Both)}
<1>1. OutputColumns = Kept("join_first")
  BY DEF Kept
<1>3. PolicyInput("join_first", db) = db["raw_join_checkpoint"]
  BY DEF PolicyInput
<1>6. JoinInput("join_first", db) = Queried
  BY DEF JoinInput, Queried
<1>4. db["raw_join_checkpoint"] = {JoinedRow(x, RawJoinedColumns) : x \in Pairs(Queried)}
  <2>1. db["raw_join_checkpoint"] = Columns(Joined(Queried, unit.dimension), RawJoinedColumns)
    BY <1>6 DEF Rows, RawJoinedColumns
  <2>2. Queried = {EventRow(e, EventColumns) : e \in Queried}
    BY Selections, EventsAreRows
  <2>3. "join_key" \in EventColumns /\ EventColumns \subseteq EventColumns \cup {"masked_value"}
        /\ RawJoinedColumns \in SUBSET (EventColumns \cup LineColumns)
    BY DEF EventColumns, RawJoinedColumns, LineColumns
  <2>4. Joined({EventRow(e, EventColumns) : e \in Queried}, unit.dimension)
          = {JoinedRow(x, EventColumns \cup LineColumns) : x \in Pairs(Queried)}
    BY <2>3, Selections, JoinedRows
  <2> QED BY <2>1, <2>2, <2>3, <2>4, JoinedKept
<1>5. db["pipeline_checkpoint"] = {JoinedRow(x, OutputColumns) : x \in Pairs(Both)}
  <2>1. db["pipeline_checkpoint"] = Columns(Masked(Permitted(db["raw_join_checkpoint"])), OutputColumns)
    BY <1>1, <1>3 DEF Rows
  <2>2. Permitted(db["raw_join_checkpoint"]) = {JoinedRow(x, RawJoinedColumns) : x \in Pairs(Both)}
    <3>1. "sensitive_value" \in RawJoinedColumns
      BY DEF RawJoinedColumns
    <3> QED BY <1>4, <3>1, Selections, PairsAdmitted
  <2>3. "sensitive_value" \in RawJoinedColumns /\ "masked_value" \notin RawJoinedColumns
        /\ OutputColumns \in SUBSET (RawJoinedColumns \cup {"masked_value"})
    BY DEF RawJoinedColumns, OutputColumns
  <2> QED BY <2>1, <2>2, <2>3, JoinedMasked
<1>7. Rows("join_first", "governed_output", db) = {JoinedRow(x, OutputColumns) : x \in Pairs(Both)}
  <2>1. Rows("join_first", "governed_output", db) = Columns(db["pipeline_checkpoint"], OutputColumns)
    BY DEF Rows
  <2>2. OutputColumns \in SUBSET OutputColumns
    OBVIOUS
  <2> QED BY <1>5, <2>1, <2>2, JoinedKept
<1> QED BY <1>3, <1>4, <1>5, <1>6, <1>7

\* The rows a checkpoint candidate joins, before the predicate that is left.
CheckpointColumns(c) ==
  IF c = "policy_first" THEN {"row_id", "join_key", "query_bucket"} ELSE RawColumns

CheckpointEvents(c) == IF c = "policy_first" THEN Policed ELSE Queried

LEMMA CheckpointTables ==
  ASSUME UnitData, unit.kind = "checkpoint", NEW c \in {"policy_first", "query_first"}, NEW db,
         db["governance_checkpoint"] = Rows(c, "governance_checkpoint", db)
  PROVE  /\ db["governance_checkpoint"] = {EventRow(e, CheckpointColumns(c)) : e \in CheckpointEvents(c)}
         /\ PolicyInput(c, db) = IF c = "policy_first" THEN unit.events ELSE db["governance_checkpoint"]
         /\ JoinInput(c, db) = db["governance_checkpoint"]
         /\ Rows(c, "governed_output", db)
              = {Sums({JoinedRow(x, CheckpointColumns(c) \cup LineColumns) : x \in Pairs(Both)})}
<1>1. PICK kept, T : kept = CheckpointColumns(c) /\ T = CheckpointEvents(c)
  OBVIOUS
<1>2. /\ "join_key" \in kept /\ kept \in SUBSET EventColumns
      /\ T \in SUBSET unit.events
  BY <1>1, Selections DEF CheckpointColumns, CheckpointEvents, RawColumns, EventColumns
<1>3. PolicyInput(c, db) = IF c = "policy_first" THEN unit.events ELSE db["governance_checkpoint"]
  BY DEF PolicyInput
<1>4. db["governance_checkpoint"] = {EventRow(e, kept) : e \in T}
  <2>1. db["governance_checkpoint"] = Columns(T, kept)
    <3>1. CASE c = "policy_first"
      BY <1>1, <1>3, <3>1 DEF Rows, CheckpointColumns, CheckpointEvents, Policed
    <3>2. CASE c = "query_first"
      BY <1>1, <3>2 DEF Rows, CheckpointColumns, CheckpointEvents, Queried, RawColumns
    <3> QED BY <3>1, <3>2
  <2> QED BY <1>2, <2>1, ColumnsKept
<1>5. JoinInput(c, db) = db["governance_checkpoint"]
  BY DEF JoinInput
<1>6. Joined(JoinInput(c, db), unit.dimension) = {JoinedRow(x, kept \cup LineColumns) : x \in Pairs(T)}
  <2>1. kept \subseteq EventColumns \cup {"masked_value"}
    BY <1>2
  <2> QED BY <1>2, <1>4, <1>5, <2>1, JoinedRows
<1>7. Remaining(c, {JoinedRow(x, kept \cup LineColumns) : x \in Pairs(T)})
        = {JoinedRow(x, kept \cup LineColumns) : x \in Pairs(Both)}
  <2>1. PICK names : names = kept \cup LineColumns
    OBVIOUS
  <2>2. CASE c = "policy_first"
    <3>1. "query_bucket" \in names /\ T = Policed
      BY <1>1, <2>1, <2>2 DEF CheckpointColumns, CheckpointEvents
    <3>2. Wanted({JoinedRow(x, names) : x \in Pairs(Policed)})
            = {JoinedRow(x, names) : x \in Pairs(Policed \cap Queried)}
      BY <3>1, Selections, PairsAdmitted
    <3> QED BY <2>1, <2>2, <3>1, <3>2 DEF Remaining, Both
  <2>3. CASE c = "query_first"
    <3>1. "sensitive_value" \in names /\ T = Queried
      BY <1>1, <2>1, <2>3 DEF CheckpointColumns, CheckpointEvents, RawColumns
    <3>2. Permitted({JoinedRow(x, names) : x \in Pairs(Queried)})
            = {JoinedRow(x, names) : x \in Pairs(Queried \cap Policed)}
      BY <3>1, Selections, PairsAdmitted
    <3>3. Queried \cap Policed = Both
      BY Selections
    <3> QED BY <2>1, <2>3, <3>1, <3>2, <3>3 DEF Remaining
  <2> QED BY <2>2, <2>3
<1>8. Rows(c, "governed_output", db) = {Sums(Remaining(c, Joined(JoinInput(c, db), unit.dimension)))}
  BY DEF Rows
<1> QED BY <1>1, <1>3, <1>4, <1>5, <1>6, <1>7, <1>8
-----------------------------------------------------------------------------
(* What a run leaves in its tables.                                        *)

UnitCandidates == IF unit.kind = "checkpoint" THEN {"policy_first", "query_first"} ELSE CandidateNames

\* Each table of a candidate is what its statement makes of the others.
Consistent(c, db) == \A t \in Own(c) : db[t] = Rows(c, t, db)

LEMMA SetupNames ==
  ASSUME UnitKinds, NEW c \in UnitCandidates, NEW a, NEW b, SetupOf(c, a, b)
  PROVE  /\ unit.kind = "checkpoint" => a = "governance_checkpoint" /\ b = a
         /\ unit.kind = "pipeline" => b = "pipeline_checkpoint"
         /\ unit.kind = "pipeline" /\ c = "policy_first" => a = b
         /\ unit.kind = "pipeline" /\ c = "query_first" => a = "raw_query_checkpoint"
         /\ unit.kind = "pipeline" /\ c = "join_first" => a = "raw_join_checkpoint"
<1>1. Setup(unit, c) = (IF a = b THEN <<b>> ELSE <<a, b>>)
  BY DEF SetupOf
<1>2. ASSUME NEW x, <<x>> = (IF a = b THEN <<b>> ELSE <<a, b>>)
      PROVE  a = x /\ b = x
  <2>1. CASE a = b
    BY <1>2, <2>1
  <2>2. CASE a # b
    BY <1>2, <2>2
  <2> QED BY <2>1, <2>2
<1>3. ASSUME NEW x, NEW y, <<x, y>> = (IF a = b THEN <<b>> ELSE <<a, b>>)
      PROVE  a = x /\ b = y
  <2>1. CASE a = b
    BY <1>3, <2>1
  <2>2. CASE a # b
    BY <1>3, <2>2
  <2> QED BY <2>1, <2>2
<1>4. CASE unit.kind = "checkpoint"
  <2>1. Setup(unit, c) = <<"governance_checkpoint">>
    BY <1>4 DEF Setup
  <2> QED BY <1>1, <1>2, <1>4, <2>1
<1>5. CASE unit.kind = "pipeline" /\ c = "policy_first"
  <2>1. Setup(unit, c) = <<"pipeline_checkpoint">>
    BY <1>5 DEF Setup
  <2> QED BY <1>1, <1>2, <1>5, <2>1
<1>6. CASE unit.kind = "pipeline" /\ c = "query_first"
  <2>1. Setup(unit, c) = <<"raw_query_checkpoint", "pipeline_checkpoint">>
    BY <1>6 DEF Setup
  <2> QED BY <1>1, <1>3, <1>6, <2>1
<1>7. CASE unit.kind = "pipeline" /\ c = "join_first"
  <2>1. Setup(unit, c) = <<"raw_join_checkpoint", "pipeline_checkpoint">>
    BY <1>7 DEF Setup
  <2> QED BY <1>1, <1>3, <1>7, <2>1
<1> QED BY <1>4, <1>5, <1>6, <1>7 DEF UnitKinds, UnitCandidates, CandidateNames

\* The first table of a candidate is made of no other.
LEMMA RowsDepend ==
  ASSUME UnitKinds, NEW c \in UnitCandidates, NEW a, NEW b, SetupOf(c, a, b), NEW db, NEW other
  PROVE  /\ Rows(c, a, db) = Rows(c, a, other)
         /\ a # b /\ db[a] = other[a] => Rows(c, b, db) = Rows(c, b, other)
<1>1. CASE unit.kind = "checkpoint"
  <2>1. a = "governance_checkpoint" /\ a = b
    BY <1>1, SetupNames
  <2>2. c = "policy_first" \/ c = "query_first"
    BY <1>1 DEF UnitCandidates
  <2> QED BY <2>1, <2>2 DEF Rows, PolicyInput
<1>2. CASE unit.kind = "pipeline" /\ c = "policy_first"
  <2>1. a = "pipeline_checkpoint" /\ a = b
    BY <1>2, SetupNames
  <2> QED BY <1>2, <2>1 DEF Rows, PolicyInput
<1>3. CASE unit.kind = "pipeline" /\ c = "query_first"
  <2>1. a = "raw_query_checkpoint" /\ b = "pipeline_checkpoint"
    BY <1>3, SetupNames
  <2> QED BY <1>3, <2>1 DEF Rows, PolicyInput
<1>4. CASE unit.kind = "pipeline" /\ c = "join_first"
  <2>1. a = "raw_join_checkpoint" /\ b = "pipeline_checkpoint"
    BY <1>4, SetupNames
  <2>2. Rows(c, a, db) = Rows(c, a, other)
    BY <1>4, <2>1 DEF Rows, JoinInput
  <2>3. db[a] = other[a] => Rows(c, b, db) = Rows(c, b, other)
    BY <1>4, <2>1 DEF Rows, PolicyInput
  <2> QED BY <2>2, <2>3
<1> QED BY <1>1, <1>2, <1>3, <1>4 DEF UnitKinds, UnitCandidates, CandidateNames

LEMMA ExecutedIsConsistent ==
  ASSUME UnitKinds, NEW c \in UnitCandidates
  PROVE  Consistent(c, Executed(c).db)
<1>1. c \in CandidateNames
  BY DEF UnitCandidates, CandidateNames
<1>2. PICK a, b : SetupOf(c, a, b) /\ Built(c, a, b, Executed(c).db)
  BY <1>1, ExecutingSucceeds
<1>3. PICK db : db = Executed(c).db
  OBVIOUS
<1>4. PICK empty, first : /\ db[a] = Rows(c, a, empty)
                          /\ a # b => first[a] = db[a] /\ db[b] = Rows(c, b, first)
  BY <1>2, <1>3 DEF Built
<1>5. db[a] = Rows(c, a, db)
  BY <1>2, <1>4, RowsDepend
<1>6. a # b => db[b] = Rows(c, b, db)
  BY <1>2, <1>4, RowsDepend
<1>7. Own(c) = {a, b}
  BY <1>2 DEF SetupOf
<1> QED BY <1>3, <1>5, <1>6, <1>7 DEF Consistent
-----------------------------------------------------------------------------
(* What a run answers.                                                     *)

LEMMA OwnIs ==
  ASSUME UnitKinds, NEW c \in UnitCandidates
  PROVE  /\ unit.kind = "checkpoint" => Own(c) = {"governance_checkpoint"}
         /\ unit.kind = "pipeline" /\ c = "policy_first" => Own(c) = {"pipeline_checkpoint"}
         /\ unit.kind = "pipeline" /\ c = "query_first" =>
              Own(c) = {"raw_query_checkpoint", "pipeline_checkpoint"}
         /\ unit.kind = "pipeline" /\ c = "join_first" =>
              Own(c) = {"raw_join_checkpoint", "pipeline_checkpoint"}
<1>1. c \in CandidateNames
  BY DEF UnitCandidates, CandidateNames
<1>2. PICK a, b : SetupOf(c, a, b)
  BY <1>1, SetupIs
<1>3. Own(c) = {a, b}
  BY <1>2 DEF SetupOf
<1> QED BY <1>2, <1>3, SetupNames

LEMMA PairsAreFinite ==
  ASSUME UnitData, NEW T \in SUBSET unit.events
  PROVE  IsFiniteSet(Pairs(T))
<1>1. IsFiniteSet(T) /\ IsFiniteSet(unit.dimension)
  BY FS_Subset DEF UnitData
<1>2. IsFiniteSet(T \X unit.dimension)
  BY <1>1, FS_Product
<1> QED BY <1>2, FS_Subset DEF Pairs

\* A row names its event and its line.
LEMMA RowsNamePairs ==
  ASSUME UnitData, NEW T \in SUBSET unit.events,
         NEW names, {"row_id", "dimension_key", "marker"} \subseteq names,
         NEW x \in Pairs(T), NEW y \in Pairs(T), JoinedRow(x, names) = JoinedRow(y, names)
  PROVE  x = y
<1>1. PICK e \in unit.events, d \in unit.dimension : x = <<e, d>>
  BY DEF Pairs
<1>2. PICK f \in unit.events, g \in unit.dimension : y = <<f, g>>
  BY DEF Pairs
<1>3. e.row_id = f.row_id /\ d.dimension_key = g.dimension_key /\ d.marker = g.marker
  <2>1. /\ JoinedRow(x, names).row_id = e.row_id /\ JoinedRow(y, names).row_id = f.row_id
        /\ JoinedRow(x, names).dimension_key = d.dimension_key
        /\ JoinedRow(y, names).dimension_key = g.dimension_key
        /\ JoinedRow(x, names).marker = d.marker /\ JoinedRow(y, names).marker = g.marker
    BY <1>1, <1>2 DEF JoinedRow, EventColumns
  <2> QED BY <2>1
<1>4. e = f
  BY <1>3 DEF UnitData
<1>5. d = g
  BY <1>3 DEF UnitData
<1> QED BY <1>1, <1>2, <1>4, <1>5

LEMMA SumsOfRows ==
  ASSUME UnitData, NEW names, {"row_id", "dimension_key", "marker"} \subseteq names
  PROVE  Sums({JoinedRow(x, names) : x \in Pairs(Both)})
           = [rows |-> Cardinality(Pairs(Both)),
              ids |-> SumFunction([x \in Pairs(Both) |-> x[1].row_id]),
              markers |-> SumFunction([x \in Pairs(Both) |-> x[2].marker])]
<1>1. PICK S : S = Pairs(Both)
  OBVIOUS
<1>2. IsFiniteSet(S) /\ \A x \in S : x[1] \in unit.events /\ x[2] \in unit.dimension
  BY <1>1, Selections, PairsAreFinite DEF Pairs
<1>3. PICK to : to = [x \in S |-> JoinedRow(x, names)]
  OBVIOUS
<1>4. PICK rows : rows = {JoinedRow(x, names) : x \in S}
  OBVIOUS
<1>5. to \in Bijection(S, rows)
  <2>1. \A x, y \in S : JoinedRow(x, names) = JoinedRow(y, names) => x = y
    BY <1>1, Selections, RowsNamePairs
  <2> QED BY <1>3, <1>4, <2>1 DEF Bijection, Injection, Surjection, IsInjective
<1>6. Cardinality(rows) = Cardinality(S)
  BY <1>2, <1>5, FS_Bijection DEF ExistsBijection
<1>7. \A x \in S : to[x].row_id = x[1].row_id /\ to[x].marker = x[2].marker
  BY <1>3 DEF JoinedRow, EventColumns
<1>8. \A x \in S : x[1].row_id \in Int /\ x[2].marker \in Int
  BY <1>2 DEF UnitData
<1>9. \A r \in rows : \E x \in S : r = to[x]
  BY <1>3, <1>4
<1>10. SumFunction([r \in rows |-> r.row_id]) = SumFunction([x \in S |-> x[1].row_id])
  <2>1. PICK f : f = [r \in rows |-> r.row_id]
    OBVIOUS
  <2>2. f \in [rows -> Int]
    BY <1>7, <1>8, <1>9, <2>1
  <2>3. SumFunction([x \in S |-> f[to[x]]]) = SumFunction(f)
    BY <1>2, <1>5, <2>2, SumRenamed
  <2>4. [x \in S |-> f[to[x]]] = [x \in S |-> x[1].row_id]
    BY <1>3, <1>4, <1>7, <2>1
  <2> QED BY <2>1, <2>3, <2>4
<1>11. SumFunction([r \in rows |-> r.marker]) = SumFunction([x \in S |-> x[2].marker])
  <2>1. PICK f : f = [r \in rows |-> r.marker]
    OBVIOUS
  <2>2. f \in [rows -> Int]
    BY <1>7, <1>8, <1>9, <2>1
  <2>3. SumFunction([x \in S |-> f[to[x]]]) = SumFunction(f)
    BY <1>2, <1>5, <2>2, SumRenamed
  <2>4. [x \in S |-> f[to[x]]] = [x \in S |-> x[2].marker]
    BY <1>3, <1>4, <1>7, <2>1
  <2> QED BY <2>1, <2>3, <2>4
<1> QED BY <1>1, <1>4, <1>6, <1>10, <1>11 DEF Sums

\* The governed query, in events and lines.
LEMMA GovernedIs == Governed = {JoinedRow(x, OutputColumns) : x \in Pairs(Both)}
<1> DEFINE row(x) == [row_id |-> x[1].row_id, dimension_key |-> x[2].dimension_key,
                      marker |-> x[2].marker, masked_value |-> <<"md5", x[1].sensitive_value>>]
<1>1. \A x : row(x) = JoinedRow(x, OutputColumns)
  BY DEF JoinedRow, OutputColumns, EventColumns
<1>2. Pairs(Both) = {y \in unit.events \X unit.dimension :
                       /\ y[1].sensitive_value \in unit.policy /\ y[1].query_bucket < unit.query
                       /\ y[1].join_key = y[2].dimension_key}
  BY DEF Pairs, Both, Policed, Queried, Permitted, Wanted
<1>3. Governed = {row(x) : x \in Pairs(Both)}
  BY <1>2 DEF Governed
<1> HIDE DEF row
<1> QED BY <1>1, <1>3

\* Whichever candidate ran, its output is the governed answer.
LEMMA OutputIsGoverned ==
  ASSUME UnitKinds, UnitData, NEW c \in UnitCandidates
  PROVE  /\ unit.kind = "pipeline" => Rows(c, "governed_output", Executed(c).db) = Governed
         /\ unit.kind = "checkpoint" => Rows(c, "governed_output", Executed(c).db) = {Sums(Governed)}
<1>1. PICK db : db = Executed(c).db
  OBVIOUS
<1>2. \A t \in Own(c) : db[t] = Rows(c, t, db)
  BY <1>1, ExecutedIsConsistent DEF Consistent
<1>3. ASSUME unit.kind = "pipeline"
      PROVE  Rows(c, "governed_output", db) = {JoinedRow(x, OutputColumns) : x \in Pairs(Both)}
  <2>1. CASE c = "policy_first"
    BY <1>2, <1>3, <2>1, OwnIs, PolicyFirstTables
  <2>2. CASE c = "query_first"
    BY <1>2, <1>3, <2>2, OwnIs, QueryFirstTables
  <2>3. CASE c = "join_first"
    BY <1>2, <1>3, <2>3, OwnIs, JoinFirstTables
  <2> QED BY <1>3, <2>1, <2>2, <2>3 DEF UnitCandidates, CandidateNames
<1>4. ASSUME unit.kind = "checkpoint"
      PROVE  Rows(c, "governed_output", db) = {Sums({JoinedRow(x, OutputColumns) : x \in Pairs(Both)})}
  <2>1. PICK names : names = CheckpointColumns(c) \cup LineColumns
    OBVIOUS
  <2>2. Rows(c, "governed_output", db) = {Sums({JoinedRow(x, names) : x \in Pairs(Both)})}
    <3>1. c \in {"policy_first", "query_first"}
      BY <1>4 DEF UnitCandidates
    <3>2. db["governance_checkpoint"] = Rows(c, "governance_checkpoint", db)
      BY <1>2, <1>4, OwnIs
    <3> QED BY <1>4, <2>1, <3>1, <3>2, CheckpointTables
  <2>3. {"row_id", "dimension_key", "marker"} \subseteq names
    BY <2>1 DEF CheckpointColumns, RawColumns, LineColumns
  <2>4. {"row_id", "dimension_key", "marker"} \subseteq OutputColumns
    BY DEF OutputColumns
  <2>5. Sums({JoinedRow(x, names) : x \in Pairs(Both)})
          = Sums({JoinedRow(x, OutputColumns) : x \in Pairs(Both)})
    BY <2>3, <2>4, SumsOfRows
  <2> QED BY <2>2, <2>5
<1> QED BY <1>1, <1>3, <1>4, GovernedIs
-----------------------------------------------------------------------------
(* Answers in order are unique where keys are.                             *)

LEMMA LinesOfKeys ==
  ASSUME UnitData, UniqueKeys, NEW d \in unit.dimension, NEW e \in unit.dimension,
         d.dimension_key = e.dimension_key
  PROVE  d = e
<1>1. PICK f : f = [l \in unit.dimension |-> l.dimension_key]
  OBVIOUS
<1>2. f \in Surjection(unit.dimension, Keys(unit))
  BY <1>1 DEF Surjection, Keys
<1>3. f \in Injection(unit.dimension, Keys(unit))
  BY <1>2, FS_SurjSameCardinalityImpliesInj DEF UnitData, UniqueKeys
<1> QED BY <1>1, <1>3 DEF Injection, IsInjective

LEMMA GovernedIsFinite ==
  ASSUME UnitData
  PROVE  IsFiniteSet(Governed)
<1>1. PICK f : f = [x \in Pairs(Both) |-> JoinedRow(x, OutputColumns)]
  OBVIOUS
<1>2. f \in Surjection(Pairs(Both), Governed)
  BY <1>1, GovernedIs DEF Surjection
<1>3. IsFiniteSet(Pairs(Both))
  BY Selections, PairsAreFinite
<1> QED BY <1>2, <1>3, FS_Surjection

LEMMA GovernedRowsDiffer ==
  ASSUME UnitData
  PROVE  /\ \A r \in Governed : r.row_id \in Int
         /\ UniqueKeys => \A r, q \in Governed : r.row_id = q.row_id => r = q
<1>1. \A x \in Pairs(Both) : JoinedRow(x, OutputColumns).row_id = x[1].row_id
  BY DEF JoinedRow, OutputColumns, EventColumns
<1>2. \A x \in Pairs(Both) : \E e \in unit.events, d \in unit.dimension :
        x = <<e, d>> /\ e.join_key = d.dimension_key
  BY Selections DEF Pairs
<1>3. \A x \in Pairs(Both) : x[1].row_id \in Int
  BY <1>2 DEF UnitData
<1>4. ASSUME UniqueKeys, NEW x \in Pairs(Both), NEW y \in Pairs(Both), x[1].row_id = y[1].row_id
      PROVE  x = y
  <2>1. PICK e \in unit.events, d \in unit.dimension : x = <<e, d>> /\ e.join_key = d.dimension_key
    BY <1>2
  <2>2. PICK f \in unit.events, g \in unit.dimension : y = <<f, g>> /\ f.join_key = g.dimension_key
    BY <1>2
  <2>3. e = f
    BY <1>4, <2>1, <2>2 DEF UnitData
  <2>4. d = g
    BY <1>4, <2>1, <2>2, <2>3, LinesOfKeys
  <2> QED BY <2>1, <2>2, <2>3, <2>4
<1> QED BY <1>1, <1>3, <1>4, GovernedIs

\* Every row is somewhere in an enumeration of a finite set.
LEMMA EnumerationIsOnto ==
  ASSUME NEW S, IsFiniteSet(S), NEW s \in SetToSeqs(S)
  PROVE  /\ Cardinality(S) \in Nat /\ s \in [1 .. Cardinality(S) -> S]
         /\ \A x \in S : \E i \in 1 .. Cardinality(S) : s[i] = x
         /\ \A i, j \in 1 .. Cardinality(S) : s[i] = s[j] => i = j
         /\ ToSet(s) = S
<1>1. PICK n \in Nat : n = Cardinality(S)
  BY FS_CardinalityType
<1>2. s \in [1 .. n -> S] /\ \A i, j \in 1 .. n : s[i] = s[j] => i = j
  BY <1>1 DEF SetToSeqs
<1>3. s \in Injection(1 .. n, S)
  BY <1>2 DEF Injection, IsInjective
<1>4. Cardinality(1 .. n) = n
  BY FS_Interval
<1>5. s \in Surjection(1 .. n, S)
  BY <1>1, <1>3, <1>4, FS_Injection
<1>6. \A x \in S : \E i \in 1 .. n : s[i] = x
  BY <1>5 DEF Surjection
<1>7. ToSet(s) = S
  BY <1>2, <1>6 DEF ToSet
<1> QED BY <1>1, <1>2, <1>6, <1>7

\* Where the answer of two runs first differs neither of them could be in order.
LEMMA AnswersInOrder ==
  ASSUME UnitData, UniqueKeys, NEW s \in SetToSeqs(Governed), NEW t \in SetToSeqs(Governed),
         InOrder(s), InOrder(t)
  PROVE  s = t
<1>1. PICK n, S : n = Cardinality(Governed) /\ S = Governed
  OBVIOUS
<1>2. /\ n \in Nat /\ s \in [1 .. n -> S] /\ t \in [1 .. n -> S]
      /\ \A x \in S : \E i \in 1 .. n : s[i] = x
      /\ \A x \in S : \E i \in 1 .. n : t[i] = x
      /\ \A i, j \in 1 .. n : s[i] = s[j] => i = j
      /\ \A i, j \in 1 .. n : t[i] = t[j] => i = j
  <2>1. IsFiniteSet(S) /\ s \in SetToSeqs(S) /\ t \in SetToSeqs(S) /\ n = Cardinality(S)
    BY <1>1, GovernedIsFinite
  <2>2. n \in Nat /\ s \in [1 .. n -> S] /\ t \in [1 .. n -> S]
    BY <2>1, EnumerationIsOnto
  <2>3. /\ \A x \in S : \E i \in 1 .. n : s[i] = x
        /\ \A i, j \in 1 .. n : s[i] = s[j] => i = j
    BY <2>1, EnumerationIsOnto
  <2>4. /\ \A x \in S : \E i \in 1 .. n : t[i] = x
        /\ \A i, j \in 1 .. n : t[i] = t[j] => i = j
    BY <2>1, EnumerationIsOnto
  <2> QED BY <2>2, <2>3, <2>4
<1>3. \A r \in S : r.row_id \in Int
  BY <1>1, GovernedRowsDiffer
<1>4. \A r, q \in S : r.row_id = q.row_id => r = q
  BY <1>1, GovernedRowsDiffer
<1>5. Len(s) = n /\ Len(t) = n
  BY <1>2
<1>6. \A i, j \in 1 .. n : i < j => s[i].row_id < s[j].row_id /\ t[i].row_id < t[j].row_id
  <2>1. \A i, j \in 1 .. n : i < j => s[i].row_id < s[j].row_id \/ s[i].row_id = s[j].row_id
    BY <1>5 DEF InOrder
  <2>2. \A i, j \in 1 .. n : i < j => t[i].row_id < t[j].row_id \/ t[i].row_id = t[j].row_id
    BY <1>5 DEF InOrder
  <2>3. \A i, j \in 1 .. n : s[i].row_id = s[j].row_id => i = j
    BY <1>2, <1>4
  <2>4. \A i, j \in 1 .. n : t[i].row_id = t[j].row_id => i = j
    BY <1>2, <1>4
  <2> QED BY <1>2, <2>1, <2>2, <2>3, <2>4
<1> DEFINE differ == {i \in 1 .. n : s[i] # t[i]}
<1>7. differ = {}
  <2> SUFFICES ASSUME differ # {} PROVE FALSE
    OBVIOUS
  <2>1. differ \in SUBSET Nat
    BY <1>2
  <2>2. PICK i \in differ : \A j \in differ : i <= j
    <3> HIDE DEF differ
    <3> QED BY <2>1, LeastNat
  <2>3. i \in 1 .. n /\ s[i] # t[i] /\ \A j \in 1 .. n : j < i => s[j] = t[j]
    BY <1>2, <2>2
  <2> HIDE DEF differ
  <2>4. t[i].row_id < s[i].row_id
    <3>1. PICK j \in 1 .. n : t[j] = s[i]
      BY <1>2, <2>3
    <3>2. i < j
      <4>1. j < i => s[j] = s[i]
        BY <2>3, <3>1
      <4>2. ~(j < i)
        BY <1>2, <2>3, <4>1
      <4>3. j # i
        BY <2>3, <3>1
      <4> QED BY <1>2, <2>3, <4>2, <4>3
    <3> QED BY <1>6, <2>3, <3>1, <3>2
  <2>5. s[i].row_id < t[i].row_id
    <3>1. PICK j \in 1 .. n : s[j] = t[i]
      BY <1>2, <2>3
    <3>2. i < j
      <4>1. j < i => t[j] = t[i]
        BY <2>3, <3>1
      <4>2. ~(j < i)
        BY <1>2, <2>3, <4>1
      <4>3. j # i
        BY <2>3, <3>1
      <4> QED BY <1>2, <2>3, <4>2, <4>3
    <3> QED BY <1>6, <2>3, <3>1, <3>2
  <2>6. s[i].row_id \in Int /\ t[i].row_id \in Int
    BY <1>2, <1>3, <2>3
  <2> QED BY <2>4, <2>5, <2>6
<1>8. \A i \in 1 .. n : s[i] = t[i]
  BY <1>7
<1> HIDE DEF differ
<1> QED BY <1>2, <1>8
-----------------------------------------------------------------------------
(* What a unit measures.                                                   *)

\* A measurement of a candidate: its answer, and the work on consistent tables.
Evident(e) ==
  /\ e.candidate \in UnitCandidates
  /\ unit.kind = "pipeline" => e.answer \in SetToSeqs(Governed) /\ InOrder(e.answer)
  /\ unit.kind = "checkpoint" => e.answer = <<Sums(Governed)>>
  /\ \E s : Consistent(e.candidate, s.db) /\ e.work = Work(s, e.candidate)

MeasuringInv ==
  /\ UnitInv /\ UnitData
  /\ order \in Seq(UnitCandidates)
  /\ \E S : block \in Seq(S)
  /\ \A e \in ToSet(block) : Evident(e)
  /\ \A e \in measured : Evident(e)
  /\ stage \in {"warmup", "measure"} => order # <<>> \/ block # <<>>
  /\ UniqueKeys => error # "mismatch"

LEMMA SequenceOfOne ==
  ASSUME NEW x
  PROVE  SetToSeq({x}) = <<x>>
<1>1. Cardinality({x}) = 1
  BY FS_Singleton
<1>2. PICK f : f = SetToSeq({x})
  OBVIOUS
<1>3. f = CHOOSE g \in [1 .. 1 -> {x}] : IsInjective(g)
  BY <1>1, <1>2 DEF SetToSeq
<1>4. \E g \in [1 .. 1 -> {x}] : IsInjective(g)
  <2>1. PICK g : g = [i \in 1 .. 1 |-> x]
    OBVIOUS
  <2>2. g \in [1 .. 1 -> {x}]
    BY <2>1
  <2>3. IsInjective(g)
    BY <2>1 DEF IsInjective
  <2> QED BY <2>2, <2>3
<1>5. f \in [1 .. 1 -> {x}]
  BY <1>3, <1>4
<1>6. f = <<x>>
  <2>1. DOMAIN f = 1 .. 1 /\ f[1] = x /\ f = [i \in 1 .. 1 |-> f[i]]
    BY <1>5
  <2> QED BY <2>1
<1> QED BY <1>2, <1>6

LEMMA RunsAreEvident ==
  ASSUME UnitKinds, UnitData, NEW c \in UnitCandidates,
         NEW answer \in Answers(Rows(c, "governed_output", Executed(c).db))
  PROVE  Evident([candidate |-> c, answer |-> answer, work |-> Work(Executed(c), c)])
<1>1. PICK s, work : s = Executed(c) /\ work = Work(s, c)
  OBVIOUS
<1>2. Consistent(c, s.db)
  BY <1>1, ExecutedIsConsistent
<1>3. unit.kind = "pipeline" => answer \in SetToSeqs(Governed) /\ InOrder(answer)
  <2> SUFFICES ASSUME unit.kind = "pipeline"
               PROVE  answer \in SetToSeqs(Governed) /\ InOrder(answer)
    OBVIOUS
  <2>1. Rows(c, "governed_output", s.db) = Governed
    BY <1>1, OutputIsGoverned
  <2>2. answer \in Answers(Governed)
    BY <1>1, <2>1
  <2> QED BY <2>2 DEF Answers
<1>4. unit.kind = "checkpoint" => answer = <<Sums(Governed)>>
  <2> SUFFICES ASSUME unit.kind = "checkpoint"
               PROVE  answer = <<Sums(Governed)>>
    OBVIOUS
  <2>1. Rows(c, "governed_output", s.db) = {Sums(Governed)}
    BY <1>1, OutputIsGoverned
  <2>2. answer \in Answers({Sums(Governed)})
    BY <1>1, <2>1
  <2>3. answer = SetToSeq({Sums(Governed)})
    BY <2>2 DEF Answers
  <2> QED BY <2>3, SequenceOfOne
<1>5. PICK e : e = [candidate |-> c, answer |-> answer, work |-> work]
  OBVIOUS
<1>6. e.candidate = c /\ e.answer = answer /\ e.work = work
  BY <1>5
<1>7. Evident(e)
  BY <1>1, <1>2, <1>3, <1>4, <1>6 DEF Evident
<1> QED BY <1>1, <1>5, <1>7

\* The errors of a session are those of its statements.
Plain(s) == s = [db |-> s.db, error |-> s.error] /\ s.error \in {"none", "exists", "missing"}

LEMMA CreatesPlain ==
  ASSUME NEW s, Plain(s), NEW c, NEW target
  PROVE  /\ Plain(Create(s, c, target))
         /\ Plain([s EXCEPT !.error = Create(s, c, target).error])
<1>1. PICK db, er : er \in {"none", "exists", "missing"} /\ s = [db |-> db, error |-> er]
  BY DEF Plain
<1>2. PICK fails \in {"none", "exists", "missing"} : fails = Failure(s, c, target)
  BY DEF Failure
<1>3. PICK new : new = [t \in DOMAIN s.db \cup {target} |->
                          IF t = target THEN Rows(c, target, s.db) ELSE s.db[t]]
  OBVIOUS
<1>4. PICK run : run = Create(s, c, target)
  OBVIOUS
<1>5. run = (IF er # "none" THEN s
             ELSE IF fails # "none" THEN [s EXCEPT !.error = fails] ELSE [s EXCEPT !.db = new])
  BY <1>1, <1>2, <1>3, <1>4 DEF Create
<1>6. Plain(run)
  <2>1. CASE er # "none"
    BY <1>5, <2>1
  <2>2. CASE er = "none" /\ fails # "none"
    <3>1. run = [db |-> db, error |-> fails]
      BY <1>1, <1>5, <2>2
    <3> QED BY <3>1 DEF Plain
  <2>3. CASE er = "none" /\ fails = "none"
    <3>1. run = [db |-> new, error |-> er]
      BY <1>1, <1>5, <2>3
    <3> QED BY <2>3, <3>1 DEF Plain
  <2> QED BY <2>1, <2>2, <2>3
<1>7. Plain([s EXCEPT !.error = run.error])
  <2>1. PICK n \in {"none", "exists", "missing"} : n = run.error
    BY <1>6 DEF Plain
  <2>2. [s EXCEPT !.error = n] = [db |-> db, error |-> n]
    BY <1>1
  <2>3. Plain([db |-> db, error |-> n])
    BY DEF Plain
  <2> QED BY <2>1, <2>2, <2>3
<1> QED BY <1>4, <1>6, <1>7

LEMMA ObservingIsPlain ==
  ASSUME UnitKinds, engine \in [explain : BOOLEAN, analyze : BOOLEAN], NEW c \in CandidateNames
  PROVE  Observed(c).error # "mismatch"
<1>1. CASE unit.kind = "pipeline" \/ engine.analyze
  BY <1>1, ObservingSucceeds
<1>2. CASE unit.kind = "checkpoint" /\ ~engine.analyze
  <2>1. PICK s : s = Drop(Session, Leftovers)
    OBVIOUS
  <2>2. Plain(s)
    <3>1. PICK db : Session = [db |-> db, error |-> "none"]
      BY DEF Session
    <3>2. Clean(Session)
      BY <3>1 DEF Clean
    <3>3. Clean(s)
      BY <2>1, <3>2, Drops
    <3> QED BY <3>3 DEF Clean, Plain
  <2>3. PICK first : first = [s EXCEPT !.error = Create(s, c, "governance_checkpoint").error]
    OBVIOUS
  <2>4. Plain(first)
    BY <2>2, <2>3, CreatesPlain
  <2>5. PICK last : last = [first EXCEPT !.error = Create(first, c, "governed_output").error]
    OBVIOUS
  <2>6. Plain(last)
    BY <2>4, <2>5, CreatesPlain
  <2>7. Observed(c) = last
    <3>1. first = Explain(Drop(Session, Leftovers), c, "governance_checkpoint", engine.analyze)
      BY <1>2, <2>1, <2>3 DEF Explain
    <3>2. last = Explain(first, c, "governed_output", engine.analyze)
      BY <1>2, <2>5 DEF Explain
    <3> QED BY <1>2, <3>1, <3>2 DEF Observed, ProfiledCheckpoint
  <2> QED BY <2>6, <2>7 DEF Plain
<1> QED BY <1>1, <1>2 DEF UnitKinds
-----------------------------------------------------------------------------
\* What is evident of a unit stays so: its data do not change.
LEMMA EvidenceKept ==
  ASSUME unit' = unit
  PROVE  /\ UnitCandidates' = UnitCandidates
         /\ UniqueKeys' => UniqueKeys
         /\ UnitData => UnitData'
         /\ \A e : Evident(e) => Evident(e)'
<1>1. UnitCandidates' = UnitCandidates
  BY DEF UnitCandidates
<1>2. UniqueKeys' => UniqueKeys
  BY DEF UniqueKeys, Keys
<1>3. UnitData => UnitData'
  BY DEF UnitData
<1>4. Governed' = Governed
  BY DEF Governed
<1>5. \A c, db : PolicyInput(c, db)' = PolicyInput(c, db)
  BY DEF PolicyInput
<1>6. \A c, db : JoinInput(c, db)' = JoinInput(c, db)
  BY DEF JoinInput, Wanted
<1>7. \A c : Own(c)' = Own(c)
  BY DEF Own
<1>8. \A rows : Permitted(rows)' = Permitted(rows) /\ Wanted(rows)' = Wanted(rows)
  BY DEF Permitted, Wanted
<1>9. \A c, rows : Remaining(c, rows)' = Remaining(c, rows)
  BY <1>8 DEF Remaining
<1>10. \A c, t, db : Rows(c, t, db)' = Rows(c, t, db)
  BY DEF Rows, PolicyInput, JoinInput, Permitted, Wanted, Remaining
<1>11. \A c, db : Consistent(c, db) => Consistent(c, db)'
  BY <1>7, <1>10 DEF Consistent
<1>12. \A s, c, column : Stored(s, c, column)' = Stored(s, c, column)
  BY <1>7 DEF Stored
<1>13. \A s, c : Work(s, c)' = Work(s, c)
  BY <1>5, <1>6, <1>7, <1>12 DEF Work
<1>14. ASSUME NEW e, Evident(e)
       PROVE  Evident(e)'
  <2>1. /\ e.candidate \in UnitCandidates'
        /\ unit'.kind = "pipeline" => e.answer \in SetToSeqs(Governed') /\ InOrder(e.answer)
        /\ unit'.kind = "checkpoint" => e.answer = <<Sums(Governed')>>
    BY <1>1, <1>4, <1>14 DEF Evident
  <2>2. PICK s : Consistent(e.candidate, s.db) /\ e.work = Work(s, e.candidate)
    BY <1>14 DEF Evident
  <2>3. Consistent(e.candidate, s.db)' /\ e.work = Work(s, e.candidate)'
    BY <1>11, <1>13, <2>2
  <2> QED BY <2>1, <2>3 DEF Evident
<1> QED BY <1>1, <1>2, <1>3, <1>14

\* A block starts with all its candidates, in some order.
LEMMA BlockOrders ==
  ASSUME UnitKinds
  PROVE  /\ Candidates(unit) \in Seq(UnitCandidates)
         /\ \A f \in SetToSeqs(ToSet(Candidates(unit))) : f \in Seq(UnitCandidates) /\ f # <<>>
<1>1. Candidates(unit) \in Seq(UnitCandidates) /\ Candidates(unit) # <<>>
  <2>1. CASE unit.kind = "checkpoint"
    BY <2>1 DEF Candidates, UnitCandidates
  <2>2. CASE unit.kind = "pipeline"
    BY <2>2 DEF Candidates, UnitCandidates, CandidateNames
  <2> QED BY <2>1, <2>2 DEF UnitKinds
<1>2. PICK S : S = ToSet(Candidates(unit))
  OBVIOUS
<1>3. S \subseteq UnitCandidates /\ S # {}
  BY <1>1, <1>2 DEF ToSet
<1>4. IsFiniteSet(UnitCandidates)
  <2>1. IsFiniteSet({"policy_first"}) /\ IsFiniteSet({"query_first"}) /\ IsFiniteSet({"join_first"})
    BY FS_Singleton
  <2>2. IsFiniteSet({"policy_first"} \cup {"query_first"})
    BY <2>1, FS_Union
  <2>3. IsFiniteSet({"policy_first"} \cup {"query_first"} \cup {"join_first"})
    BY <2>1, <2>2, FS_Union
  <2>4. UnitCandidates \subseteq {"policy_first"} \cup {"query_first"} \cup {"join_first"}
    BY DEF UnitCandidates, CandidateNames
  <2> QED BY <2>3, <2>4, FS_Subset
<1>5. IsFiniteSet(S)
  BY <1>3, <1>4, FS_Subset
<1>6. PICK n \in Nat : n = Cardinality(S)
  BY <1>5, FS_CardinalityType
<1>7. n # 0
  BY <1>3, <1>5, <1>6, FS_EmptySet
<1>8. \A f \in SetToSeqs(S) : f \in [1 .. n -> S]
  BY <1>6 DEF SetToSeqs
<1>9. \A f \in SetToSeqs(S) : f \in Seq(UnitCandidates) /\ f # <<>>
  BY <1>3, <1>7, <1>8
<1> QED BY <1>1, <1>2, <1>9

LEMMA MeasuringStarts == UnitInit => MeasuringInv
<1> SUFFICES ASSUME UnitInit PROVE MeasuringInv
  OBVIOUS
<1>1. UnitInv /\ UnitData
  BY UnitStarts, DataOfUnit
<1>2. order = <<>> /\ block = <<>> /\ measured = {} /\ stage = "planned" /\ error = "none"
  BY DEF UnitInit
<1>3. order \in Seq(UnitCandidates) /\ block \in Seq({}) /\ ToSet(block) = {}
  BY <1>2 DEF ToSet
<1> QED BY <1>1, <1>2, <1>3 DEF MeasuringInv

\* The answers of a block agree where the dimension's keys are unique.
LEMMA BlocksAgree ==
  ASSUME MeasuringInv, stage \in {"warmup", "measure"}, order = <<>>, UniqueKeys
  PROVE  Agreed
<1>1. PICK S : block \in Seq(S)
  BY DEF MeasuringInv
<1>2. block # <<>>
  BY DEF MeasuringInv
<1>3. PICK e : e \in ToSet(block)
  <2>1. 1 \in DOMAIN block
    BY <1>1, <1>2
  <2> QED BY <2>1 DEF ToSet
<1>4. ASSUME NEW f \in ToSet(block)
      PROVE  f.answer = e.answer
  <2>1. Evident(e) /\ Evident(f)
    BY <1>3 DEF MeasuringInv
  <2>2. CASE unit.kind = "pipeline"
    <3>1. e.answer \in SetToSeqs(Governed) /\ InOrder(e.answer)
          /\ f.answer \in SetToSeqs(Governed) /\ InOrder(f.answer)
      BY <2>1, <2>2 DEF Evident
    <3>2. PICK s, t : s = e.answer /\ t = f.answer
      OBVIOUS
    <3>3. s = t
      BY <3>1, <3>2, AnswersInOrder DEF MeasuringInv
    <3> QED BY <3>2, <3>3
  <2>3. CASE unit.kind = "checkpoint"
    BY <2>1, <2>3 DEF Evident
  <2> QED BY <2>2, <2>3 DEF MeasuringInv, UnitInv, UnitKinds
<1>5. Answered = {e.answer}
  BY <1>3, <1>4 DEF Answered
<1>6. Cardinality({e.answer}) = 1
  BY FS_Singleton
<1> QED BY <1>5, <1>6 DEF Agreed

LEMMA MeasuringSteps ==
  ASSUME MeasuringInv, [UnitNext]_unitVars
  PROVE  MeasuringInv'
<1>1. UnitInv'
  BY UnitSteps DEF MeasuringInv
<1>2. unit' = unit
  BY DEF UnitNext, unitVars, PlanUnit, Reject, Observe, Run, StatementFails, EndObservation,
         EndWarmup, EndBlock, StartBlock, Raise
<1>3. /\ UnitCandidates' = UnitCandidates /\ UnitData'
      /\ UniqueKeys' => UniqueKeys
      /\ \A e : Evident(e) => Evident(e)'
  BY <1>2, EvidenceKept DEF MeasuringInv
<1>4. ASSUME order' \in Seq(UnitCandidates), \E S : block' \in Seq(S),
             \A e \in ToSet(block') : Evident(e), \A e \in measured' : Evident(e),
             stage' \in {"warmup", "measure"} => order' # <<>> \/ block' # <<>>,
             UniqueKeys => error' # "mismatch"
      PROVE  MeasuringInv'
  <2>1. ASSUME NEW e \in ToSet(block')
        PROVE  Evident(e)'
    <3>1. Evident(e)
      BY <1>4
    <3> QED BY <1>3, <3>1
  <2>2. ASSUME NEW e \in measured'
        PROVE  Evident(e)'
    <3>1. Evident(e)
      BY <1>4
    <3> QED BY <1>3, <3>1
  <2> QED BY <1>1, <1>3, <1>4, <2>1, <2>2 DEF MeasuringInv
<1>5. ASSUME NEW reason, Raise(reason), UniqueKeys => reason # "mismatch"
      PROVE  MeasuringInv'
  <2>1. /\ order' = order /\ block' = block /\ measured' = measured
        /\ stage' = "raised" /\ error' = reason
    BY <1>5 DEF Raise
  <2> QED BY <1>4, <1>5, <2>1 DEF MeasuringInv
<1>6. ASSUME NEW next, StartBlock(next), \A e \in measured' : Evident(e)
      PROVE  MeasuringInv'
  <2>1. order' \in Seq(UnitCandidates) /\ order' # <<>>
    BY <1>6, BlockOrders DEF StartBlock, MeasuringInv, UnitInv
  <2>2. block' = <<>> /\ error' = error
    BY <1>6 DEF StartBlock
  <2>3. block' \in Seq({}) /\ ToSet(block') = {}
    BY <2>2 DEF ToSet
  <2> QED BY <1>4, <1>6, <2>1, <2>2, <2>3 DEF MeasuringInv
<1>7. ASSUME order # <<>>
      PROVE  Head(order) \in UnitCandidates /\ Tail(order) \in Seq(UnitCandidates)
  BY <1>7 DEF MeasuringInv
<1>8. CASE PlanUnit
  <2>1. order' \in Seq(UnitCandidates) /\ UNCHANGED <<block, measured, error>> /\ stage' = "observe"
    BY <1>8, BlockOrders DEF PlanUnit, MeasuringInv, UnitInv
  <2> QED BY <1>4, <2>1 DEF MeasuringInv
<1>9. CASE Reject
  BY <1>5, <1>9 DEF Reject
<1>10. CASE Observe
  <2>1. PICK c \in UnitCandidates : c = Head(order)
    BY <1>7, <1>10 DEF Observe
  <2>2. CASE Observed(c).error = "none"
    <3>1. order' = Tail(order) /\ UNCHANGED <<stage, block, measured, error>> /\ stage = "observe"
      BY <1>10, <2>1, <2>2 DEF Observe
    <3> QED BY <1>4, <1>7, <1>10, <3>1 DEF MeasuringInv, Observe
  <2>3. CASE Observed(c).error # "none"
    <3>1. Observed(c).error # "mismatch"
      <4>1. c \in CandidateNames
        BY DEF UnitCandidates, CandidateNames
      <4> QED BY <4>1, ObservingIsPlain DEF MeasuringInv, UnitInv
    <3>2. PICK reason : reason = Observed(c).error
      OBVIOUS
    <3>3. Raise(reason)
      BY <1>10, <2>1, <2>3, <3>2 DEF Observe
    <3> QED BY <1>5, <3>1, <3>2, <3>3
  <2> QED BY <2>2, <2>3
<1>11. CASE Run
  <2>1. PICK c \in UnitCandidates : c = Head(order)
    BY <1>7, <1>11 DEF Run
  <2>2. Executed(c).error = "none"
    <3>1. c \in CandidateNames
      BY DEF UnitCandidates, CandidateNames
    <3> QED BY <3>1, ExecutingSucceeds DEF MeasuringInv, UnitInv
  <2>3. PICK answer \in Answers(Rows(c, "governed_output", Executed(c).db)) :
          /\ block' = Append(block, [candidate |-> c, answer |-> answer, work |-> Work(Executed(c), c)])
          /\ order' = Tail(order) /\ UNCHANGED <<stage, measured, error>>
    BY <1>11, <2>1, <2>2 DEF Run
  <2>4. PICK e : e = [candidate |-> c, answer |-> answer, work |-> Work(Executed(c), c)]
    OBVIOUS
  <2>5. Evident(e)
    BY <2>4, RunsAreEvident DEF MeasuringInv, UnitInv
  <2>6. PICK S : block \in Seq(S)
    BY DEF MeasuringInv
  <2>7. block' = Append(block, e)
    BY <2>3, <2>4
  <2>8. block' \in Seq(S \cup {e}) /\ block' # <<>> /\ ToSet(block') \subseteq ToSet(block) \cup {e}
    <3>1. block \in Seq(S \cup {e})
      BY <2>6
    <3>2. Append(block, e) \in Seq(S \cup {e}) /\ Append(block, e) # <<>>
      BY <3>1
    <3>3. ToSet(Append(block, e)) \subseteq ToSet(block) \cup {e}
      BY <3>1 DEF ToSet
    <3> QED BY <2>7, <3>2, <3>3
  <2>9. \A f \in ToSet(block') : Evident(f)
    BY <2>5, <2>8 DEF MeasuringInv
  <2>10. order' \in Seq(UnitCandidates)
    BY <1>7, <1>11, <2>3 DEF Run
  <2>11. (\A f \in measured' : Evident(f)) /\ (UniqueKeys => error' # "mismatch")
    BY <2>3 DEF MeasuringInv
  <2>12. \E T : block' \in Seq(T)
    BY <2>8
  <2> HIDE DEF MeasuringInv
  <2> QED BY <1>4, <2>8, <2>9, <2>10, <2>11, <2>12
<1>12. CASE StatementFails
  BY <1>5, <1>12 DEF StatementFails
<1>13. CASE EndObservation
  <2>1. CASE StartBlock("warmup") /\ UNCHANGED <<measured, done>>
    BY <1>6, <2>1 DEF MeasuringInv
  <2>2. CASE Raise("plans")
    BY <1>5, <2>2
  <2> QED BY <1>13, <2>1, <2>2 DEF EndObservation
<1>14. CASE EndWarmup
  <2>1. CASE StartBlock("measure") /\ UNCHANGED <<measured, done>>
    BY <1>6, <2>1 DEF MeasuringInv
  <2>2. CASE ~Agreed /\ Raise("mismatch")
    <3>1. ~UniqueKeys
      BY <1>14, <2>2, BlocksAgree DEF EndWarmup
    <3> QED BY <1>5, <2>2, <3>1
  <2> QED BY <1>14, <2>1, <2>2 DEF EndWarmup
<1>15. CASE EndBlock
  <2>1. CASE ~Agreed /\ Raise("mismatch")
    <3>1. ~UniqueKeys
      BY <1>15, <2>1, BlocksAgree DEF EndBlock
    <3> QED BY <1>5, <2>1, <3>1
  <2>2. CASE measured' = measured \cup ToSet(block)
    <3>1. \A e \in measured' : Evident(e)
      BY <2>2 DEF MeasuringInv
    <3>2. CASE StartBlock("measure")
      BY <1>6, <3>1, <3>2
    <3>3. CASE stage' = "written" /\ UNCHANGED <<order, block, error>>
      BY <1>4, <3>1, <3>3 DEF MeasuringInv
    <3> QED BY <1>15, <2>2, <3>2, <3>3, <1>5, <2>1 DEF EndBlock
  <2> QED BY <1>15, <2>1, <2>2 DEF EndBlock
<1>16. CASE UNCHANGED unitVars
  <2>1. UNCHANGED <<order, block, measured, stage, error>>
    BY <1>16 DEF unitVars
  <2> QED BY <1>4, <2>1 DEF MeasuringInv
<1> QED BY <1>8, <1>9, <1>10, <1>11, <1>12, <1>13, <1>14, <1>15, <1>16 DEF UnitNext

LEMMA SameFromInvariant == MeasuringInv => SameAnswer
<1> SUFFICES ASSUME MeasuringInv PROVE SameAnswer
  OBVIOUS
<1>1. UniqueKeys => error # "mismatch"
  BY DEF MeasuringInv
<1>2. ASSUME NEW e \in measured
      PROVE  IF unit.kind = "pipeline" THEN ToSet(e.answer) = Governed
             ELSE e.answer = <<Sums(Governed)>>
  <2>1. Evident(e)
    BY DEF MeasuringInv
  <2>2. CASE unit.kind = "pipeline"
    <3>1. e.answer \in SetToSeqs(Governed)
      BY <2>1, <2>2 DEF Evident
    <3>2. IsFiniteSet(Governed)
      BY GovernedIsFinite DEF MeasuringInv
    <3>3. PICK S, s : S = Governed /\ s = e.answer
      OBVIOUS
    <3>4. ToSet(s) = S
      BY <3>1, <3>2, <3>3, EnumerationIsOnto
    <3> QED BY <2>2, <3>3, <3>4
  <2>3. CASE unit.kind = "checkpoint"
    BY <2>1, <2>3 DEF Evident
  <2> QED BY <2>2, <2>3 DEF MeasuringInv, UnitInv, UnitKinds
<1> QED BY <1>1, <1>2 DEF SameAnswer

(* Whatever the data, whichever candidates run in whichever order and for  *)
(* however many blocks: where the keys of the dimension are unique no      *)
(* comparison of answers fails, and every answer that is written is that   *)
(* of the governed query, with unique keys or without.                     *)
THEOREM CandidatesAnswerAlike == UnitSpec => []SameAnswer
BY MeasuringStarts, MeasuringSteps, SameFromInvariant, PTL DEF UnitSpec
-----------------------------------------------------------------------------
(* What is counted of the data, and what of the tables.                    *)

Joining == {e \in unit.events : e.join_key \in Keys(unit)}

\* So many rows, all with the same columns.
Sized(rows, n, names) ==
  /\ n \in Nat /\ Cardinality(rows) = n
  /\ \A column : Cardinality(With(rows, column)) = IF column \in names THEN n ELSE 0

\* One row for every event.
LEMMA EventRowsCount ==
  ASSUME UnitData, NEW T \in SUBSET unit.events, NEW names, "row_id" \in names
  PROVE  Sized({EventRow(e, names) : e \in T}, Cardinality(T), names)
<1>1. IsFiniteSet(T) /\ Cardinality(T) \in Nat
  BY FS_Subset, FS_CardinalityType DEF UnitData
<1>2. PICK R, to : R = {EventRow(e, names) : e \in T} /\ to = [e \in T |-> EventRow(e, names)]
  OBVIOUS
<1>3. \A e \in T : to[e].row_id = e.row_id /\ DOMAIN to[e] = names
  BY <1>2 DEF EventRow, EventColumns
<1>4. \A e, f \in T : to[e] = to[f] => e = f
  BY <1>3 DEF UnitData
<1>5. to \in Bijection(T, R)
  BY <1>2, <1>4 DEF Bijection, Injection, Surjection, IsInjective
<1>6. Cardinality(R) = Cardinality(T)
  BY <1>1, <1>5, FS_Bijection DEF ExistsBijection
<1>7. \A r \in R : DOMAIN r = names
  BY <1>2, <1>3
<1>8. \A column : With(R, column) = IF column \in names THEN R ELSE {}
  BY <1>7 DEF With
<1>9. Cardinality({}) = 0
  BY FS_EmptySet
<1>10. \A column : Cardinality(With(R, column)) = IF column \in names THEN Cardinality(T) ELSE 0
  BY <1>6, <1>8, <1>9
<1> QED BY <1>1, <1>2, <1>6, <1>10 DEF Sized

\* One row for every event whose key the dimension has, where keys are unique.
LEMMA JoinedRowsCount ==
  ASSUME UnitData, UniqueKeys, NEW T \in SUBSET unit.events, NEW names, "row_id" \in names
  PROVE  Sized({JoinedRow(x, names) : x \in Pairs(T)}, Cardinality(T \cap Joining), names)
<1>1. PICK S : S = T \cap Joining
  OBVIOUS
<1>2. IsFiniteSet(S) /\ Cardinality(S) \in Nat
  BY <1>1, FS_Subset, FS_CardinalityType DEF UnitData
<1>3. PICK R : R = {JoinedRow(x, names) : x \in Pairs(T)}
  OBVIOUS
<1> DEFINE event(r) == CHOOSE e \in S : e.row_id = r.row_id
<1>4. \A x \in Pairs(T) : x[1] \in S /\ x[2] \in unit.dimension /\ x[1].join_key = x[2].dimension_key
                           /\ x = <<x[1], x[2]>>
  BY <1>1 DEF Pairs, Joining, Keys
<1>5. \A x \in Pairs(T) : JoinedRow(x, names).row_id = x[1].row_id /\ DOMAIN JoinedRow(x, names) = names
  BY DEF JoinedRow, EventColumns
<1>6. PICK to : to = [e \in S |-> JoinedRow(CHOOSE x \in Pairs(T) : x[1] = e, names)]
  OBVIOUS
<1>7. ASSUME NEW e \in S
      PROVE  \E x \in Pairs(T) : x[1] = e
  <2>1. e \in T /\ e \in unit.events /\ e.join_key \in Keys(unit)
    BY <1>1, <1>7 DEF Joining
  <2>2. PICK d \in unit.dimension : d.dimension_key = e.join_key
    BY <2>1 DEF Keys
  <2>3. PICK x : x = <<e, d>>
    OBVIOUS
  <2>4. x \in Pairs(T) /\ x[1] = e
    BY <2>1, <2>2, <2>3 DEF Pairs
  <2> QED BY <2>4
<1>8. ASSUME NEW x \in Pairs(T), NEW y \in Pairs(T), x[1] = y[1]
      PROVE  x = y
  <2>1. PICK d \in unit.dimension, g \in unit.dimension : d = x[2] /\ g = y[2]
    BY <1>4
  <2>2. d = g
    BY <1>4, <1>8, <2>1, LinesOfKeys
  <2> QED BY <1>4, <1>8, <2>1, <2>2
<1>9. \A e \in S : \E x \in Pairs(T) : x[1] = e /\ to[e] = JoinedRow(x, names)
  BY <1>6, <1>7
<1>10. \A x \in Pairs(T) : to[x[1]] = JoinedRow(x, names)
  BY <1>4, <1>8, <1>9
<1>11. \A e \in S : to[e] \in R /\ to[e].row_id = e.row_id
  BY <1>3, <1>5, <1>9
<1>12. \A e, f \in S : to[e] = to[f] => e = f
  <2>1. \A e, f \in S : e.row_id = f.row_id => e = f
    BY <1>1 DEF UnitData, Joining
  <2> QED BY <1>11, <2>1
<1>13. \A r \in R : \E e \in S : to[e] = r
  BY <1>3, <1>4, <1>10
<1>14. to \in Bijection(S, R)
  BY <1>6, <1>11, <1>12, <1>13 DEF Bijection, Injection, Surjection, IsInjective
<1>15. Cardinality(R) = Cardinality(S)
  BY <1>2, <1>14, FS_Bijection DEF ExistsBijection
<1>16. \A r \in R : DOMAIN r = names
  BY <1>3, <1>5
<1>17. \A column : With(R, column) = IF column \in names THEN R ELSE {}
  BY <1>16 DEF With
<1>18. Cardinality({}) = 0
  BY FS_EmptySet
<1>19. \A column : Cardinality(With(R, column)) = IF column \in names THEN Cardinality(S) ELSE 0
  BY <1>15, <1>17, <1>18
<1> QED BY <1>1, <1>2, <1>3, <1>15, <1>19 DEF Sized

\* Where keys are unique an event counts once, matched or not.
LEMMA CountedIs ==
  ASSUME UnitData, UniqueKeys, NEW T \in SUBSET unit.events
  PROVE  Counted(unit, T) = Cardinality(T)
<1>1. IsFiniteSet(T)
  BY FS_Subset DEF UnitData
<1>2. ASSUME NEW e \in T
      PROVE  Multiplicity(unit, e) = 1
  <2>1. PICK M : M = Matches(unit, e)
    OBVIOUS
  <2>2. \A d, g \in M : d \in unit.dimension /\ d = g
    <3>1. \A d \in M : d \in unit.dimension /\ d.dimension_key = e.join_key
      BY <2>1 DEF Matches
    <3>2. ASSUME NEW d \in M, NEW g \in M
          PROVE  d = g
      <4>1. d \in unit.dimension /\ g \in unit.dimension /\ d.dimension_key = g.dimension_key
        BY <3>1
      <4> QED BY <4>1, LinesOfKeys
    <3> QED BY <3>1, <3>2
  <2>3. M # {} => Cardinality(M) = 1
    <3>1. ASSUME NEW d \in M
          PROVE  Cardinality(M) = 1
      <4>1. M = {d}
        BY <2>2
      <4>2. Cardinality({d}) = 1
        BY FS_Singleton
      <4> QED BY <4>1, <4>2
    <3> QED BY <3>1
  <2> QED BY <2>1, <2>3 DEF Multiplicity
<1>3. Counted(unit, T) = SumFunction([e \in T |-> 1])
  <2>1. [e \in T |-> Multiplicity(unit, e)] = [e \in T |-> 1]
    BY <1>2
  <2> QED BY <2>1 DEF Counted
<1> QED BY <1>1, <1>3, SumCounts

LEMMA StatisticsAre ==
  ASSUME UnitData, UniqueKeys
  PROVE  /\ Statistics(unit).input = Cardinality(unit.events)
         /\ Statistics(unit).policy = Cardinality(Policed)
         /\ Statistics(unit).query = Cardinality(Queried)
         /\ Statistics(unit).governed = Cardinality(Both)
         /\ Statistics(unit).queryJoin = Cardinality(Queried \cap Joining)
         /\ Statistics(unit).result = Cardinality(Both \cap Joining)
<1>1. /\ Policed = {e \in unit.events : e.sensitive_value \in unit.policy}
      /\ Queried = {e \in unit.events : e.query_bucket < unit.query}
  BY DEF Policed, Queried, Permitted, Wanted
<1>2. PICK st : st = Statistics(unit)
  OBVIOUS
<1>3. st = [input |-> Cardinality(unit.events), policy |-> Counted(unit, Policed),
            query |-> Counted(unit, Queried), governed |-> Counted(unit, Policed \cap Queried),
            queryJoin |-> Counted(unit, Queried \cap Joining),
            result |-> Counted(unit, Policed \cap Queried \cap Joining), width |-> unit.width]
  BY <1>1, <1>2 DEF Statistics, Joining
<1>4. /\ Policed \in SUBSET unit.events /\ Queried \in SUBSET unit.events
      /\ Policed \cap Queried \in SUBSET unit.events /\ Queried \cap Joining \in SUBSET unit.events
      /\ Policed \cap Queried \cap Joining \in SUBSET unit.events
  BY Selections
<1>5. /\ Counted(unit, Policed) = Cardinality(Policed)
      /\ Counted(unit, Queried) = Cardinality(Queried)
      /\ Counted(unit, Policed \cap Queried) = Cardinality(Policed \cap Queried)
      /\ Counted(unit, Queried \cap Joining) = Cardinality(Queried \cap Joining)
      /\ Counted(unit, Policed \cap Queried \cap Joining) = Cardinality(Policed \cap Queried \cap Joining)
  BY <1>4, CountedIs
<1>6. Policed \cap Queried = Both
  BY DEF Both
<1> QED BY <1>2, <1>3, <1>5, <1>6
-----------------------------------------------------------------------------
(* The work of each candidate.                                             *)

\* The tables of a candidate and their sizes: it has one where a is b.
Sizes(s, c, a, n, A, b, m, B) == Own(c) = {a, b} /\ Sized(s.db[a], n, A) /\ Sized(s.db[b], m, B)

Keeping(column, n, names) == IF column \in names THEN n ELSE 0

Total(a, n, b, m) == IF a = b THEN m ELSE n + m

\* Sums over the tables of a candidate.
LEMMA StoredIs ==
  ASSUME NEW c, NEW s, NEW a, NEW b, NEW n, NEW m, NEW A, NEW B, Sizes(s, c, a, n, A, b, m, B),
         NEW column
  PROVE  Stored(s, c, column) = Total(a, Keeping(column, n, A), b, Keeping(column, m, B))
<1>1. PICK f : f = [t \in {a, b} |-> Cardinality(With(s.db[t], column))]
  OBVIOUS
<1>2. /\ f[a] = Keeping(column, n, A) /\ f[b] = Keeping(column, m, B)
      /\ n \in Nat /\ m \in Nat
  BY <1>1 DEF Sized, Sizes, Keeping
<1>3. f \in [{a, b} -> Int]
  BY <1>1, <1>2 DEF Keeping
<1>4. SumFunction(f) = IF a = b THEN f[b] ELSE f[a] + f[b]
  BY <1>3, SumOfTwo
<1>5. Stored(s, c, column) = SumFunction(f)
  BY <1>1 DEF Stored, Sizes
<1> QED BY <1>2, <1>4, <1>5 DEF Total

LEMMA RowsOfTables ==
  ASSUME NEW c, NEW s, NEW a, NEW b, NEW n, NEW m, NEW A, NEW B, Sizes(s, c, a, n, A, b, m, B)
  PROVE  SumFunction([t \in Own(c) |-> Cardinality(s.db[t])]) = Total(a, n, b, m)
<1>1. PICK f : f = [t \in {a, b} |-> Cardinality(s.db[t])]
  OBVIOUS
<1>2. f[a] = n /\ f[b] = m /\ n \in Nat /\ m \in Nat /\ Own(c) = {a, b}
  BY <1>1 DEF Sized, Sizes
<1>3. f \in [{a, b} -> Int]
  BY <1>1, <1>2
<1>4. SumFunction(f) = IF a = b THEN f[b] ELSE f[a] + f[b]
  BY <1>3, SumOfTwo
<1> QED BY <1>1, <1>2, <1>4 DEF Total

\* The work of a candidate, from the sizes of what it stores, probes and hashes.
LEMMA WorkIs ==
  ASSUME NEW c, NEW s, NEW a, NEW b, NEW n, NEW m, NEW A, NEW B, Sizes(s, c, a, n, A, b, m, B),
         NEW probe, NEW P, Sized(JoinInput(c, s.db), probe, P)
  PROVE  /\ Work(s, c).raw_join = Keeping("sensitive_value", probe, P)
         /\ Work(s, c).raw_materialized
              = Total(a, Keeping("sensitive_value", n, A), b, Keeping("sensitive_value", m, B))
         /\ Work(s, c).masked_materialized
              = Total(a, Keeping("masked_value", n, A), b, Keeping("masked_value", m, B))
         /\ Work(s, c).checkpoint_rows = Total(a, n, b, m)
         /\ Work(s, c).join_probe = probe
         /\ Work(s, c).hash_rows = Cardinality(PolicyInput(c, s.db))
         /\ n \in Nat /\ m \in Nat /\ probe \in Nat
<1>1. PICK w : w = Work(s, c)
  OBVIOUS
<1>2. /\ w.raw_join = Cardinality(With(JoinInput(c, s.db), "sensitive_value"))
      /\ w.raw_materialized = Stored(s, c, "sensitive_value")
      /\ w.masked_materialized = Stored(s, c, "masked_value")
      /\ w.checkpoint_rows = SumFunction([t \in Own(c) |-> Cardinality(s.db[t])])
      /\ w.join_probe = Cardinality(JoinInput(c, s.db))
      /\ w.hash_rows = Cardinality(PolicyInput(c, s.db))
  BY <1>1 DEF Work
<1>3. w.raw_join = Keeping("sensitive_value", probe, P) /\ w.join_probe = probe
  BY <1>2 DEF Sized, Keeping
<1>4. \A column : Stored(s, c, column) = Total(a, Keeping(column, n, A), b, Keeping(column, m, B))
  BY StoredIs
<1>5. SumFunction([t \in Own(c) |-> Cardinality(s.db[t])]) = Total(a, n, b, m)
  BY RowsOfTables
<1>7. n \in Nat /\ m \in Nat /\ probe \in Nat
  BY DEF Sized, Sizes
<1> QED BY <1>1, <1>2, <1>3, <1>4, <1>5, <1>7

LEMMA PolicyFirstWork ==
  ASSUME UnitKinds, UnitData, unit.kind = "pipeline", NEW s, Consistent("policy_first", s.db)
  PROVE  LET w == Work(s, "policy_first")
         IN  /\ w.raw_join = 0 /\ w.raw_materialized = 0
             /\ w.masked_materialized = Cardinality(Policed)
             /\ w.checkpoint_rows = Cardinality(Policed)
             /\ w.join_probe = Cardinality(Both) /\ w.hash_rows = Cardinality(unit.events)
<1>1. PICK c, db : c = "policy_first" /\ db = s.db
  OBVIOUS
<1>2. c \in UnitCandidates
  BY <1>1 DEF UnitCandidates, CandidateNames
<1>3. Own(c) = {"pipeline_checkpoint", "pipeline_checkpoint"}
  BY <1>1, <1>2, OwnIs
<1>4. db["pipeline_checkpoint"] = Rows("policy_first", "pipeline_checkpoint", db)
  BY <1>1, <1>3 DEF Consistent
<1>5. PICK kept : kept = Kept(c)
  OBVIOUS
<1>6. kept = {"row_id", "join_key", "query_bucket", "masked_value"}
  BY <1>1, <1>5 DEF Kept
<1>7. /\ db["pipeline_checkpoint"] = {EventRow(e, kept) : e \in Policed}
      /\ PolicyInput(c, db) = unit.events
      /\ JoinInput(c, db) = {EventRow(e, kept) : e \in Both}
  BY <1>1, <1>4, <1>5, PolicyFirstTables
<1>8. "row_id" \in kept /\ "masked_value" \in kept /\ "sensitive_value" \notin kept
  BY <1>6
<1>9. Policed \in SUBSET unit.events /\ Both \in SUBSET unit.events
  BY Selections
<1>10. Sized(db["pipeline_checkpoint"], Cardinality(Policed), kept)
  BY <1>7, <1>8, <1>9, EventRowsCount
<1>11. Sized(JoinInput(c, db), Cardinality(Both), kept)
  BY <1>7, <1>8, <1>9, EventRowsCount
<1>12. PICK n, probe : n = Cardinality(Policed) /\ probe = Cardinality(Both)
  OBVIOUS
<1>13. /\ Work(s, c).raw_join = 0 /\ Work(s, c).raw_materialized = 0
       /\ Work(s, c).masked_materialized = n /\ Work(s, c).checkpoint_rows = n
       /\ Work(s, c).join_probe = probe /\ Work(s, c).hash_rows = Cardinality(PolicyInput(c, db))
  <2>1. /\ Sizes(s, c, "pipeline_checkpoint", n, kept, "pipeline_checkpoint", n, kept)
        /\ Sized(JoinInput(c, s.db), probe, kept)
    BY <1>1, <1>3, <1>10, <1>11, <1>12 DEF Sizes
  <2>2. /\ Work(s, c).raw_join = Keeping("sensitive_value", probe, kept)
        /\ Work(s, c).raw_materialized = Keeping("sensitive_value", n, kept)
        /\ Work(s, c).masked_materialized = Keeping("masked_value", n, kept)
        /\ Work(s, c).checkpoint_rows = n /\ Work(s, c).join_probe = probe
        /\ Work(s, c).hash_rows = Cardinality(PolicyInput(c, s.db))
    BY <2>1, WorkIs DEF Total
  <2> QED BY <1>1, <1>8, <2>2 DEF Keeping
<1> QED BY <1>1, <1>7, <1>12, <1>13

LEMMA QueryFirstWork ==
  ASSUME UnitKinds, UnitData, unit.kind = "pipeline", NEW s, Consistent("query_first", s.db)
  PROVE  LET w == Work(s, "query_first")
         IN  /\ w.raw_join = 0 /\ w.raw_materialized = Cardinality(Queried)
             /\ w.masked_materialized = Cardinality(Both)
             /\ w.checkpoint_rows = Cardinality(Queried) + Cardinality(Both)
             /\ w.join_probe = Cardinality(Both) /\ w.hash_rows = Cardinality(Queried)
<1>1. PICK c, db : c = "query_first" /\ db = s.db
  OBVIOUS
<1>2. c \in UnitCandidates
  BY <1>1 DEF UnitCandidates, CandidateNames
<1>3. Own(c) = {"raw_query_checkpoint", "pipeline_checkpoint"}
  BY <1>1, <1>2, OwnIs
<1>4. /\ db["raw_query_checkpoint"] = Rows("query_first", "raw_query_checkpoint", db)
      /\ db["pipeline_checkpoint"] = Rows("query_first", "pipeline_checkpoint", db)
  BY <1>1, <1>3 DEF Consistent
<1>5. PICK kept, raw : kept = Kept(c) /\ raw = RawColumns
  OBVIOUS
<1>6. kept = {"row_id", "join_key", "masked_value"} /\ raw = {"row_id", "join_key", "sensitive_value"}
  BY <1>1, <1>5 DEF Kept, RawColumns
<1>7. /\ db["raw_query_checkpoint"] = {EventRow(e, raw) : e \in Queried}
      /\ db["pipeline_checkpoint"] = {EventRow(e, kept) : e \in Both}
      /\ PolicyInput(c, db) = db["raw_query_checkpoint"]
      /\ JoinInput(c, db) = db["pipeline_checkpoint"]
  BY <1>1, <1>4, <1>5, QueryFirstTables
<1>8. /\ "row_id" \in kept /\ "masked_value" \in kept /\ "sensitive_value" \notin kept
      /\ "row_id" \in raw /\ "masked_value" \notin raw /\ "sensitive_value" \in raw
  BY <1>6
<1>9. Queried \in SUBSET unit.events /\ Both \in SUBSET unit.events
  BY Selections
<1>10. Sized(db["pipeline_checkpoint"], Cardinality(Both), kept)
  BY <1>7, <1>8, <1>9, EventRowsCount
<1>11. Sized(db["raw_query_checkpoint"], Cardinality(Queried), raw)
  BY <1>7, <1>8, <1>9, EventRowsCount
<1>12. PICK n, m : n = Cardinality(Queried) /\ m = Cardinality(Both)
  OBVIOUS
<1>13. /\ Work(s, c).raw_join = 0 /\ Work(s, c).raw_materialized = n
       /\ Work(s, c).masked_materialized = m /\ Work(s, c).checkpoint_rows = n + m
       /\ Work(s, c).join_probe = m /\ Work(s, c).hash_rows = Cardinality(PolicyInput(c, db))
  <2>1. /\ Sizes(s, c, "raw_query_checkpoint", n, raw, "pipeline_checkpoint", m, kept)
        /\ Sized(JoinInput(c, s.db), m, kept)
    BY <1>1, <1>3, <1>7, <1>10, <1>11, <1>12 DEF Sizes
  <2>2. "raw_query_checkpoint" # "pipeline_checkpoint"
    OBVIOUS
  <2>3. /\ Work(s, c).raw_join = Keeping("sensitive_value", m, kept)
        /\ Work(s, c).raw_materialized
             = Total("raw_query_checkpoint", Keeping("sensitive_value", n, raw),
                     "pipeline_checkpoint", Keeping("sensitive_value", m, kept))
        /\ Work(s, c).masked_materialized
             = Total("raw_query_checkpoint", Keeping("masked_value", n, raw),
                     "pipeline_checkpoint", Keeping("masked_value", m, kept))
        /\ Work(s, c).checkpoint_rows = Total("raw_query_checkpoint", n, "pipeline_checkpoint", m)
        /\ Work(s, c).join_probe = m
        /\ Work(s, c).hash_rows = Cardinality(PolicyInput(c, s.db))
        /\ n \in Nat /\ m \in Nat
    BY <2>1, WorkIs
  <2> QED BY <1>1, <1>8, <2>2, <2>3 DEF Keeping, Total
<1>14. Cardinality(PolicyInput(c, db)) = n
  BY <1>7, <1>11, <1>12 DEF Sized
<1> QED BY <1>1, <1>12, <1>13, <1>14

LEMMA JoinFirstWork ==
  ASSUME UnitKinds, UnitData, UniqueKeys, unit.kind = "pipeline", NEW s, Consistent("join_first", s.db)
  PROVE  LET w == Work(s, "join_first")
         IN  /\ w.raw_join = Cardinality(Queried)
             /\ w.raw_materialized = Cardinality(Queried \cap Joining)
             /\ w.masked_materialized = Cardinality(Both \cap Joining)
             /\ w.checkpoint_rows = Cardinality(Queried \cap Joining) + Cardinality(Both \cap Joining)
             /\ w.join_probe = Cardinality(Queried)
             /\ w.hash_rows = Cardinality(Queried \cap Joining)
<1>1. PICK c, db : c = "join_first" /\ db = s.db
  OBVIOUS
<1>2. c \in UnitCandidates
  BY <1>1 DEF UnitCandidates, CandidateNames
<1>3. Own(c) = {"raw_join_checkpoint", "pipeline_checkpoint"}
  BY <1>1, <1>2, OwnIs
<1>4. /\ db["raw_join_checkpoint"] = Rows("join_first", "raw_join_checkpoint", db)
      /\ db["pipeline_checkpoint"] = Rows("join_first", "pipeline_checkpoint", db)
  BY <1>1, <1>3 DEF Consistent
<1>5. PICK kept, raw : kept = OutputColumns /\ raw = RawJoinedColumns
  OBVIOUS
<1>7. /\ db["raw_join_checkpoint"] = {JoinedRow(x, raw) : x \in Pairs(Queried)}
      /\ db["pipeline_checkpoint"] = {JoinedRow(x, kept) : x \in Pairs(Both)}
      /\ PolicyInput(c, db) = db["raw_join_checkpoint"]
      /\ JoinInput(c, db) = Queried
  BY <1>1, <1>4, <1>5, JoinFirstTables
<1>8. /\ "row_id" \in kept /\ "masked_value" \in kept /\ "sensitive_value" \notin kept
      /\ "row_id" \in raw /\ "masked_value" \notin raw /\ "sensitive_value" \in raw
  BY <1>5 DEF OutputColumns, RawJoinedColumns
<1>9. Queried \in SUBSET unit.events /\ Both \in SUBSET unit.events
  BY Selections
<1>10. Sized(db["pipeline_checkpoint"], Cardinality(Both \cap Joining), kept)
  BY <1>7, <1>8, <1>9, JoinedRowsCount
<1>11. Sized(db["raw_join_checkpoint"], Cardinality(Queried \cap Joining), raw)
  BY <1>7, <1>8, <1>9, JoinedRowsCount
<1>12. Sized(Queried, Cardinality(Queried), EventColumns)
  <2>1. Queried = {EventRow(e, EventColumns) : e \in Queried}
    BY <1>9, EventsAreRows
  <2>2. "row_id" \in EventColumns
    BY DEF EventColumns
  <2> QED BY <1>9, <2>1, <2>2, EventRowsCount
<1>13. PICK n, m, probe : /\ n = Cardinality(Queried \cap Joining) /\ m = Cardinality(Both \cap Joining)
                          /\ probe = Cardinality(Queried)
  OBVIOUS
<1>14. "sensitive_value" \in EventColumns
  BY DEF EventColumns
<1>15. /\ Work(s, c).raw_join = probe /\ Work(s, c).raw_materialized = n
       /\ Work(s, c).masked_materialized = m /\ Work(s, c).checkpoint_rows = n + m
       /\ Work(s, c).join_probe = probe /\ Work(s, c).hash_rows = Cardinality(PolicyInput(c, db))
  <2>1. /\ Sizes(s, c, "raw_join_checkpoint", n, raw, "pipeline_checkpoint", m, kept)
        /\ Sized(JoinInput(c, s.db), probe, EventColumns)
    BY <1>1, <1>3, <1>7, <1>10, <1>11, <1>12, <1>13 DEF Sizes
  <2>2. "raw_join_checkpoint" # "pipeline_checkpoint"
    OBVIOUS
  <2>3. /\ Work(s, c).raw_join = Keeping("sensitive_value", probe, EventColumns)
        /\ Work(s, c).raw_materialized
             = Total("raw_join_checkpoint", Keeping("sensitive_value", n, raw),
                     "pipeline_checkpoint", Keeping("sensitive_value", m, kept))
        /\ Work(s, c).masked_materialized
             = Total("raw_join_checkpoint", Keeping("masked_value", n, raw),
                     "pipeline_checkpoint", Keeping("masked_value", m, kept))
        /\ Work(s, c).checkpoint_rows = Total("raw_join_checkpoint", n, "pipeline_checkpoint", m)
        /\ Work(s, c).join_probe = probe
        /\ Work(s, c).hash_rows = Cardinality(PolicyInput(c, s.db))
        /\ n \in Nat /\ m \in Nat
    BY <2>1, WorkIs
  <2> QED BY <1>1, <1>8, <1>14, <2>2, <2>3 DEF Keeping, Total
<1>16. Cardinality(PolicyInput(c, db)) = n
  BY <1>7, <1>11, <1>13 DEF Sized
<1> QED BY <1>1, <1>13, <1>15, <1>16

LEMMA CheckpointRunWork ==
  ASSUME UnitKinds, UnitData, unit.kind = "checkpoint", NEW c \in {"policy_first", "query_first"},
         NEW s, Consistent(c, s.db)
  PROVE  LET w == Work(s, c)
             rows == Cardinality(CheckpointEvents(c))
         IN  /\ w.raw_materialized = IF c = "policy_first" THEN 0 ELSE rows
             /\ w.masked_materialized = 0 /\ w.checkpoint_rows = rows
             /\ w.hash_rows = IF c = "policy_first" THEN Cardinality(unit.events) ELSE rows
<1>1. PICK db : db = s.db
  OBVIOUS
<1>2. c \in UnitCandidates
  BY DEF UnitCandidates
<1>3. Own(c) = {"governance_checkpoint", "governance_checkpoint"}
  BY <1>2, OwnIs
<1>4. db["governance_checkpoint"] = Rows(c, "governance_checkpoint", db)
  BY <1>1, <1>3 DEF Consistent
<1>5. PICK kept, T : kept = CheckpointColumns(c) /\ T = CheckpointEvents(c)
  OBVIOUS
<1>6. /\ "row_id" \in kept /\ "masked_value" \notin kept
      /\ ("sensitive_value" \in kept) = (c # "policy_first")
      /\ T \in SUBSET unit.events
  BY <1>5, Selections DEF CheckpointColumns, CheckpointEvents, RawColumns
<1>7. /\ db["governance_checkpoint"] = {EventRow(e, kept) : e \in T}
      /\ PolicyInput(c, db) = IF c = "policy_first" THEN unit.events ELSE db["governance_checkpoint"]
      /\ JoinInput(c, db) = db["governance_checkpoint"]
  BY <1>4, <1>5, CheckpointTables
<1>8. Sized(db["governance_checkpoint"], Cardinality(T), kept)
  BY <1>6, <1>7, EventRowsCount
<1>9. PICK n : n = Cardinality(T)
  OBVIOUS
<1>10. /\ Work(s, c).raw_materialized = (IF "sensitive_value" \in kept THEN n ELSE 0)
       /\ Work(s, c).masked_materialized = 0 /\ Work(s, c).checkpoint_rows = n
       /\ Work(s, c).hash_rows = Cardinality(PolicyInput(c, db))
  <2>1. /\ Sizes(s, c, "governance_checkpoint", n, kept, "governance_checkpoint", n, kept)
        /\ Sized(JoinInput(c, s.db), n, kept)
    BY <1>1, <1>3, <1>7, <1>8, <1>9 DEF Sizes
  <2>2. /\ Work(s, c).raw_materialized = Keeping("sensitive_value", n, kept)
        /\ Work(s, c).masked_materialized = Keeping("masked_value", n, kept)
        /\ Work(s, c).checkpoint_rows = n
        /\ Work(s, c).hash_rows = Cardinality(PolicyInput(c, s.db))
    BY <2>1, WorkIs DEF Total
  <2> QED BY <1>1, <1>6, <2>2 DEF Keeping
<1>11. Cardinality(PolicyInput(c, db)) = IF c = "policy_first" THEN Cardinality(unit.events) ELSE n
  BY <1>7, <1>8, <1>9 DEF Sized
<1> QED BY <1>5, <1>6, <1>9, <1>10, <1>11
-----------------------------------------------------------------------------
(* The profiles the planner decided from.                                  *)

LEMMA PipelineProfileOf ==
  ASSUME NEW s, NEW c
  PROVE  /\ c = "policy_first" => (CHOOSE x \in PipelineProfiles(s) : x.id = c) = PolicyFirst(s)
         /\ c = "query_first" => (CHOOSE x \in PipelineProfiles(s) : x.id = c) = QueryFirst(s)
         /\ c = "join_first" => (CHOOSE x \in PipelineProfiles(s) : x.id = c) = JoinFirst(s)
<1>1. PICK fused, policy, query, join : /\ fused = Fused(s) /\ policy = PolicyFirst(s)
                                        /\ query = QueryFirst(s) /\ join = JoinFirst(s)
  OBVIOUS
<1>2. /\ fused.id = "fused" /\ policy.id = "policy_first"
      /\ query.id = "query_first" /\ join.id = "join_first"
  BY <1>1 DEF Fused, PolicyFirst, QueryFirst, JoinFirst, Profile
<1>3. PipelineProfiles(s) = {fused, policy, query, join}
  BY <1>1 DEF PipelineProfiles
<1>4. PICK p : p = CHOOSE x \in {fused, policy, query, join} : x.id = c
  OBVIOUS
<1>5. c = "policy_first" => p = policy
  BY <1>2, <1>4
<1>6. c = "query_first" => p = query
  BY <1>2, <1>4
<1>7. c = "join_first" => p = join
  BY <1>2, <1>4
<1> QED BY <1>1, <1>3, <1>4, <1>5, <1>6, <1>7

LEMMA PipelineDeclares ==
  ASSUME NEW s
  PROVE  /\ LET p == PolicyFirst(s)
            IN  /\ p.exposure.raw_join = 0 /\ p.exposure.raw_materialized = 0
                /\ p.exposure.masked_materialized = s.policy /\ p.work.checkpoint_rows = s.policy
                /\ p.work.join_probe = s.governed /\ p.work.hash_rows = s.input
         /\ LET p == QueryFirst(s)
            IN  /\ p.exposure.raw_join = 0 /\ p.exposure.raw_materialized = s.query
                /\ p.exposure.masked_materialized = s.governed
                /\ p.work.checkpoint_rows = s.query + s.governed
                /\ p.work.join_probe = s.governed /\ p.work.hash_rows = s.query
         /\ LET p == JoinFirst(s)
            IN  /\ p.exposure.raw_join = s.query /\ p.exposure.raw_materialized = s.queryJoin
                /\ p.exposure.masked_materialized = s.result
                /\ p.work.checkpoint_rows = s.queryJoin + s.result
                /\ p.work.join_probe = s.query /\ p.work.hash_rows = s.queryJoin
<1>1. /\ PolicyFirst(s).exposure.raw_join = 0 /\ PolicyFirst(s).exposure.raw_materialized = 0
      /\ PolicyFirst(s).exposure.masked_materialized = s.policy
      /\ PolicyFirst(s).work.checkpoint_rows = s.policy
      /\ PolicyFirst(s).work.join_probe = s.governed /\ PolicyFirst(s).work.hash_rows = s.input
  <2>1. PICK payload : payload = s.policy * Width.masked
    OBVIOUS
  <2>2. PICK work : work = Metrics(s, s.policy, payload, s.governed, s.policy, s.input, 1)
    OBVIOUS
  <2>3. /\ work.checkpoint_rows = s.policy /\ work.join_probe = s.governed
        /\ work.hash_rows = s.input
    BY <2>2 DEF Metrics
  <2>4. PICK exposure : exposure = Exposure(0, 0, s.policy, TRUE)
    OBVIOUS
  <2>5. /\ exposure.raw_join = 0 /\ exposure.raw_materialized = 0
        /\ exposure.masked_materialized = s.policy
    BY <2>4 DEF Exposure
  <2>6. PolicyFirst(s) = [id |-> "policy_first", equivalence |-> "pipeline",
                          exposure |-> exposure, work |-> work]
    BY <2>1, <2>2, <2>4 DEF PolicyFirst, Profile
  <2> QED BY <2>3, <2>5, <2>6
<1>2. /\ QueryFirst(s).exposure.raw_join = 0 /\ QueryFirst(s).exposure.raw_materialized = s.query
      /\ QueryFirst(s).exposure.masked_materialized = s.governed
      /\ QueryFirst(s).work.checkpoint_rows = s.query + s.governed
      /\ QueryFirst(s).work.join_probe = s.governed /\ QueryFirst(s).work.hash_rows = s.query
  <2>1. PICK payload : payload = s.query * (Width.ids + s.width) + s.governed * Width.masked
    OBVIOUS
  <2>2. PICK work : work = Metrics(s, s.query + s.governed, payload, s.governed, s.governed, s.query, 2)
    OBVIOUS
  <2>3. /\ work.checkpoint_rows = s.query + s.governed /\ work.join_probe = s.governed
        /\ work.hash_rows = s.query
    BY <2>2 DEF Metrics
  <2>4. PICK exposure : exposure = Exposure(0, s.query, s.governed, TRUE)
    OBVIOUS
  <2>5. /\ exposure.raw_join = 0 /\ exposure.raw_materialized = s.query
        /\ exposure.masked_materialized = s.governed
    BY <2>4 DEF Exposure
  <2>6. QueryFirst(s) = [id |-> "query_first", equivalence |-> "pipeline",
                         exposure |-> exposure, work |-> work]
    BY <2>1, <2>2, <2>4 DEF QueryFirst, Profile
  <2> QED BY <2>3, <2>5, <2>6
<1>3. /\ JoinFirst(s).exposure.raw_join = s.query /\ JoinFirst(s).exposure.raw_materialized = s.queryJoin
      /\ JoinFirst(s).exposure.masked_materialized = s.result
      /\ JoinFirst(s).work.checkpoint_rows = s.queryJoin + s.result
      /\ JoinFirst(s).work.join_probe = s.query /\ JoinFirst(s).work.hash_rows = s.queryJoin
  <2>1. PICK payload : payload = s.queryJoin * (Width.joined + s.width) + s.result * Width.masked
    OBVIOUS
  <2>2. PICK work : work = Metrics(s, s.queryJoin + s.result, payload, s.query, s.result, s.queryJoin, 2)
    OBVIOUS
  <2>3. /\ work.checkpoint_rows = s.queryJoin + s.result /\ work.join_probe = s.query
        /\ work.hash_rows = s.queryJoin
    BY <2>2 DEF Metrics
  <2>4. PICK exposure : exposure = Exposure(s.query, s.queryJoin, s.result, TRUE)
    OBVIOUS
  <2>5. /\ exposure.raw_join = s.query /\ exposure.raw_materialized = s.queryJoin
        /\ exposure.masked_materialized = s.result
    BY <2>4 DEF Exposure
  <2>6. JoinFirst(s) = [id |-> "join_first", equivalence |-> "pipeline",
                        exposure |-> exposure, work |-> work]
    BY <2>1, <2>2, <2>4 DEF JoinFirst, Profile
  <2> QED BY <2>3, <2>5, <2>6
<1> QED BY <1>1, <1>2, <1>3

LEMMA CheckpointProfileOf ==
  ASSUME NEW s, NEW c \in {"policy_first", "query_first"}
  PROVE  LET p == CHOOSE x \in CheckpointProfiles(s) : x.id = c
         IN  /\ p.exposure.raw_materialized = IF c = "policy_first" THEN 0 ELSE s.query
             /\ p.exposure.masked_materialized = 0
             /\ p.work.checkpoint_rows = IF c = "policy_first" THEN s.policy ELSE s.query
             /\ p.work.hash_rows = IF c = "policy_first" THEN s.input ELSE s.query
             /\ "join_probe" \notin DOMAIN p.work
<1>1. PICK none, narrow, raw :
        /\ none = Profile("fused", "checkpoint", Exposure(0, 0, 0, FALSE),
                          CheckpointWork(s, 0, 0, s.input, 0))
        /\ narrow = Profile("policy_first", "checkpoint", Exposure(0, 0, 0, TRUE),
                            CheckpointWork(s, s.policy * 24, s.policy, s.input, 1))
        /\ raw = Profile("query_first", "checkpoint", Exposure(0, s.query, 0, TRUE),
                         CheckpointWork(s, s.query * (Width.ids + s.width), s.query, s.query, 1))
  OBVIOUS
<1>2. CheckpointProfiles(s) = {none, narrow, raw}
  BY <1>1 DEF CheckpointProfiles
<1>3. none.id = "fused" /\ narrow.id = "policy_first" /\ raw.id = "query_first"
  BY <1>1 DEF Profile
<1>4. PICK p : p = CHOOSE x \in {none, narrow, raw} : x.id = c
  OBVIOUS
<1>5. p = IF c = "policy_first" THEN narrow ELSE raw
  BY <1>3, <1>4
<1>6. /\ narrow.exposure.raw_materialized = 0 /\ narrow.exposure.masked_materialized = 0
      /\ narrow.work.checkpoint_rows = s.policy /\ narrow.work.hash_rows = s.input
      /\ "join_probe" \notin DOMAIN narrow.work
  <2>1. PICK payload : payload = s.policy * 24
    OBVIOUS
  <2>2. PICK work : work = CheckpointWork(s, payload, s.policy, s.input, 1)
    OBVIOUS
  <2>3. work.checkpoint_rows = s.policy /\ work.hash_rows = s.input /\ "join_probe" \notin DOMAIN work
    BY <2>2 DEF CheckpointWork
  <2>4. PICK exposure : exposure = Exposure(0, 0, 0, TRUE)
    OBVIOUS
  <2>5. exposure.raw_materialized = 0 /\ exposure.masked_materialized = 0
    BY <2>4 DEF Exposure
  <2>6. narrow = [id |-> "policy_first", equivalence |-> "checkpoint", exposure |-> exposure, work |-> work]
    BY <1>1, <2>1, <2>2, <2>4 DEF Profile
  <2> QED BY <2>3, <2>5, <2>6
<1>7. /\ raw.exposure.raw_materialized = s.query /\ raw.exposure.masked_materialized = 0
      /\ raw.work.checkpoint_rows = s.query /\ raw.work.hash_rows = s.query
      /\ "join_probe" \notin DOMAIN raw.work
  <2>1. PICK payload : payload = s.query * (Width.ids + s.width)
    OBVIOUS
  <2>2. PICK work : work = CheckpointWork(s, payload, s.query, s.query, 1)
    OBVIOUS
  <2>3. work.checkpoint_rows = s.query /\ work.hash_rows = s.query /\ "join_probe" \notin DOMAIN work
    BY <2>2 DEF CheckpointWork
  <2>4. PICK exposure : exposure = Exposure(0, s.query, 0, TRUE)
    OBVIOUS
  <2>5. exposure.raw_materialized = s.query /\ exposure.masked_materialized = 0
    BY <2>4 DEF Exposure
  <2>6. raw = [id |-> "query_first", equivalence |-> "checkpoint", exposure |-> exposure, work |-> work]
    BY <1>1, <2>1, <2>2, <2>4 DEF Profile
  <2> QED BY <2>3, <2>5, <2>6
<1> QED BY <1>2, <1>4, <1>5, <1>6, <1>7

LEMMA EvidentIsDeclared ==
  ASSUME UnitKinds, UnitData, UniqueKeys, NEW e, Evident(e)
  PROVE  LET s == Statistics(unit)
             profiles == IF unit.kind = "pipeline" THEN PipelineProfiles(s) ELSE CheckpointProfiles(s)
             p == CHOOSE x \in profiles : x.id = e.candidate
         IN  /\ \A m \in {"raw_materialized", "masked_materialized"} : e.work[m] = p.exposure[m]
             /\ unit.kind = "pipeline" => e.work.raw_join = p.exposure.raw_join
             /\ \A m \in {"checkpoint_rows", "join_probe", "hash_rows"} :
                  m \in DOMAIN p.work => e.work[m] = p.work[m]
<1>1. PICK c, w, st : c = e.candidate /\ w = e.work /\ st = Statistics(unit)
  OBVIOUS
<1>2. PICK s : Consistent(c, s.db) /\ w = Work(s, c)
  BY <1>1 DEF Evident
<1>3. c \in UnitCandidates
  BY <1>1 DEF Evident
<1>4. /\ st.input = Cardinality(unit.events) /\ st.policy = Cardinality(Policed)
      /\ st.query = Cardinality(Queried) /\ st.governed = Cardinality(Both)
      /\ st.queryJoin = Cardinality(Queried \cap Joining)
      /\ st.result = Cardinality(Both \cap Joining)
  BY <1>1, StatisticsAre
<1>5. CASE unit.kind = "pipeline"
  <2>1. PICK p : p = CHOOSE x \in PipelineProfiles(st) : x.id = c
    OBVIOUS
  <2>2. /\ w.raw_join = p.exposure.raw_join /\ w.raw_materialized = p.exposure.raw_materialized
        /\ w.masked_materialized = p.exposure.masked_materialized
        /\ w.checkpoint_rows = p.work.checkpoint_rows /\ w.join_probe = p.work.join_probe
        /\ w.hash_rows = p.work.hash_rows
    <3>1. CASE c = "policy_first"
      <4>1. p = PolicyFirst(st)
        BY <2>1, <3>1, PipelineProfileOf
      <4>2. /\ w.raw_join = 0 /\ w.raw_materialized = 0
            /\ w.masked_materialized = Cardinality(Policed) /\ w.checkpoint_rows = Cardinality(Policed)
            /\ w.join_probe = Cardinality(Both) /\ w.hash_rows = Cardinality(unit.events)
        BY <1>2, <1>5, <3>1, PolicyFirstWork
      <4> QED BY <1>4, <4>1, <4>2, PipelineDeclares
    <3>2. CASE c = "query_first"
      <4>1. p = QueryFirst(st)
        BY <2>1, <3>2, PipelineProfileOf
      <4>2. /\ w.raw_join = 0 /\ w.raw_materialized = Cardinality(Queried)
            /\ w.masked_materialized = Cardinality(Both)
            /\ w.checkpoint_rows = Cardinality(Queried) + Cardinality(Both)
            /\ w.join_probe = Cardinality(Both) /\ w.hash_rows = Cardinality(Queried)
        BY <1>2, <1>5, <3>2, QueryFirstWork
      <4> QED BY <1>4, <4>1, <4>2, PipelineDeclares
    <3>3. CASE c = "join_first"
      <4>1. p = JoinFirst(st)
        BY <2>1, <3>3, PipelineProfileOf
      <4>2. /\ w.raw_join = Cardinality(Queried)
            /\ w.raw_materialized = Cardinality(Queried \cap Joining)
            /\ w.masked_materialized = Cardinality(Both \cap Joining)
            /\ w.checkpoint_rows = Cardinality(Queried \cap Joining) + Cardinality(Both \cap Joining)
            /\ w.join_probe = Cardinality(Queried) /\ w.hash_rows = Cardinality(Queried \cap Joining)
        BY <1>2, <1>5, <3>3, JoinFirstWork
      <4> QED BY <1>4, <4>1, <4>2, PipelineDeclares
    <3> QED BY <1>3, <1>5, <3>1, <3>2, <3>3 DEF UnitCandidates, CandidateNames
  <2> QED BY <1>1, <1>5, <2>1, <2>2
<1>6. CASE unit.kind = "checkpoint"
  <2>1. PICK p : p = CHOOSE x \in CheckpointProfiles(st) : x.id = c
    OBVIOUS
  <2>2. c \in {"policy_first", "query_first"}
    BY <1>3, <1>6 DEF UnitCandidates
  <2>3. /\ p.exposure.raw_materialized = (IF c = "policy_first" THEN 0 ELSE st.query)
        /\ p.exposure.masked_materialized = 0
        /\ p.work.checkpoint_rows = (IF c = "policy_first" THEN st.policy ELSE st.query)
        /\ p.work.hash_rows = (IF c = "policy_first" THEN st.input ELSE st.query)
        /\ "join_probe" \notin DOMAIN p.work
    BY <2>1, <2>2, CheckpointProfileOf
  <2>4. PICK rows : rows = Cardinality(CheckpointEvents(c))
    OBVIOUS
  <2>5. rows = IF c = "policy_first" THEN st.policy ELSE st.query
    BY <1>4, <2>4 DEF CheckpointEvents
  <2>6. /\ w.raw_materialized = (IF c = "policy_first" THEN 0 ELSE rows)
        /\ w.masked_materialized = 0 /\ w.checkpoint_rows = rows
        /\ w.hash_rows = (IF c = "policy_first" THEN st.input ELSE rows)
    BY <1>2, <1>4, <1>6, <2>2, <2>4, CheckpointRunWork
  <2>7. /\ w.raw_materialized = p.exposure.raw_materialized
        /\ w.masked_materialized = p.exposure.masked_materialized
        /\ w.checkpoint_rows = p.work.checkpoint_rows
        /\ w.hash_rows = p.work.hash_rows
    BY <2>3, <2>5, <2>6
  <2> QED BY <1>1, <1>6, <2>1, <2>3, <2>7
<1> QED BY <1>5, <1>6 DEF UnitKinds

LEMMA WorkFromInvariant == MeasuringInv => WorkAsDeclared
<1> SUFFICES ASSUME MeasuringInv, NEW e \in ToSet(block), UniqueKeys
             PROVE  LET s == Statistics(unit)
                        profiles == IF unit.kind = "pipeline" THEN PipelineProfiles(s)
                                    ELSE CheckpointProfiles(s)
                        p == CHOOSE x \in profiles : x.id = e.candidate
                    IN  /\ \A m \in {"raw_materialized", "masked_materialized"} :
                             e.work[m] = p.exposure[m]
                        /\ unit.kind = "pipeline" => e.work.raw_join = p.exposure.raw_join
                        /\ \A m \in {"checkpoint_rows", "join_probe", "hash_rows"} :
                             m \in DOMAIN p.work => e.work[m] = p.work[m]
  BY DEF WorkAsDeclared
<1>1. Evident(e) /\ UnitKinds /\ UnitData
  BY DEF MeasuringInv, UnitInv
<1> QED BY <1>1, EvidentIsDeclared

(* Whatever the data with unique keys: the rows a candidate materializes   *)
(* raw or masked, joins raw, writes, probes with and hashes are as many as *)
(* the profile says that the planner was given for it, which is computed   *)
(* from counts of the events alone.                                        *)
THEOREM ExecutionDoesWhatWasDeclared == UnitSpec => []WorkAsDeclared
BY MeasuringStarts, MeasuringSteps, WorkFromInvariant, PTL DEF UnitSpec
=============================================================================
