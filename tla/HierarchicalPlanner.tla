-------------------------- MODULE HierarchicalPlanner --------------------------
(***************************************************************************)
(* The choice of a physical candidate, src/trustaero/optimizer/            *)
(* candidate_feasibility.py and hierarchical_planner.py: candidates the    *)
(* governance policy forbids are removed before any comparison, dominated  *)
(* ones next, and of the rest one is selected only when it is the last or  *)
(* the configured fallback.                                                *)
(*                                                                         *)
(* A profile is [id, equivalence, exposure, work]; exposure counts the     *)
(* rows that reach a join or a checkpoint raw or masked, and says whether  *)
(* the candidate has a governance checkpoint; work names nonnegative       *)
(* quantities.  A policy is [id, joined, materialized, checkpoint]: two    *)
(* limits and a requirement.                                               *)
(***************************************************************************)
EXTENDS Naturals, FiniteSets

CONSTANT None         \* no limit, no fallback, no candidate

ValidPolicy(policy) ==
  {policy.joined, policy.materialized} \subseteq Nat \cup {None} /\ policy.checkpoint \in BOOLEAN

\* A limit of None is no limit; a limit of zero forbids the exposure.
Exceeds(rows, limit) == limit # None /\ rows > limit

Excess(kind, rows, limit) ==
  IF Exceeds(rows, limit) THEN {[exposure |-> kind, observed |-> rows, allowed |-> limit]} ELSE {}

\* The failed constraints of one candidate; its cost is never looked at.
Diagnostics(exposure, policy) ==
  Excess("raw_join", exposure.raw_join, policy.joined)
    \cup Excess("raw_materialization", exposure.raw_materialized, policy.materialized)
    \cup (IF policy.checkpoint /\ ~exposure.checkpoint
          THEN {[exposure |-> "missing_governance_checkpoint", observed |-> 0, allowed |-> 1]}
          ELSE {})

Feasible(exposure, policy) == Diagnostics(exposure, policy) = {}

FeasibleCandidates(profiles, policy) ==
  {p \in profiles : Feasible(p.exposure, policy)}

\* The dimensions of a dominance comparison; the checkpoint is none of them.
Risk(e) == [raw_join |-> e.raw_join, raw_materialized |-> e.raw_materialized,
            masked |-> e.masked_materialized]

NoWorse(f, g) == \A d \in DOMAIN f : f[d] <= g[d]

Better(f, g) == \E d \in DOMAIN f : f[d] < g[d]

(* left is no worse than the equivalent right in every dimension and       *)
(* better in one; other measures or results are never compared.            *)
Dominates(left, right) ==
  /\ left.equivalence = right.equivalence
  /\ DOMAIN left.work = DOMAIN right.work
  /\ NoWorse(left.work, right.work)
  /\ NoWorse(Risk(left.exposure), Risk(right.exposure))
  /\ \/ Better(left.work, right.work)
     \/ Better(Risk(left.exposure), Risk(right.exposure))

Dominators(profile, profiles) ==
  {p \in profiles : p.id # profile.id /\ Dominates(p, profile)}

Nondominated(profiles) == {p \in profiles : Dominators(p, profiles) = {}}

Ids(profiles) == {p.id : p \in profiles}

Decision(status, selected, legal, policy, profiles) ==
  [status |-> status, selected |-> selected, policy |-> policy.id,
   decisions |-> {[candidate |-> p.id, diagnostics |-> Diagnostics(p.exposure, policy)] :
                    p \in profiles},
   feasible |-> Ids(legal), rejected |-> Ids(profiles \ legal),
   nondominated |-> Ids(Nondominated(legal)),
   dominated |-> Ids(legal \ Nondominated(legal))]

\* Mutant of PlanCandidates: the fallback need not be legal.
PlanCandidatesTrusting(profiles, policy, fallback) ==
  LET legal == FeasibleCandidates(profiles, policy)
  IN  IF fallback # None THEN Decision("SELECT", fallback, legal, policy, profiles)
      ELSE Decision("DEFER", None, legal, policy, profiles)

(* The whole decision.  Its digest covers this trace: the id of the policy *)
(* and the limits that were exceeded, not the others.                      *)
PlanCandidates(profiles, policy, fallback) ==
  LET legal == FeasibleCandidates(profiles, policy)
      best == Ids(Nondominated(legal))
  IN  IF legal = {} THEN Decision("REJECT", None, legal, policy, profiles)
      ELSE IF Cardinality(best) = 1
      THEN Decision("SELECT", CHOOSE c \in best : TRUE, legal, policy, profiles)
      ELSE IF fallback # None /\ fallback \in best
      THEN Decision("SELECT", fallback, legal, policy, profiles)
      ELSE Decision("DEFER", None, legal, policy, profiles)
=============================================================================
