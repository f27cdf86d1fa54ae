---------------------------- MODULE CandidateRanking ----------------------------
(***************************************************************************)
(* The selectors that price the legal candidates: src/trustaero/optimizer/ *)
(* governed_pipeline_cost.py, governed_checkpoint.py, governed_checkpoint_ *)
(* uncertainty.py, adaptive_checkpoint.py and execution_aware.py.          *)
(* Governance comes first in each of them; a model then prices what is     *)
(* left, and outside the range it was fitted on it is not asked.           *)
(*                                                                         *)
(* Rows are counted in hundreds, tie fractions in percent, costs in whole  *)
(* units.  A model is [intercept, rates, tie, preferred]; an analytic one  *)
(* has bounds (a low and a high value for every rate) and an order of      *)
(* preference as well.                                                     *)
(***************************************************************************)
EXTENDS CandidateSpaces, Integers, Sequences, FiniteSetsExt

Lowest(values) == CHOOSE v \in values : \A w \in values : v <= w

\* The order of the full candidate names, the last tie-break of every choice.
Alphabetical == [fused |-> 1, join_first |-> 2, policy_first |-> 3, query_first |-> 4,
                 early |-> 5, late |-> 6, other |-> 7]

Cheapest(cost, among) ==
  CHOOSE c \in among : \A d \in among :
    cost[c] < cost[d] \/ (cost[c] = cost[d] /\ Alphabetical[c] <= Alphabetical[d])

\* The candidates within the tie fraction of the cheapest one.
Equivalent(cost, tie) ==
  {c \in DOMAIN cost : 100 * cost[c] <= Lowest({cost[d] : d \in DOMAIN cost}) * (100 + tie)}

\* Mutant of ByModel: of the equivalent candidates the first by name.
ByName(cost, m) ==
  IF m.preferred \in Equivalent(cost, m.tie) THEN m.preferred
  ELSE CHOOSE c \in Equivalent(cost, m.tie) :
         \A d \in Equivalent(cost, m.tie) : Alphabetical[c] <= Alphabetical[d]

ByModel(cost, m) ==
  IF m.preferred \in Equivalent(cost, m.tie) THEN m.preferred
  ELSE Cheapest(cost, Equivalent(cost, m.tie))

\* Work a model has no rate for costs nothing, and a rate needs no work.
Predicted(work, m) ==
  m.intercept + MapThenSumSet(LAMBDA n : m.rates[n] * work[n], DOMAIN m.rates \cap DOMAIN work)

ValidModel(m) ==
  /\ m.intercept \in Nat /\ m.tie \in 1 .. 99
  /\ IsFiniteSet(DOMAIN m.rates) /\ \A n \in DOMAIN m.rates : m.rates[n] \in Nat

Choice(selected, reason, legal, cost) ==
  [selected |-> selected, reason |-> reason, legal |-> legal, cost |-> cost]

Unpriced == <<>>

------------------------------------------------------------------------------
\* The pipeline: three orders of policy, query and join, and the fused plan.

FrozenSupport ==
  [rows |-> <<500, 1200>>, width |-> <<128, 1024>>,
   policy |-> <<100, 700>>, query |-> <<500, 900>>, match |-> <<500, 900>>]

\* How far, in thousandths, a proportion of this many rows may be off.
Tolerance(rows) ==
  IF rows = 0 THEN 0 ELSE Lowest({t \in 0 .. 200 : 2 * rows * t * t >= 76009})

Within(rows, of, range, tolerance) ==
  /\ (range[1] - tolerance) * of <= 1000 * rows
  /\ 1000 * rows <= (range[2] + tolerance) * of

InSupport(s) ==
  /\ s.input \in FrozenSupport.rows[1] .. FrozenSupport.rows[2]
  /\ s.width \in FrozenSupport.width[1] .. FrozenSupport.width[2]
  /\ Within(s.policy, s.input, FrozenSupport.policy, Tolerance(s.input))
  /\ Within(s.query, s.input, FrozenSupport.query, Tolerance(s.input))
  /\ IF s.query = 0 THEN FrozenSupport.match[1] <= 0
     ELSE Within(s.queryJoin, s.query, FrozenSupport.match, Tolerance(s.query))

PipelineOrder == <<"fused", "policy_first", "query_first", "join_first">>

FirstOf(order, among) ==
  order[Lowest({i \in DOMAIN order : order[i] \in among})]

OptimizePipeline(s, policy, m) ==
  LET planning == PlanPipeline(s, policy)
      survivors == planning.nondominated
      cost == [c \in survivors |->
                 Predicted((CHOOSE p \in PipelineProfiles(s) : p.id = c).work, m)]
      fallback == IF planning.selected \in survivors THEN planning.selected
                  ELSE FirstOf(PipelineOrder, survivors)
  IN  IF survivors = {} THEN Choice(None, "no_legal", survivors, Unpriced)
      ELSE IF Cardinality(survivors) = 1
      THEN Choice(FirstOf(PipelineOrder, survivors), "only_legal", survivors, Unpriced)
      ELSE IF ~InSupport(s) THEN Choice(fallback, "out_of_support", survivors, Unpriced)
      ELSE IF ByModel(cost, m) \notin planning.feasible
      THEN Choice(None, "raised", survivors, Unpriced)
      ELSE Choice(ByModel(cost, m), "ranked", survivors, cost)

------------------------------------------------------------------------------
\* Analytic models: every positive work needs a rate, every rate a range.

ValidAnalytic(m) ==
  /\ m.intercept \in Nat /\ m.tie \in 0 .. 99
  /\ IsFiniteSet(DOMAIN m.rates) /\ DOMAIN m.rates # {} /\ DOMAIN m.rates = DOMAIN m.bounds
  /\ \A n \in DOMAIN m.rates :
       {m.rates[n], m.bounds[n][1]} \subseteq Nat /\ m.bounds[n][1] <= m.bounds[n][2]
  /\ m.order \in Seq(DOMAIN Alphabetical) \ {<<>>}
  /\ \A i, j \in DOMAIN m.order : m.order[i] = m.order[j] => i = j

Priceable(work, m) == \A n \in DOMAIN work : work[n] > 0 => n \in DOMAIN m.rates

Calibrated(work, m) ==
  \A n \in DOMAIN work \cap DOMAIN m.rates : work[n] \in m.bounds[n][1] .. m.bounds[n][2]

\* The work of the two checkpoint placements.
CheckpointFeatures(s, c) ==
  IF c = "policy_first"
  THEN [narrow |-> s.policy * 24, rows |-> s.policy, raw |-> 0,
        result |-> s.result, hash |-> s.input * s.width]
  ELSE [narrow |-> 0, rows |-> s.query, raw |-> s.query * (16 + s.width),
        result |-> s.result, hash |-> s.query * s.width]

Placements ==  {"policy_first", "query_first"}

CheckpointExposure(s, c) ==
  Exposure(0, IF c = "policy_first" THEN 0 ELSE s.query, 0, TRUE)

LegalPlacements(s, policy) == {c \in Placements : Feasible(CheckpointExposure(s, c), policy)}

\* Outside the range, and for a tie that is to be safe, it is policy-first.
RankCheckpoint(s, policy, m, strategy) ==
  LET legal == LegalPlacements(s, policy)
      work == [c \in legal |-> CheckpointFeatures(s, c)]
      cost == [c \in legal |-> Predicted(work[c], m)]
      tied == Equivalent(cost, m.tie)
  IN  IF legal = {} THEN Choice(None, "no_legal", legal, Unpriced)
      ELSE IF Cardinality(legal) = 1
      THEN Choice(CHOOSE c \in legal : TRUE, "only_legal", legal, Unpriced)
      ELSE IF \E c \in legal : ~Priceable(work[c], m)
      THEN Choice(None, "raised", legal, Unpriced)
      ELSE IF \E c \in legal : ~Calibrated(work[c], m)
      THEN Choice("policy_first", "out_of_support", legal, cost)
      ELSE IF strategy = "policy_first_fallback" /\ "policy_first" \in tied
      THEN Choice("policy_first", "ranked", legal, cost)
      ELSE Choice(Cheapest(cost, legal), "ranked", legal, cost)

------------------------------------------------------------------------------
\* A guard: query-first only if it is cheaper after the worst error.

ValidGuard(g) ==
  ValidAnalytic(g.base) /\ g.bound \in Nat /\ g.coverage \in 1 .. 99 /\ g.families >= 2

\* Mutant of RankGuarded: the error is taken in query-first's favour.
RankTrusting(s, policy, g) ==
  LET base == RankCheckpoint(s, policy, g.base, "policy_first_fallback")
  IN  IF base.reason # "ranked" THEN base
      ELSE IF base.cost["query_first"] - base.cost["policy_first"] - g.bound < 0
      THEN [base EXCEPT !.selected = "query_first", !.reason = "guarded"]
      ELSE [base EXCEPT !.selected = "policy_first", !.reason = "guarded"]

RankGuarded(s, policy, g) ==
  LET base == RankCheckpoint(s, policy, g.base, "policy_first_fallback")
  IN  IF base.reason # "ranked" THEN base
      ELSE IF base.cost["query_first"] - base.cost["policy_first"] + g.bound < 0
      THEN [base EXCEPT !.selected = "query_first", !.reason = "guarded"]
      ELSE [base EXCEPT !.selected = "policy_first", !.reason = "guarded"]

(* A pilot of paired blocks instead of a model.  interval bounds, in       *)
(* thousandths, the ratio of policy-first's time to query-first's; how it  *)
(* is drawn from the blocks is statistics, so any interval may come.       *)
ChooseAdaptive(s, policy, blocks, interval, config) ==
  LET legal == LegalPlacements(s, policy)
  IN  IF legal = {} THEN Choice(None, "no_legal", legal, Unpriced)
      ELSE IF Cardinality(legal) = 1
      THEN IF blocks # <<>> THEN Choice(None, "raised", legal, Unpriced)
           ELSE Choice(CHOOSE c \in legal : TRUE, "only_legal", legal, Unpriced)
      ELSE IF \/ Len(blocks) < config.minimum
              \/ \E i, j \in DOMAIN blocks : i # j /\ blocks[i] = blocks[j]
      THEN Choice(None, "raised", legal, Unpriced)
      ELSE IF interval[2] * (100 + config.tie) < 100000
      THEN Choice("policy_first", "pilot", legal, Unpriced)
      ELSE IF 100 * interval[1] > 1000 * (100 + config.tie)
      THEN Choice("query_first", "pilot", legal, Unpriced)
      ELSE Choice(IF 100 * s.query < config.threshold * s.input THEN "query_first"
                  ELSE "policy_first", "pilot", legal, Unpriced)

------------------------------------------------------------------------------
(* Candidates described stage by stage.  A stage has rows, the width of    *)
(* its columns and whether a sensitive one among them is "raw", "masked"   *)
(* or there is none ("plain"); modes say how a mask, an aggregate and a    *)
(* sort run; lineage counts rows, edges and bytes; breakers are named.     *)

StageNames == {"scan", "build", "probe", "output", "raw_written", "masked_written",
               "mask", "aggregate", "sort", "result"}

Moded == {"mask", "aggregate", "sort"}

ValidSpec(x) ==
  /\ x.id \in DOMAIN Alphabetical
  /\ \A g \in StageNames :
       /\ {x.stages[g].rows, x.stages[g].width} \subseteq Nat
       /\ x.stages[g].rows > 0 => x.stages[g].width > 0
  /\ \A q \in DOMAIN x.lineage : x.lineage[q] \in Nat
  /\ {x.exposure.raw_join, x.exposure.raw_materialized} \subseteq Nat
  /\ \A g \in Moded : (x.stages[g].rows = 0) = (x.modes[g] = "none")
  /\ (\E g \in {"probe", "output"} : x.stages[g].state = "raw") => x.exposure.raw_join > 0
  /\ x.stages["raw_written"].state = "raw" =>
       x.exposure.raw_materialized >= x.stages["raw_written"].rows
  /\ x.stages["masked_written"].state = "masked" =>
       x.exposure.masked_materialized >= x.stages["masked_written"].rows

\* Whole binary logarithms stand for the comparisons of a sort.
Log2(n) == Lowest({k \in 0 .. 29 : 2 ^ (k + 1) > n})

\* The names of the work: a stage, how it runs, and what is counted.
WorkNames(x) ==
  ({"scan", "result"} \X {"payload"})
    \cup ({"build", "probe", "output"} \X {"rows", "payload"})
    \cup ({"raw_written", "masked_written"} \X {"write", "read"})
    \cup {<<"lineage", q>> : q \in DOMAIN x.lineage}
    \cup {<<n[1], x.modes[n[1]], n[2]>> : n \in
            {p \in {"mask", "aggregate"} \X {"rows", "payload"} : x.stages[p[1]].rows > 0}}
    \cup {<<g, x.modes[g], "comparisons">> : g \in {n \in {"sort"} : x.stages[n].rows > 0}}
    \cup {<<"breaker", b>> : b \in x.breakers}

SpecWork(x) ==
  [n \in WorkNames(x) |->
     IF n[1] = "breaker" THEN 1
     ELSE IF n[1] = "lineage" THEN x.lineage[n[2]]
     ELSE LET stage == x.stages[n[1]]
              rows == stage.rows
          IN  IF n[Len(n)] = "rows" THEN rows
              ELSE IF n[Len(n)] = "comparisons"
              THEN rows * Log2(IF rows < 2 THEN 2 ELSE rows) * stage.width
              ELSE rows * stage.width]

StableChoice(among, m) ==
  IF \E i \in DOMAIN m.order : m.order[i] \in among THEN FirstOf(m.order, among)
  ELSE CHOOSE c \in among : \A d \in among : Alphabetical[c] <= Alphabetical[d]

RankSpecs(specs, policy, m) ==
  LET legal == {x \in specs : Feasible(x.exposure, policy)}
      ids == {x.id : x \in legal}
      work == [c \in ids |-> SpecWork(CHOOSE x \in legal : x.id = c)]
      cost == [c \in ids |-> Predicted(work[c], m)]
  IN  IF specs = {} \/ Cardinality({x.id : x \in specs}) # Cardinality(specs)
      THEN Choice(None, "raised", {}, Unpriced)
      ELSE IF legal = {} THEN Choice(None, "no_legal", ids, Unpriced)
      ELSE IF Cardinality(legal) = 1
      THEN Choice(CHOOSE c \in ids : TRUE, "only_legal", ids, Unpriced)
      ELSE IF \E c \in ids : ~Priceable(work[c], m) THEN Choice(None, "raised", ids, Unpriced)
      ELSE IF \E c \in ids : ~Calibrated(work[c], m)
      THEN Choice(StableChoice(ids, m), "out_of_support", ids, cost)
      ELSE Choice(StableChoice(Equivalent(cost, m.tie), m), "ranked", ids, cost)
=============================================================================
