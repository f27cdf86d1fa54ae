------------------------------ MODULE FrozenModels ------------------------------
(***************************************************************************)
(* A cost model from its calibration to its use: it is fitted on measured  *)
(* runs, written in two files, bound by digest in a configuration, scored  *)
(* once on runs it has not seen, and asked at run time.  Sources in        *)
(* src/trustaero/experiments: governed_pipeline_cost_calibration.py,       *)
(* execution_aware_calibration.py, governed_pipeline_cost_holdout.py,      *)
(* real_governed_pipeline_transfer.py, policy_stratified_pipeline_         *)
(* holdout.py, governed_checkpoint_optimizer_holdout.py and real_governed_ *)
(* checkpoint_transfer.py.                                                 *)
(*                                                                         *)
(* A digest stands for the content it was taken of.  Regrets are in tenths *)
(* of a percent.  A group of a run is one unit's [scenario, seed,          *)
(* statistics, latency], with the median latency of every candidate.       *)
(***************************************************************************)
EXTENDS CandidateRanking

CONSTANTS
  Models,        \* what a fit may come to under the one configuration
  Runs,          \* measured runs: [status, role, clean, carryover, complete, groups]
  CheckpointRuns,  \* ... of checkpoint units, with a conclusion for every scenario
  Checkpoints,   \* [model, guard, record, intact]: the files of a checkpoint model
  Configurations,  \* the gates of calibrations and evaluations, and which are required
  Regimes,       \* [id, policy, legal, adaptive] of the stratified holdout
  Primary,       \* the regime whose performance is claimed
  Requests       \* [selector, ...]: what a selector is asked at run time

\* The values a constructor accepts; Log2 has no logarithm of more rows than that.
ValidRequest(q) ==
  /\ ValidPolicy(q.policy)
  /\ q.selector \in {"pipeline", "checkpoint", "guarded", "adaptive", "specs"}
  /\ CASE q.selector = "pipeline" -> ValidStatistics(q.statistics)
       [] q.selector \in {"checkpoint", "guarded", "adaptive"} -> ValidCheckpoint(q.statistics)
       [] q.selector = "specs" ->
            /\ ValidAnalytic(q.model) /\ IsFiniteSet(q.specs)
            /\ \A x \in q.specs : ValidSpec(x) /\ x.stages["sort"].rows < 2 ^ 30

Requirements == {"mean", "p95", "carryover", "both", "seeds"}

ASSUME ConfigurationsAssumption ==
  \A config \in Configurations :
    /\ {config.hit, config.mean, config.p95, config.worst, config.selected,
        config.fallback, config.singletons, config.improvement} \subseteq Nat
    /\ config.requires \subseteq Requirements

ASSUME FrozenModelsAssumption ==
  /\ None \notin Nat \cup DOMAIN Alphabetical \cup [model : Models, passed : BOOLEAN]
  /\ \A m \in Models : ValidModel(m)
  /\ \A f \in Checkpoints : ValidAnalytic(f.model) /\ ValidGuard(f.guard)
  /\ \A r \in Regimes : ValidPolicy(r.policy)
  /\ \E r \in Regimes : r.id = Primary
  /\ \A q \in Requests : ValidRequest(q)

VARIABLES
  files,         \* [model, record]: model.json and calibration.json
  pending,       \* the record a calibration has still to write
  bound,         \* [model, record]: the digests in the evaluation's configuration
  checkpoint,    \* the files of the checkpoint model, None where the pipeline's is followed
  interrupted,   \* did a calibration die between the two files there are, or those bound?
  last           \* what was done last: evaluated, decided, raised or nothing

vars == <<files, pending, bound, checkpoint, interrupted, last>>

Nothing == [what |-> "nothing"]

Raised == [what |-> "raised"]

------------------------------------------------------------------------------
\* Scoring choices against what was measured.

Least(latency) == Lowest({latency[c] : c \in DOMAIN latency})

Regret(latency, c) == (1000 * (latency[c] - Least(latency))) \div Least(latency)

\* The least value that 95 of 100 values do not exceed.
P95(group, value(_)) ==
  Lowest({v \in {value(g) : g \in group} :
            20 * Cardinality({g \in group : value(g) <= v}) >= 19 * Cardinality(group)})

\* The metrics of one choice per group; the oracle is every near-best candidate.
Scores(groups, choice, tie) ==
  LET regret(g) == Regret(g.latency, choice[g])
  IN  [count |-> Cardinality(groups),
       hits |-> Cardinality({g \in groups : choice[g] \in Equivalent(g.latency, tie)}),
       total |-> MapThenSumSet(regret, groups),
       p95 |-> P95(groups, regret),
       worst |-> CHOOSE v \in {regret(g) : g \in groups} : \A g \in groups : regret(g) <= v,
       selected |-> {choice[g] : g \in groups}]

\* Every candidate is measured in every group, or the baselines raise.
Common(groups) ==
  \A g, h \in groups : DOMAIN g.latency = DOMAIN h.latency

Always(groups, c) == [g \in groups |-> c]

FixedScores(groups, c, tie) == Scores(groups, Always(groups, c), tie)

\* Mutant of BestFixed: the one that is worst on average.
WorstFixed(groups, tie) ==
  LET fixed == [c \in DOMAIN (CHOOSE g \in groups : TRUE).latency |-> FixedScores(groups, c, tie)]
  IN  fixed[CHOOSE c \in DOMAIN fixed : \A d \in DOMAIN fixed : fixed[c].total >= fixed[d].total]

\* The fixed candidate that is best on average, then at the 95th percentile.
BestFixed(groups, tie) ==
  LET fixed == [c \in DOMAIN (CHOOSE g \in groups : TRUE).latency |-> FixedScores(groups, c, tie)]
  IN  fixed[CHOOSE c \in DOMAIN fixed : \A d \in DOMAIN fixed :
              \/ fixed[c].total < fixed[d].total
              \/ fixed[c].total = fixed[d].total /\ fixed[c].p95 < fixed[d].p95
              \/ /\ fixed[c].total = fixed[d].total /\ fixed[c].p95 = fixed[d].p95
                 /\ Alphabetical[c] <= Alphabetical[d]]

\* The gates every scoring has in common.
WithinGates(metrics, config) ==
  /\ 100 * metrics.hits >= config.hit * metrics.count
  /\ metrics.total <= config.mean * metrics.count
  /\ metrics.p95 <= config.p95 /\ metrics.worst <= config.worst
  /\ Cardinality(metrics.selected) >= config.selected

\* The comparisons with the best fixed candidate, as far as they are required.
NotWorse(metrics, fixed, config) ==
  /\ "mean" \in config.requires => metrics.total <= fixed.total
  /\ "p95" \in config.requires => metrics.p95 <= fixed.p95

Better95(metrics, fixed, config) ==
  /\ "mean" \in config.requires => metrics.total < fixed.total
  /\ "p95" \in config.requires => metrics.p95 < fixed.p95

------------------------------------------------------------------------------
\* Calibration.

\* The candidates of a measured unit and what they are priced from.
Work(g) ==
  [c \in DOMAIN g.latency |-> (CHOOSE p \in PipelineProfiles(g.statistics) : p.id = c).work]

Scenarios(groups) == {g.scenario : g \in groups}

Costs(g, m) == [c \in DOMAIN g.latency |-> Predicted(Work(g)[c], m)]

(* Each scenario is selected for by a model fitted on the others, three at *)
(* least; fits[s] is that model.                                           *)
Validation(groups, fits) ==
  [g \in groups |-> ByModel(Costs(g, fits[g.scenario]), fits[g.scenario])]

Authorized(run, config, fits, final) ==
  LET scores == Scores(run.groups, Validation(run.groups, fits), final.tie)
  IN  WithinGates(scores, config) /\ NotWorse(scores, BestFixed(run.groups, final.tie), config)

(* What may come of a run: a fit of all its groups, and whether it is      *)
(* authorized; it is not if that fit did not converge.  A run that is not  *)
(* fit to be learned from, a validation fit that fails, or a dirty tree    *)
(* where a clean one is required, leaves nothing.                          *)
Learnable(run) ==
  /\ run.role = "development" /\ run.status = "passed" /\ run.complete
  /\ Cardinality(Scenarios(run.groups)) >= 4 /\ Common(run.groups)

Outcomes ==
  UNION {{[content |-> final, authorized |-> converged /\ Authorized(run, config, fits, final)] :
            config \in Configurations, fits \in [Scenarios(run.groups) -> Models],
            final \in Models, converged \in BOOLEAN} :
         run \in {r \in Runs : Learnable(r)}}

Calibrate(model) ==
  /\ pending = None /\ checkpoint = None
  /\ \/ /\ files' = [files EXCEPT !.model = model]
        /\ pending' = [model |-> model.content, passed |-> model.authorized]
        /\ last' = Nothing
     \/ last' = Raised /\ UNCHANGED <<files, pending>>
  /\ UNCHANGED <<bound, checkpoint, interrupted>>

WriteRecord ==
  /\ pending # None
  /\ files' = [files EXCEPT !.record = pending] /\ pending' = None
  /\ interrupted' = [interrupted EXCEPT !.files = FALSE]
  /\ last' = Nothing
  /\ UNCHANGED <<bound, checkpoint>>

(* The process dies with model.json written and calibration.json not: the  *)
(* record beside the model, if there is one, is of an earlier model.       *)
Die ==
  /\ pending # None
  /\ pending' = None /\ interrupted' = [interrupted EXCEPT !.files = TRUE]
  /\ last' = Nothing
  /\ UNCHANGED <<files, bound, checkpoint>>

\* The digests of the two files are put into the evaluations' configurations.
Freeze ==
  /\ pending = None /\ files.model # None /\ files.record # None
  /\ bound' = files /\ interrupted' = [interrupted EXCEPT !.bound = interrupted.files]
  /\ last' = Nothing
  /\ UNCHANGED <<files, pending, checkpoint>>

------------------------------------------------------------------------------
\* Scoring the pipeline's model.

\* Mutant of Bound: the digests are not compared.
BoundOrNot == bound # None

Bound == bound # None /\ files = bound

\* Mutant of SelectFrozen: the preferred candidate is not preferred.
SelectCheapest(groups, m) == [g \in groups |-> Cheapest(Costs(g, m), DOMAIN g.latency)]

SelectFrozen(groups, m) ==
  [g \in groups |->
     LET near == Equivalent(Costs(g, m), m.tie)
     IN  IF m.preferred \in near THEN m.preferred ELSE Cheapest(Costs(g, m), near)]

\* What was measured was legal with a checkpoint required.
MeasurementPolicy ==
  [id |-> "checkpoint_required", joined |-> None, materialized |-> None, checkpoint |-> TRUE]

LegalOf(g) == PlanPipeline(g.statistics, MeasurementPolicy).nondominated

(* A unit is planned before it is run and refused unless it has exactly    *)
(* the configured candidates (governed_pipeline_admission.py:401); every   *)
(* one of them is timed, and no latency is zero (CalibrationObservation).  *)
ValidRun(run) ==
  /\ IsFiniteSet(run.groups) /\ Common(run.groups)
  /\ \A g \in run.groups :
       /\ DOMAIN g = {"scenario", "seed", "statistics", "latency"}
       /\ ValidStatistics(g.statistics) /\ DOMAIN g.latency = LegalOf(g)
       /\ \A c \in DOMAIN g.latency : g.latency[c] \in Nat \ {0}

ASSUME MeasuredAssumption ==
  /\ \A run \in Runs : ValidRun(run)
  /\ \A run \in CheckpointRuns : IsFiniteSet(run.groups)

\* Of the two files, or of those of a checkpoint model.
Evaluation(by, of, run, config, choice, passed) ==
  [what |-> "evaluated", by |-> by, model |-> of.model, record |-> of.record,
   run |-> run, config |-> config, choice |-> choice, passed |-> passed]

Usable(run) == run.clean /\ run.complete

EvaluateFrozen(by, run, admitted) ==
  /\ IF ~(Bound /\ Usable(run) /\ admitted) THEN last' = Raised
     ELSE LET m == files.model.content
              choice == SelectFrozen(run.groups, m)
              metrics == Scores(run.groups, choice, m.tie)
              fixed == BestFixed(run.groups, m.tie)
          IN  \E config \in Configurations : last' = Evaluation(by, files, run, config, choice,
                /\ WithinGates(metrics, config) /\ run.carryover /\ NotWorse(metrics, fixed, config)
                /\ \A g \in run.groups : choice[g] \in LegalOf(g))
  /\ UNCHANGED <<files, pending, bound, checkpoint, interrupted>>

\* The independent holdout takes an authorized model only.
EvaluateHoldout(run) ==
  /\ run.role = "holdout" /\ files.model # None
  /\ EvaluateFrozen("holdout", run, files.model.authorized)

\* The transfer to real data does not ask whether the model was authorized.
EvaluateTransfer(run) ==
  /\ run.role = "real" /\ files.model # None
  /\ EvaluateFrozen("transfer", run, TRUE)

Decided(g, regime, m) == OptimizePipeline(g.statistics, regime.policy, m)

RegimeOf(id) == CHOOSE r \in Regimes : r.id = id

\* What is scored are the measured candidates that are legal in the regime.
Legally(g, regime, m) ==
  [g EXCEPT !.latency = [c \in DOMAIN g.latency \cap Decided(g, regime, m).legal |-> g.latency[c]]]

\* No regime may prune a space to another size than its configuration says.
AsExpected(run, m) ==
  \A r \in Regimes :
    /\ \A g \in run.groups : LET decided == Decided(g, r, m) IN
         Cardinality(decided.legal) = r.legal /\ decided.selected \in DOMAIN g.latency
    /\ Common({Legally(g, r, m) : g \in run.groups})

EvaluateStratified(run) ==
  /\ run.role = "real" /\ files.model # None
  /\ IF ~(Bound /\ Usable(run) /\ files.model.authorized /\ AsExpected(run, files.model.content))
     THEN last' = Raised
     ELSE LET m == files.model.content
              groups == {Legally(g, RegimeOf(Primary), m) : g \in run.groups}
              choice == [g \in groups |-> Decided(g, RegimeOf(Primary), m).selected]
              metrics == Scores(groups, choice, m.tie)
              fixed == BestFixed(groups, m.tie)
              strict(g) == Decided(g, RegimeOf("strict"), m)
              fallbacks == {g \in groups : Decided(g, RegimeOf(Primary), m).reason = "out_of_support"}
          IN  \E config \in Configurations : last' = Evaluation("stratified", files, run, config, choice,
                /\ WithinGates(metrics, config)
                /\ "carryover" \in config.requires => run.carryover
                /\ Better95(metrics, fixed, config)
                /\ \A g \in groups : strict(g).selected = "policy_first" /\ strict(g).reason = "only_legal"
                /\ 100 * Cardinality(fallbacks) <= config.fallback * Cardinality(groups))
  /\ UNCHANGED <<files, pending, bound, checkpoint, interrupted>>

------------------------------------------------------------------------------
\* Scoring the checkpoint's model, and the guard around it.

Permissive == [id |-> "permitted", joined |-> None, materialized |-> None, checkpoint |-> FALSE]

Strict == [Permissive EXCEPT !.materialized = 0]

\* A material difference between the two makes one of them the right answer.
ConfidenceOracle(conclusion) ==
  CASE conclusion = "left_faster" -> {"policy_first"}
    [] conclusion = "left_slower" -> {"query_first"}
    [] conclusion = "no_dominance" -> Placements

Described(f) == f.intact /\ f.record.passed /\ f.record.clean /\ f.record.model = f.model

\* What is chosen for a group, with and without raw checkpoints permitted.
Ranked(by, g, policy) ==
  IF by = "checkpoint_holdout"
  THEN RankCheckpoint(g.statistics, policy, checkpoint.model, "policy_first_fallback")
  ELSE RankGuarded(g.statistics, policy, checkpoint.guard)

Family(run, s) == {g \in run.groups : g.scenario = s}

OracleOf(run, s) == ConfidenceOracle(run.conclusions[s])

Singletons(run, c) == {s \in Scenarios(run.groups) : OracleOf(run, s) = {c}}

\* What the gates of both evaluations look at beyond the hits.
CheckpointGates(run, config, choice, by) ==
  LET regret(g) == Regret(g.latency, choice[g])
      outside == {g \in run.groups : Ranked(by, g, Permissive).reason = "out_of_support"}
      n == Cardinality(run.groups)
  IN  /\ MapThenSumSet(regret, run.groups) <= config.mean * n
      /\ P95(run.groups, regret) <= config.p95
      /\ \A g \in run.groups : regret(g) <= config.worst
      /\ \A c \in Placements : Cardinality(Singletons(run, c)) >= config.singletons
      /\ 100 * Cardinality(outside) <= config.fallback * n
      /\ "seeds" \in config.requires =>
           \A s \in Scenarios(run.groups) : Cardinality({choice[g] : g \in Family(run, s)}) = 1
      /\ \A g \in run.groups : Ranked(by, g, Strict).selected = "policy_first"

\* A family is hit when every one of its seeds is.
HitsOf(run, choice) ==
  Cardinality({s \in Scenarios(run.groups) : \A g \in Family(run, s) : choice[g] \in OracleOf(run, s)})

FixedHits(run, c) == Cardinality({s \in Scenarios(run.groups) : c \in OracleOf(run, s)})

EvaluateCheckpointHoldout(run) ==
  /\ run.role = "holdout" /\ checkpoint # None
  /\ LET choice == [g \in run.groups |-> Ranked("checkpoint_holdout", g, Permissive).selected]
     IN  IF ~(Described(checkpoint) /\ Usable(run)) \/ \E g \in run.groups : choice[g] = None
         THEN last' = Raised
         ELSE \E config \in Configurations :
           last' = Evaluation("checkpoint_holdout", checkpoint, run, config, choice,
             /\ CheckpointGates(run, config, choice, "checkpoint_holdout")
             /\ 100 * HitsOf(run, choice) >= config.hit * Cardinality(Scenarios(run.groups))
             /\ "both" \in config.requires =>
                  \A c \in Placements : HitsOf(run, choice) > FixedHits(run, c))
  /\ UNCHANGED <<files, pending, bound, checkpoint, interrupted>>

\* The families with one right answer.
Decisive(run) == UNION {Singletons(run, c) : c \in Placements}

\* A rate of nothing is 0.
AtLeast(hits, percent, n) == IF n = 0 THEN percent = 0 ELSE 100 * hits >= percent * n

(* The transfer scores decisive families, by the selection of whichever    *)
(* seed comes first out of a set.                                          *)
EvaluateCheckpointTransfer(run) ==
  /\ run.role = "real" /\ checkpoint # None
  /\ LET choice == [g \in run.groups |-> Ranked("checkpoint_transfer", g, Permissive).selected]
         decisive == Decisive(run)
     IN  IF ~(checkpoint.intact /\ Usable(run)) \/ \E g \in run.groups : choice[g] = None
         THEN last' = Raised
         ELSE \E config \in Configurations, pick \in [decisive -> run.groups] :
           /\ \A s \in decisive : pick[s].scenario = s
           /\ LET hits == Cardinality({s \in decisive : choice[pick[s]] \in OracleOf(run, s)})
                  fixed(c) == Cardinality(Singletons(run, c))
                  of == [model |-> checkpoint.guard, record |-> None]
              IN  last' = Evaluation("checkpoint_transfer", of, run, config, choice,
                    /\ CheckpointGates(run, config, choice, "checkpoint_transfer")
                    /\ AtLeast(hits, config.hit, Cardinality(decisive))
                    /\ \A c \in Placements :
                         AtLeast(hits - fixed(c), config.improvement, Cardinality(decisive)))
  /\ UNCHANGED <<files, pending, bound, checkpoint, interrupted>>

------------------------------------------------------------------------------
\* Asking a selector at run time; only the pipeline's needs the bound model.

Answer(q) ==
  CASE q.selector = "pipeline" -> OptimizePipeline(q.statistics, q.policy, files.model.content)
    [] q.selector = "checkpoint" ->
         RankCheckpoint(q.statistics, q.policy, checkpoint.model, q.strategy)
    [] q.selector = "guarded" -> RankGuarded(q.statistics, q.policy, checkpoint.guard)
    [] q.selector = "adaptive" ->
         ChooseAdaptive(q.statistics, q.policy, q.blocks, q.interval, q.config)
    [] q.selector = "specs" -> RankSpecs(q.specs, q.policy, q.model)

Decide(q) ==
  /\ IF q.selector = "pipeline" THEN Bound /\ files.model.authorized ELSE checkpoint # None
  /\ last' = [what |-> "decided", request |-> q, choice |-> Answer(q)]
  /\ UNCHANGED <<files, pending, bound, checkpoint, interrupted>>

\* The two models share no file: a behaviour follows one of them.
Init ==
  /\ files = [model |-> None, record |-> None] /\ pending = None /\ bound = None
  /\ checkpoint \in Checkpoints \cup {None}
  /\ interrupted = [files |-> FALSE, bound |-> FALSE] /\ last = Nothing

Next ==
  \/ \E model \in Outcomes : Calibrate(model)
  \/ \E run \in Runs : EvaluateHoldout(run) \/ EvaluateTransfer(run) \/ EvaluateStratified(run)
  \/ \E run \in CheckpointRuns : EvaluateCheckpointHoldout(run) \/ EvaluateCheckpointTransfer(run)
  \/ WriteRecord \/ Die \/ Freeze
  \/ \E q \in Requests : Decide(q)

Spec == Init /\ [][Next]_vars

------------------------------------------------------------------------------
Scored(by) == last.what = "evaluated" /\ last.by \in by

PipelineScorings == {"holdout", "transfer", "stratified"}

(* What was scored is what is deployed: inside the support the evaluations *)
(* that choose for themselves (_select_with_frozen_model) choose what      *)
(* optimize_governed_pipeline answers at run time, though it prunes the    *)
(* candidates first and validates the model it is given.                   *)
EvaluatedIsDeployed ==
  Scored({"holdout", "transfer"}) =>
    \A g \in last.run.groups : InSupport(g.statistics) =>
      last.choice[g] = OptimizePipeline(g.statistics, MeasurementPolicy, last.model.content).selected

(* A model is scored as its calibration left it: calibrated again, with or *)
(* without a crash, it is not scored under its old digests.  A holdout or  *)
(* a stratified holdout scores no model that is not authorized (a transfer *)
(* does not ask).  The record scored with a model is its own, unless the   *)
(* two were bound after a calibration had died between them and before     *)
(* another was complete: the digests then bind what does not belong        *)
(* together, and nothing notices.  A checkpoint holdout asks the record    *)
(* itself (_load_frozen_model).                                            *)
ScoredIsAuthorized ==
  /\ Scored({"holdout", "stratified"}) => last.model.authorized
  /\ Scored(PipelineScorings) =>
       \/ interrupted.bound
       \/ last.record = [model |-> last.model.content, passed |-> last.model.authorized]
  /\ Scored({"checkpoint_holdout"}) => last.record.passed /\ last.record.model = last.model

Total(groups, choice) == MapThenSumSet(LAMBDA g : Regret(g.latency, choice[g]), groups)

\* The decisive families of which every seed, or some seed, was answered rightly.
SureHits(run, choice) ==
  {s \in Decisive(run) : \A g \in Family(run, s) : choice[g] \in OracleOf(run, s)}

SomeHits(run, choice) ==
  {s \in Decisive(run) : \E g \in Family(run, s) : choice[g] \in OracleOf(run, s)}

BeatsFixed(by, run, config, choice) ==
  CASE by \in PipelineScorings ->
         "mean" \in config.requires =>
           \A c \in UNION {DOMAIN g.latency : g \in DOMAIN choice} :
             /\ Total(DOMAIN choice, choice) <= Total(DOMAIN choice, Always(DOMAIN choice, c))
             /\ by = "stratified" =>
                  Total(DOMAIN choice, choice) < Total(DOMAIN choice, Always(DOMAIN choice, c))
    [] by = "checkpoint_holdout" ->
         "both" \in config.requires =>
           \A c \in Placements : HitsOf(run, choice) > FixedHits(run, c)
    [] by = "checkpoint_transfer" ->
         config.improvement > 0 =>
           \A c \in Placements :
             /\ Cardinality(SomeHits(run, choice)) > Cardinality(Singletons(run, c))
             /\ "seeds" \in config.requires =>
                  Cardinality(SureHits(run, choice)) > Cardinality(Singletons(run, c))

(* An evaluation that its configuration made compare beats, when it        *)
(* passes, every way of always choosing the same.  On the mean of the      *)
(* regrets (require_*_best_fixed_mean) every fixed candidate, not only the *)
(* one picked as the baseline; in the checkpoint holdout                   *)
(* (require_better_than_both_fixed) both of them; in the checkpoint        *)
(* transfer (an improvement above zero) both, whichever seed a family's    *)
(* selection was taken from: with require_seed_consistency by families of  *)
(* which every seed is right, without it only by families of which one is. *)
PassBeatsEveryFixed ==
  last.what = "evaluated" /\ last.passed =>
    BeatsFixed(last.by, last.run, last.config, last.choice)

\* The exposure and the work of every candidate a selector may answer with.
ExposureOf(q) ==
  CASE q.selector = "pipeline" ->
         [c \in Ids(PipelineProfiles(q.statistics)) |->
            (CHOOSE p \in PipelineProfiles(q.statistics) : p.id = c).exposure]
    [] q.selector \in {"checkpoint", "guarded", "adaptive"} ->
         [c \in Placements |-> CheckpointExposure(q.statistics, c)]
    [] q.selector = "specs" ->
         [c \in Ids(q.specs) |-> (CHOOSE x \in q.specs : x.id = c).exposure]

FeasibleOf(q) == {c \in DOMAIN ExposureOf(q) : Feasible(ExposureOf(q)[c], q.policy)}

\* What the policy forbids, read off the candidate and not off its exposure.
Violates(x, policy) ==
  \/ policy.joined = 0 /\ \E g \in {"probe", "output"} : x.stages[g].state = "raw"
  \/ /\ x.stages["raw_written"].state = "raw"
     /\ Exceeds(x.stages["raw_written"].rows, policy.materialized)

PriceOf(q, c) ==
  IF q.selector = "pipeline"
  THEN Predicted((CHOOSE p \in PipelineProfiles(q.statistics) : p.id = c).work, files.model.content)
  ELSE Predicted(CheckpointFeatures(q.statistics, c),
                 IF q.selector = "guarded" THEN checkpoint.guard.base ELSE checkpoint.model)

(* Whatever the selector, cost never buys what governance forbids, and     *)
(* governance costs nothing that it need not: the selected candidate is    *)
(* legal, and one is selected whenever one is legal and nothing raised     *)
(* (candidate_feasibility.py under the five selectors).  What the          *)
(* pipeline's selector ranked is within the tie of every legal candidate,  *)
(* the pruned ones included, and a guard leaves policy-first only for a    *)
(* margin larger than the error it was calibrated with.                    *)
DecidedIsLegal ==
  last.what = "decided" =>
    LET q == last.request
        chosen == last.choice.selected
        feasible == FeasibleOf(q)
    IN  /\ chosen # None => chosen \in feasible
        /\ chosen = None => feasible = {} \/ last.choice.reason = "raised"
        /\ chosen # None /\ q.selector = "specs" =>
             ~Violates(CHOOSE x \in q.specs : x.id = chosen, q.policy)
        /\ last.choice.reason = "ranked" /\ q.selector = "pipeline" =>
             \A c \in feasible :
               100 * PriceOf(q, chosen) <= (100 + files.model.content.tie) * PriceOf(q, c)
        /\ q.selector = "guarded" /\ chosen = "query_first" =>
             PriceOf(q, "query_first") + checkpoint.guard.bound < PriceOf(q, "policy_first")

Tighter(p, q) ==
  /\ p.checkpoint = q.checkpoint
  /\ \A limit \in {"joined", "materialized"} :
       q[limit] = None \/ (p[limit] # None /\ p[limit] <= q[limit])

Policies == {r.policy : r \in Regimes} \cup {q.policy : q \in Requests}

(* Tightening the limits of a policy does not move a choice that stays     *)
(* legal: what optimize_governed_pipeline ranked is answered again when    *)
(* other candidates are forbidden, by rank or as the only one left.        *)
ChoiceSurvivesTightening ==
  last.what = "decided" /\ last.request.selector = "pipeline" /\ last.choice.reason = "ranked" =>
    LET q == last.request
    IN  \A p \in Policies :
          Tighter(p, q.policy) /\ Feasible(ExposureOf(q)[last.choice.selected], p) =>
            OptimizePipeline(q.statistics, p, files.model.content).selected = last.choice.selected
=============================================================================
