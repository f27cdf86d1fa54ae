----------------------------- MODULE MaskPlacement -----------------------------
(***************************************************************************)
(* The fitted models that choose where a hash mask is placed around a      *)
(* join, and their selectors, src/trustaero/optimizer/mask*.py: the        *)
(* workload a model sees, the features it computes of each placement, the  *)
(* surface it sums and what a stored model must satisfy to be loaded.  A   *)
(* stored model is loaded, or refused by its constructor's checks, and     *)
(* then places the mask of a workload early or late.  Each selector first  *)
(* drops the placements governance forbids; a fitted one also stands back  *)
(* outside the workloads it was trained on, or when its margin is unclear. *)
(*                                                                         *)
(* Quantities are integers: a match rate counts in 1/Full, every amount of *)
(* rows or bytes is multiplied by Full, and log(1 + x) is the monotone     *)
(* table Log.  A prediction is in 1/Unit, so that division by a scale is   *)
(* exact.  How a model was fitted is reduced to the flag metadata: that    *)
(* its ridge, sample count and provenance pass the constructor's checks.   *)
(***************************************************************************)
EXTENDS Integers, Sequences, FiniteSets, FiniteSetsExt, Functions, TLC

CONSTANTS None,          \* no exposure limit, no model, no placement
          Log,           \* log(1 + x), with Log[0] = 0
          Full,          \* a match rate of one
          HashedWidth,   \* bytes of a masked identifier
          FixedWidth,    \* bytes the join carries besides the identifier
          Setup,         \* the fixed work of an early mask
          Unit           \* every feature scale divides it

ASSUME LogIsMonotone ==
  /\ Log[0] = 0
  /\ \A x \in DOMAIN Log : x \in Nat /\ Log[x] \in Nat /\ 0..x \subseteq DOMAIN Log
  /\ \A x, y \in DOMAIN Log : x <= y => Log[x] <= Log[y]

ASSUME QuantityAssumption ==
  /\ {Full, HashedWidth, FixedWidth, Setup} \subseteq Nat
  /\ Unit \in Nat \ {0}
  /\ None \notin Int /\ None \notin {"early", "late"}

Placements == {"early", "late"}

\* What is known before either candidate runs.
ValidWorkload(w) ==
  /\ w.rows >= 0
  /\ w.width > 0
  /\ w.rate \in 0..Full
  /\ w.limit = None \/ w.limit >= 0

Rows(w) == w.rows * Full

Matched(w) == w.rows * w.rate

----------------------------------------------------------------------------
\* The features of a workload, or of one placement of it.

V2Features(w) ==
  [rows |-> w.rows, width |-> w.width, match |-> w.rate,
   raw_work |-> w.rows * w.width, matched_work |-> w.rows * w.width * w.rate]

\* Early hashes every row and joins the hash; late joins raw rows, hashes what matched.
HashBytes(w, placement) ==
  IF placement = "early" THEN Rows(w) * w.width ELSE Matched(w) * w.width

CostFeatures(w, placement) ==
  [input |-> Log[Rows(w)], hash |-> Log[HashBytes(w, placement)],
   join |-> Log[Rows(w) * (IF placement = "early" THEN HashedWidth ELSE w.width)],
   materialized |-> Log[IF placement = "early" THEN Rows(w) * HashedWidth ELSE 0]]

ResidualFeatures(w) ==
  LET r == Log[Rows(w)]
      b == Log[w.width]
  IN  [rows |-> r, rows2 |-> r * r, width |-> b, width2 |-> b * b, rows_width |-> r * b,
       match |-> w.rate, match_rows |-> w.rate * r, match_width |-> w.rate * b,
       match_rows_width |-> w.rate * r * b]

\* The residual features that grow with the match rate.
MatchFeatures == {"match", "match_rows", "match_width", "match_rows_width"}

InteractionFeatures(w) ==
  ResidualFeatures(w) @@ [match2 |-> w.rate * w.rate]

\* The dimensions in which training saw a range of workloads.
SupportFeatures(w) ==
  [rows |-> Log[Rows(w)], width |-> Log[w.width], match |-> w.rate]

PipelineFeatures(w, placement) ==
  [scan |-> Log[Rows(w) * w.width], hash |-> Log[HashBytes(w, placement)],
   join |-> Log[Rows(w) * (IF placement = "early" THEN HashedWidth ELSE w.width)],
   output |-> Log[Matched(w)], breaker |-> IF placement = "early" THEN 1 ELSE 0]

V5Features(w, placement) ==
  LET f == PipelineFeatures(w, placement)
  IN  f @@ [breaker_join |-> f.breaker * f.join]

(* The work of a placement in the bounded pipeline fragment; what both     *)
(* placements do alike (scan, build side, output, sort) cancels in V4Delta *)
CandidateWork(w, placement) ==
  IF placement = "early"
  THEN [pre_hash |-> Rows(w) * w.width, post_hash |-> 0,
        join_fact |-> Rows(w) * (HashedWidth + FixedWidth),
        boundary |-> Rows(w) * (HashedWidth + FixedWidth)]
  ELSE [pre_hash |-> 0, post_hash |-> Matched(w) * w.width,
        join_fact |-> Rows(w) * (w.width + FixedWidth), boundary |-> 0]

V4Delta(w) ==
  LET early == CandidateWork(w, "early")
      late == CandidateWork(w, "late")
  IN  [n \in DOMAIN early |-> Log[early[n]] - Log[late[n]]]

V4Support(w) == [rows |-> w.rows, width |-> w.width, match |-> w.rate]
----------------------------------------------------------------------------
\* A linear cost and a standardised surface over a feature vector.

Linear(m, v) == m.intercept + MapThenSumSet(LAMBDA n : m.coef[n] * v[n], DOMAIN v)

Surface(m, v) ==
  m.intercept * Unit
    + MapThenSumSet(LAMBDA n : m.coef[n] * (v[n] - m.mean[n]) * (Unit \div m.scale[n]), DOMAIN v)

WithinSupport(m, v) == \A n \in DOMAIN v : m.min[n] <= v[n] /\ v[n] <= m.max[n]

\* Three mechanisms measured on their own; movement is by payload, the join by rows.
MechanismCost(m, w, placement) ==
  LET moved == IF placement = "early" THEN Rows(w) * HashedWidth ELSE Matched(w) * w.width
      rows == IF placement = "early" THEN Rows(w) ELSE Matched(w)
  IN  Linear(m.hash, [rows |-> rows, bytes |-> HashBytes(w, placement)])
        + Linear(m.move, [rows |-> rows, bytes |-> moved])
        + Linear(m.join, [input |-> Rows(w), output |-> Matched(w)])
-----------------------------------------------------------------------------
CONSTANTS Workloads,     \* workloads to place
          Payloads       \* stored models: [kind, model]

(* What parsing guarantees: the numbers of a workload and of a stored      *)
(* model are numbers.  Log is a table of the amounts that occur.           *)
ASSUME WorkloadAssumption ==
  \A w \in Workloads :
    /\ DOMAIN w = {"rows", "width", "rate", "early", "late", "limit"}
    /\ {w.rows, w.width, w.rate} \subseteq Int /\ w.limit \in Int \cup {None}
    /\ {w.early, w.late} \subseteq BOOLEAN
    /\ ValidWorkload(w) =>
         {w.width, Rows(w) * w.width, Rows(w) * HashedWidth} \subseteq DOMAIN Log

Numbers(v) == \A n \in DOMAIN v : v[n] \in Int

LinearNumbers(m) == m.intercept \in Int /\ Numbers(m.coef)

SurfaceNumbers(m) == LinearNumbers(m) /\ Numbers(m.mean) /\ Numbers(m.scale)

MarginNumbers(m) == {m.rmse, m.multiplier} \subseteq Int

Kinds == {"v1", "v2", "cost", "residual", "guard", "mechanism", "pipeline", "interaction",
          "stable", "v4", "v41", "v5"}

ASSUME PayloadAssumption ==
  \A p \in Payloads :
    /\ p.kind \in Kinds
    /\ p.kind = "cost" => LinearNumbers(p.model)
    /\ p.kind = "mechanism" => \A name \in {"hash", "move", "join"} : LinearNumbers(p.model[name])
    /\ p.kind = "residual" =>
         LinearNumbers(p.model.base) /\ SurfaceNumbers(p.model) /\ MarginNumbers(p.model)
    /\ p.kind = "pipeline" => SurfaceNumbers(p.model) /\ MarginNumbers(p.model)
    /\ p.kind = "v41" => p.model.members \in Seq(Range(p.model.members))

VARIABLES workload, payload,
          loaded,        \* "no" | "yes" | "refused"
          decision       \* of the loaded model, or None

vars == <<workload, payload, loaded, decision>>

ValidSurface(m, names) ==
  /\ \A f \in {m.coef, m.mean, m.scale} : DOMAIN f = names
  /\ \A n \in names : m.scale[n] > 0
  /\ m.metadata

ValidSupport(m, names) ==
  DOMAIN m.min = names /\ DOMAIN m.max = names /\ \A n \in names : m.min[n] <= m.max[n]

NonNegative(coef) == \A n \in DOMAIN coef : coef[n] >= 0

W == CHOOSE w \in Workloads : TRUE       \* any workload: its vectors have the same names

ValidV2(m) == ValidSurface(m, DOMAIN V2Features(W))

ValidCost(m) ==
  DOMAIN m.coef = DOMAIN CostFeatures(W, "early") /\ NonNegative(m.coef) /\ m.metadata

\* Mutant of ValidResidual: one of the features that grow with the match rate is missed.
ValidResidualMissing(m) ==
  /\ ValidCost(m.base)
  /\ ValidSurface(m, DOMAIN ResidualFeatures(W))
  /\ ValidSupport(m, DOMAIN ResidualFeatures(W))
  /\ \A n \in MatchFeatures \ {"match_rows_width"} : m.coef[n] <= 0
  /\ m.rmse >= 0 /\ m.multiplier >= 0

\* The correction may not make early masks less attractive as more rows match.
ValidResidual(m) ==
  /\ ValidCost(m.base)
  /\ ValidSurface(m, DOMAIN ResidualFeatures(W))
  /\ ValidSupport(m, DOMAIN ResidualFeatures(W))
  /\ \A n \in MatchFeatures : m.coef[n] <= 0
  /\ m.rmse >= 0 /\ m.multiplier >= 0

ValidPoint(point) ==
  DOMAIN point.vector = DOMAIN SupportFeatures(W) /\ point.residual >= 0 /\ point.v1 >= 0

Groups(points) == {point.group : point \in Range(points)}

ValidGuard(m) ==
  /\ ValidResidual(m.base)
  /\ \A i \in DOMAIN m.points : ValidPoint(m.points[i])
  /\ DOMAIN m.scale = DOMAIN SupportFeatures(W)
  /\ \A n \in DOMAIN m.scale : m.scale[n] > 0
  /\ m.neighbors > 0 /\ Cardinality(Groups(m.points)) >= m.neighbors

ValidMechanism(m) ==
  \A name \in {"hash", "move", "join"} :
    /\ m[name].intercept >= 0 /\ NonNegative(m[name].coef) /\ m[name].metadata
    /\ DOMAIN m[name].coef = (IF name = "join" THEN {"input", "output"} ELSE {"rows", "bytes"})

ValidPipeline(m) ==
  /\ ValidSurface(m, DOMAIN PipelineFeatures(W, "early")) /\ NonNegative(m.coef)
  /\ ValidSupport(m, DOMAIN SupportFeatures(W))
  /\ m.rmse >= 0 /\ m.multiplier >= 0

ValidInteraction(m) ==
  /\ ValidSurface(m, DOMAIN InteractionFeatures(W))
  /\ ValidSupport(m, DOMAIN SupportFeatures(W))
  /\ m.threshold >= 0

ValidStable(m) ==
  ValidInteraction(m.primary) /\ \A i \in DOMAIN m.members : ValidInteraction(m.members[i])

ValidV4(m) ==
  /\ ValidSurface(m, DOMAIN V4Delta(W)) /\ ValidSupport(m, DOMAIN V4Support(W))
  /\ m.threshold >= 0

ValidV41(m) ==
  ValidV4(m.primary) /\ Len(m.members) >= 2 /\ \A i \in DOMAIN m.members : ValidV4(m.members[i])

ValidV5(m) ==
  /\ ValidMechanism(m.prior)
  /\ ValidSurface(m, DOMAIN V5Features(W, "early")) /\ ValidSupport(m, DOMAIN SupportFeatures(W))
  /\ m.rmse >= 0 /\ m.multiplier >= 0

Valid(kind, m) ==
  CASE kind = "v1" -> TRUE [] kind = "v2" -> ValidV2(m) [] kind = "cost" -> ValidCost(m)
    [] kind = "residual" -> ValidResidual(m) [] kind = "guard" -> ValidGuard(m)
    [] kind = "mechanism" -> ValidMechanism(m) [] kind = "pipeline" -> ValidPipeline(m)
    [] kind = "interaction" -> ValidInteraction(m) [] kind = "stable" -> ValidStable(m)
    [] kind = "v4" -> ValidV4(m) [] kind = "v41" -> ValidV41(m) [] kind = "v5" -> ValidV5(m)
----------------------------------------------------------------------------
\* Mutant of LateFeasible: the limit on raw rows is left to the cost.
LateAllowed(w) == w.late

\* Late sends the raw identifiers of every input row through the join.
LateFeasible(w) == w.late /\ (w.limit = None \/ w.rows <= w.limit)

\* by: "forced" (one legal placement), "model" or "fallback".
Chosen(w, placement, by) ==
  [placement |-> placement, by |-> by,
   exposure |-> IF placement = "early" THEN 0 ELSE w.rows]

NotChosen(why) == [placement |-> None, by |-> why, exposure |-> 0]

\* Governance first; a choice by cost exists only between two legal placements.
Governed(w, ranked) ==
  IF w.early /\ LateFeasible(w) THEN ranked
  ELSE IF w.early THEN Chosen(w, "early", "forced")
  ELSE IF LateFeasible(w) THEN Chosen(w, "late", "forced")
  ELSE NotChosen("refused")

\* Ties go to the late placement, which materialises nothing.
Cheaper(early, late) == IF early < late THEN "early" ELSE "late"

Abs(x) == IF x < 0 THEN -x ELSE x

EarlyWork(w) == Rows(w) * w.width + Rows(w) * HashedWidth + Setup

LateWork(w) == Rows(w) * w.width + Matched(w) * w.width

V1(w) == Governed(w, Chosen(w, Cheaper(EarlyWork(w), LateWork(w)), "model"))

V2(w, m) == Governed(w, Chosen(w, Cheaper(Surface(m, V2Features(w)), 0), "model"))

CostOf(w, m, placement) == Linear(m, CostFeatures(w, placement))

ByCost(w, m) ==
  Governed(w, Chosen(w, Cheaper(CostOf(w, m, "early"), CostOf(w, m, "late")), "model"))

ByMechanism(w, m) ==
  Governed(w, Chosen(w, Cheaper(MechanismCost(m, w, "early"), MechanismCost(m, w, "late")),
                     "model"))

BaseRatio(w, m) == Unit * (CostOf(w, m.base, "early") - CostOf(w, m.base, "late"))

ResidualInSupport(w, m) == WithinSupport(m, ResidualFeatures(w))

(* The corrected ratio decides, unless the workload is out of support or   *)
(* the correction changes the sign without clearing the margin.            *)
ByResidual(w, m) ==
  LET corrected == BaseRatio(w, m) + Surface(m, ResidualFeatures(w))
      flips == (BaseRatio(w, m) < 0) # (corrected < 0)
      confident == Abs(corrected) > m.multiplier * m.rmse
  IN  Governed(w, IF ~ResidualInSupport(w, m) \/ (flips /\ ~confident)
                  THEN Chosen(w, Cheaper(BaseRatio(w, m), 0), "fallback")
                  ELSE Chosen(w, Cheaper(corrected, 0), "model"))
----------------------------------------------------------------------------
PointsOf(m, g) == {i \in DOMAIN m.points : m.points[i].group = g}

PointDistance(m, q, i) ==
  MapThenSumSet(LAMBDA n : LET d == (q[n] - m.points[i].vector[n]) * (Unit \div m.scale[n])
                           IN  d * d, DOMAIN q)

GroupDistance(m, q, g) == Min({PointDistance(m, q, i) : i \in PointsOf(m, g)})

\* The nearest groups of training scenarios; equal distances go by group id.
Neighbors(m, q) ==
  LET closer(g, h) == \/ GroupDistance(m, q, g) < GroupDistance(m, q, h)
                      \/ GroupDistance(m, q, g) = GroupDistance(m, q, h) /\ g < h
  IN  {g \in Groups(m.points) :
         Cardinality({h \in Groups(m.points) : closer(h, g)}) < m.neighbors}

(* The mean, over the neighbours, of the mean regret of a group.           *)
LocalRegret(m, q, name) ==
  MapThenSumSet(LAMBDA g : MapThenSumSet(LAMBDA i : m.points[i][name], PointsOf(m, g))
                             * (Unit \div Cardinality(PointsOf(m, g))),
                Neighbors(m, q))

\* V1 unless the corrected model did strictly better nearby.
ByGuard(w, m) ==
  LET corrected == ByResidual(w, m.base)
      better == LocalRegret(m, SupportFeatures(w), "residual")
                  < LocalRegret(m, SupportFeatures(w), "v1")
  IN  IF corrected.placement = V1(w).placement \/ better THEN corrected ELSE V1(w)

InSupport(w, m) == WithinSupport(m, SupportFeatures(w))

Margin(m) == m.rmse * m.multiplier

PipelineRatio(w, m) ==
  Surface(m, PipelineFeatures(w, "early")) - Surface(m, PipelineFeatures(w, "late"))

\* Mutant of ByPipeline: a clear margin is trusted before support is asked.
ByPipelineClearMargin(w, m) ==
  Governed(w, IF Abs(PipelineRatio(w, m)) <= Margin(m)
              THEN Chosen(w, V1(w).placement, "fallback")
              ELSE Chosen(w, Cheaper(PipelineRatio(w, m), 0), "model"))

ByPipeline(w, m) ==
  Governed(w, IF ~InSupport(w, m) \/ Abs(PipelineRatio(w, m)) <= Margin(m)
              THEN Chosen(w, V1(w).placement, "fallback")
              ELSE Chosen(w, Cheaper(PipelineRatio(w, m), 0), "model"))

InteractionRatio(w, m) == Surface(m, InteractionFeatures(w))

ByInteraction(w, m) ==
  Governed(w, IF ~InSupport(w, m) \/ Abs(InteractionRatio(w, m)) <= m.threshold
              THEN Chosen(w, V1(w).placement, "fallback")
              ELSE Chosen(w, Cheaper(InteractionRatio(w, m), 0), "model"))

Directions(w, members) ==
  {Cheaper(InteractionRatio(w, members[i]), 0) : i \in DOMAIN members}

(* The primary decides when the members agree with each other; whether it  *)
(* agrees with them is only sure when it is one of them.                   *)
ByStable(w, m) ==
  Governed(w, IF m.members = <<>> THEN NotChosen("failed")
              ELSE IF Cardinality(Directions(w, m.members)) # 1
              THEN Chosen(w, V1(w).placement, "fallback")
              ELSE ByInteraction(w, m.primary))

V4Ratio(w, m) == Surface(m, V4Delta(w))

V4InSupport(w, m) == WithinSupport(m, V4Support(w))

ByV4(w, m) ==
  Governed(w, IF ~V4InSupport(w, m) \/ Abs(V4Ratio(w, m)) <= m.threshold
              THEN Chosen(w, "early", "fallback")
              ELSE Chosen(w, Cheaper(V4Ratio(w, m), 0), "model"))

Ensemble(m) == <<m.primary>> \o m.members

V41Signs(w, m) == {V4Ratio(w, Ensemble(m)[i]) < 0 : i \in DOMAIN Ensemble(m)}

\* No margin: all signs agree, each model within its own support.
ByV41(w, m) ==
  Governed(w, IF \/ \E i \in DOMAIN Ensemble(m) : ~V4InSupport(w, Ensemble(m)[i])
                 \/ Cardinality(V41Signs(w, m)) # 1
              THEN Chosen(w, "early", "fallback")
              ELSE Chosen(w, IF TRUE \in V41Signs(w, m) THEN "early" ELSE "late", "model"))

Prior(w, m, placement) == MechanismCost(m.prior, w, placement)

V5Log(w, m, placement) ==
  Unit * Log[Prior(w, m, placement)] + Surface(m, V5Features(w, placement))

V5Ratio(w, m) == V5Log(w, m, "early") - V5Log(w, m, "late")

\* Both costs are predicted before support is asked; a prior of zero has no logarithm.
ByV5(w, m) ==
  Governed(w, IF \E p \in Placements : Prior(w, m, p) <= 0 THEN NotChosen("failed")
              ELSE IF ~InSupport(w, m) \/ Abs(V5Ratio(w, m)) <= Margin(m)
              THEN Chosen(w, "early", "fallback")
              ELSE Chosen(w, Cheaper(V5Ratio(w, m), 0), "model"))

Choose(kind, w, m) ==
  CASE kind = "v1" -> V1(w) [] kind = "v2" -> V2(w, m) [] kind = "cost" -> ByCost(w, m)
    [] kind = "residual" -> ByResidual(w, m) [] kind = "guard" -> ByGuard(w, m)
    [] kind = "mechanism" -> ByMechanism(w, m) [] kind = "pipeline" -> ByPipeline(w, m)
    [] kind = "interaction" -> ByInteraction(w, m) [] kind = "stable" -> ByStable(w, m)
    [] kind = "v4" -> ByV4(w, m) [] kind = "v41" -> ByV41(w, m) [] kind = "v5" -> ByV5(w, m)
----------------------------------------------------------------------------
Init ==
  /\ workload \in {w \in Workloads : ValidWorkload(w)}
  /\ payload \in Payloads
  /\ loaded = "no"
  /\ decision = None

Load ==
  /\ loaded = "no"
  /\ loaded' = IF Valid(payload.kind, payload.model) THEN "yes" ELSE "refused"
  /\ UNCHANGED <<workload, payload, decision>>

Decide ==
  /\ loaded = "yes"
  /\ decision = None
  /\ decision' = Choose(payload.kind, workload, payload.model)
  /\ UNCHANGED <<workload, payload, loaded>>

Next == Load \/ Decide

Spec == Init /\ [][Next]_vars
----------------------------------------------------------------------------
Decided == loaded = "yes" /\ decision # None

(* A placement is chosen exactly when a legal one exists and the selector  *)
(* did not fail, and the raw rows it sends through the join are within     *)
(* their limit, whatever the costs say.                                    *)
ChosenIsLegal ==
  Decided =>
    /\ decision.placement = "early" => workload.early
    /\ decision.placement = "late" => workload.late
    /\ workload.limit # None => decision.exposure <= workload.limit
    /\ decision.by = "refused" =>
         ~workload.early /\ (workload.late => workload.limit < workload.rows)

Fits(w, m, kind) ==
  (kind = "residual" => ResidualInSupport(w, m)) /\ (kind = "pipeline" => InSupport(w, m))

(* "A higher Join match rate must not make early Mask less attractive"     *)
(* (mask_residual.py:30): if more rows matched, and nothing else differed, *)
(* an early choice would stay early, through corrections, margins and      *)
(* fallbacks; within the support of the model.                             *)
MatchMonotone ==
  Decided /\ payload.kind \in {"v1", "cost", "mechanism", "residual", "pipeline"} =>
    \A rate \in workload.rate..Full :
      LET w == [workload EXCEPT !.rate = rate]
      IN  Fits(w, payload.model, payload.kind) /\ Fits(workload, payload.model, payload.kind)
            /\ decision.placement = "early"
            => Choose(payload.kind, w, payload.model).placement = "early"

(* Outside the workloads its model was fitted on a selector takes its      *)
(* conservative placement, however clear the extrapolated costs look: the  *)
(* uncorrected costs, V1's choice, or the early mask, which exposes no raw *)
(* row; V5 fails instead when its prior is zero.                           *)
ConservativeOutside ==
  LET m == payload.model
      w == workload
      ratio == BaseRatio(w, m)
  IN  Decided /\ w.early /\ LateFeasible(w) /\ decision.by # "failed" =>
        CASE payload.kind = "residual" ->
               ResidualInSupport(w, m) \/ decision.placement = Cheaper(ratio, 0)
          [] payload.kind \in {"pipeline", "interaction"} ->
               InSupport(w, m) \/ decision.placement = V1(w).placement
          [] payload.kind = "stable" ->
               InSupport(w, m.primary) \/ decision.placement = V1(w).placement
          [] payload.kind = "v4" -> V4InSupport(w, m) \/ decision.placement = "early"
          [] payload.kind = "v41" ->
               V4InSupport(w, m.primary) \/ decision.placement = "early"
          [] payload.kind = "v5" -> InSupport(w, m) \/ decision.placement = "early"
          [] OTHER -> TRUE

(* A decision credited to an ensemble is one that no member contradicts:   *)
(* of V4.1, whose primary is always asked, and of the stable interaction   *)
(* models when the primary is one of them.                                 *)
CreditIsUnanimous ==
  Decided /\ decision.by = "model" =>
    /\ payload.kind = "v41" =>
         \A i \in DOMAIN Ensemble(payload.model) :
           (V4Ratio(workload, Ensemble(payload.model)[i]) < 0) = (decision.placement = "early")
    /\ payload.kind = "stable" /\ payload.model.primary \in Range(payload.model.members) =>
         Directions(workload, payload.model.members) = {decision.placement}

Repeated(m, g) ==
  LET Of(point) == point.group = g
  IN  [m EXCEPT !.points = @ \o SelectSeq(@, Of)]

(* "lower_unweighted_mean_regret_over_nearest_scenario_groups"             *)
(* (mask_guard.py:157): a training scenario measured twice weighs no more  *)
(* in the guard's choice than one measured once.                           *)
GroupsWeighEqually ==
  Decided /\ payload.kind = "guard" =>
    \A g \in Groups(payload.model.points) :
      Choose("guard", workload, Repeated(payload.model, g)).placement = decision.placement
=============================================================================
