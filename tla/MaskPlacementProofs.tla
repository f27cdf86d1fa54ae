------------------------- MODULE MaskPlacementProofs -------------------------
(***************************************************************************)
(* Theorems about the selectors that place a mask, for every workload and  *)
(* every stored model that its constructor accepts: what is chosen is      *)
(* legal, what is unlike the training data is answered conservatively, and *)
(* more matching rows never argue against masking early.  The last is a    *)
(* comparison of sums: of two costs, whose terms grow one by one, and of   *)
(* four surfaces, whose terms compare two and two (SumsCompare).           *)
(***************************************************************************)
EXTENDS MaskPlacement, FiniteLemmas

-----------------------------------------------------------------------------
\* What was loaded is valid, and what was decided is what it chooses.
PlacementInv ==
  /\ workload \in Workloads /\ ValidWorkload(workload)
  /\ payload \in Payloads
  /\ loaded = "yes" => Valid(payload.kind, payload.model)
  /\ decision # None => /\ loaded = "yes"
                        /\ decision = Choose(payload.kind, workload, payload.model)

LEMMA PlacementInvariant == Spec => []PlacementInv
<1>1. Init => PlacementInv
  BY DEF Init, PlacementInv
<1>2. PlacementInv /\ [Next]_vars => PlacementInv'
  <2> SUFFICES ASSUME PlacementInv, [Next]_vars PROVE PlacementInv'
    OBVIOUS
  <2>1. CASE Load
    BY <2>1 DEF PlacementInv, Load
  <2>2. CASE Decide
    BY <2>2 DEF PlacementInv, Decide
  <2>3. CASE UNCHANGED vars
    BY <2>3 DEF PlacementInv, vars
  <2> QED BY <2>1, <2>2, <2>3 DEF Next
<1> QED BY <1>1, <1>2, PTL DEF Spec
-----------------------------------------------------------------------------
(* Governance comes first in every selector.                               *)

\* The numbers of a workload.
Sized(w) ==
  /\ DOMAIN w = {"rows", "width", "rate", "early", "late", "limit"}
  /\ w.rows \in Nat /\ w.width \in Nat \ {0} /\ w.rate \in Nat /\ w.rate <= Full
  /\ w.limit \in Nat \cup {None}
  /\ w.early \in BOOLEAN /\ w.late \in BOOLEAN
  /\ {w.width, Rows(w) * w.width, Rows(w) * HashedWidth} \subseteq DOMAIN Log

LEMMA WorkloadsAreSized ==
  ASSUME NEW w \in Workloads, ValidWorkload(w)
  PROVE  Sized(w)
BY WorkloadAssumption, QuantityAssumption DEF ValidWorkload, Sized

\* What ChosenIsLegal asks of an answer.
LegalAnswer(w, d) ==
  /\ d.placement = "early" => w.early
  /\ d.placement = "late" => w.late
  /\ w.limit # None => d.exposure <= w.limit
  /\ d.by = "refused" => ~w.early /\ (w.late => w.limit < w.rows)

LEMMA CheaperIsPlacement == \A a, b : Cheaper(a, b) \in Placements
BY DEF Cheaper, Placements

LEMMA ChosenLegally ==
  ASSUME NEW w, Sized(w), w.early, LateFeasible(w),
         NEW p \in Placements, NEW by, by # "refused"
  PROVE  LegalAnswer(w, Chosen(w, p, by))
BY DEF Sized, LateFeasible, Chosen, LegalAnswer, Placements

LEMMA GovernedLegally ==
  ASSUME NEW w, Sized(w), NEW ranked,
         w.early /\ LateFeasible(w) => LegalAnswer(w, ranked)
  PROVE  LegalAnswer(w, Governed(w, ranked))
<1>1. CASE w.early /\ LateFeasible(w)
  BY <1>1 DEF Governed
<1>2. CASE w.early /\ ~LateFeasible(w)
  BY <1>2, QuantityAssumption DEF Governed, Chosen, LegalAnswer, Sized
<1>3. CASE ~w.early /\ LateFeasible(w)
  BY <1>3, QuantityAssumption DEF Governed, Chosen, LegalAnswer, Sized, LateFeasible
<1>4. CASE ~w.early /\ ~LateFeasible(w)
  BY <1>4, QuantityAssumption
     DEF Governed, NotChosen, LegalAnswer, Sized, LateFeasible
<1> QED BY <1>1, <1>2, <1>3, <1>4

\* Every selector is governance around a choice between two placements.
LEMMA EverySelectorIsGoverned ==
  ASSUME NEW w, Sized(w), NEW kind \in Kinds, NEW m
  PROVE  LegalAnswer(w, Choose(kind, w, m))
<1> DEFINE Free == w.early /\ LateFeasible(w)
<1>0. ASSUME Free, NEW a, NEW b, NEW by, by # "refused"
      PROVE  LegalAnswer(w, Chosen(w, Cheaper(a, b), by))
  BY <1>0, CheaperIsPlacement, ChosenLegally
<1>1. LegalAnswer(w, V1(w))
  BY <1>0, GovernedLegally DEF V1
<1>2. Free => \A by : by # "refused" => /\ LegalAnswer(w, Chosen(w, "early", by))
                                        /\ LegalAnswer(w, Chosen(w, "late", by))
                                        /\ LegalAnswer(w, Chosen(w, V1(w).placement, by))
  <2>1. Free => V1(w).placement \in Placements
    BY CheaperIsPlacement DEF V1, Governed, Chosen
  <2> QED BY <2>1, ChosenLegally DEF Placements
<1>3. LegalAnswer(w, NotChosen("failed"))
  BY QuantityAssumption DEF NotChosen, LegalAnswer, Sized
<1>4. LegalAnswer(w, V2(w, m))
  BY <1>0, GovernedLegally DEF V2
<1>5. LegalAnswer(w, ByCost(w, m)) /\ LegalAnswer(w, ByMechanism(w, m))
  BY <1>0, GovernedLegally DEF ByCost, ByMechanism
<1>6. \A k : LegalAnswer(w, ByResidual(w, k))
  BY <1>0, GovernedLegally DEF ByResidual
<1>7. LegalAnswer(w, ByGuard(w, m))
  BY <1>1, <1>6 DEF ByGuard
<1>8. LegalAnswer(w, ByPipeline(w, m))
  BY <1>0, <1>2, GovernedLegally DEF ByPipeline
<1>9. \A k : LegalAnswer(w, ByInteraction(w, k))
  BY <1>0, <1>2, GovernedLegally DEF ByInteraction
<1>10. LegalAnswer(w, ByStable(w, m))
  BY <1>2, <1>3, <1>9, GovernedLegally DEF ByStable
<1>11. LegalAnswer(w, ByV4(w, m))
  BY <1>0, <1>2, GovernedLegally DEF ByV4
<1>12. LegalAnswer(w, ByV41(w, m))
  BY <1>2, GovernedLegally DEF ByV41
<1>13. LegalAnswer(w, ByV5(w, m))
  BY <1>0, <1>2, <1>3, GovernedLegally DEF ByV5
<1> QED BY <1>1, <1>4, <1>5, <1>6, <1>7, <1>8, <1>9, <1>10, <1>11, <1>12, <1>13
        DEF Choose, Kinds

(* Governance holds for every workload and every stored model of the       *)
(* twelve kinds: a placement is chosen only where the policy allows it and *)
(* its raw rows are within their limit, whatever the model predicts        *)
(* (mask.py, and the first branches of every selector).                    *)
THEOREM ChoiceIsLegal == Spec => []ChosenIsLegal
<1>1. PlacementInv => ChosenIsLegal
  BY WorkloadsAreSized, EverySelectorIsGoverned, PayloadAssumption
     DEF PlacementInv, ChosenIsLegal, Decided, LegalAnswer
<1> QED BY <1>1, PlacementInvariant, PTL
-----------------------------------------------------------------------------
(* Outside of what a model was fitted on.                                  *)

(* Far from its training data no fitted selector follows its model, for    *)
(* every workload and stored model: the residual model falls back to the   *)
(* costs it corrects, the pipeline and interaction models to V1, V4 to V5  *)
(* to the early mask (the support tests of mask_residual.py, mask_pipeline *)
(* .py, mask_interaction.py and the v4 and v5 modules).                    *)
THEOREM OutsideIsConservative == Spec => []ConservativeOutside
<1>1. PlacementInv => ConservativeOutside
  <2> SUFFICES ASSUME PlacementInv, Decided, workload.early, LateFeasible(workload),
                      decision.by # "failed"
               PROVE  LET m == payload.model
                          w == workload
                      IN CASE payload.kind = "residual" ->
                                \/ ResidualInSupport(w, m)
                                \/ decision.placement = Cheaper(BaseRatio(w, m), 0)
                           [] payload.kind \in {"pipeline", "interaction"} ->
                                InSupport(w, m) \/ decision.placement = V1(w).placement
                           [] payload.kind = "stable" ->
                                InSupport(w, m.primary) \/ decision.placement = V1(w).placement
                           [] payload.kind = "v4" ->
                                V4InSupport(w, m) \/ decision.placement = "early"
                           [] payload.kind = "v41" ->
                                V4InSupport(w, m.primary) \/ decision.placement = "early"
                           [] payload.kind = "v5" ->
                                InSupport(w, m) \/ decision.placement = "early"
                           [] OTHER -> TRUE
    BY Zenon DEF ConservativeOutside
  <2> DEFINE m == payload.model
             w == workload
  <2>1. decision = Choose(payload.kind, w, m)
    BY DEF PlacementInv, Decided
  <2>2. \A ranked : Governed(w, ranked) = ranked
    BY DEF Governed
  <2>3. \A p, by : Chosen(w, p, by).placement = p
    BY DEF Chosen
  <2>4. payload.kind = "residual" =>
          ResidualInSupport(w, m) \/ decision.placement = Cheaper(BaseRatio(w, m), 0)
    BY <2>1, <2>2, <2>3 DEF Choose, ByResidual
  <2>5. payload.kind = "pipeline" => InSupport(w, m) \/ decision.placement = V1(w).placement
    BY <2>1, <2>2, <2>3 DEF Choose, ByPipeline
  <2>6. \A k : InSupport(w, k) \/ ByInteraction(w, k).placement = V1(w).placement
    BY <2>2, <2>3 DEF ByInteraction
  <2>7. payload.kind = "interaction" => decision = ByInteraction(w, m)
    BY <2>1 DEF Choose
  <2>8. payload.kind = "stable" =>
          InSupport(w, m.primary) \/ decision.placement = V1(w).placement
    <3>1. payload.kind = "stable" => decision = ByStable(w, m)
      BY <2>1 DEF Choose
    <3>2. NotChosen("failed").by = "failed"
      BY DEF NotChosen
    <3> QED BY <2>2, <2>3, <2>6, <3>1, <3>2 DEF ByStable
  <2>9. payload.kind = "v4" => V4InSupport(w, m) \/ decision.placement = "early"
    BY <2>1, <2>2, <2>3 DEF Choose, ByV4
  <2>10. payload.kind = "v41" => V4InSupport(w, m.primary) \/ decision.placement = "early"
    <3>1. payload.kind = "v41" => decision = ByV41(w, m) /\ Valid("v41", m)
      BY <2>1 DEF Choose, PlacementInv, Decided
    <3>2. payload.kind = "v41" => 1 \in DOMAIN Ensemble(m) /\ Ensemble(m)[1] = m.primary
      <4>1. payload.kind = "v41" => m.members \in Seq(Range(m.members))
        BY PayloadAssumption DEF PlacementInv
      <4>2. ASSUME NEW S, NEW s \in Seq(S)
            PROVE  1 \in DOMAIN (<<m.primary>> \o s) /\ (<<m.primary>> \o s)[1] = m.primary
        BY <4>2
      <4> QED BY <4>1, <4>2 DEF Ensemble
    <3>3. SUFFICES ASSUME payload.kind = "v41", ~V4InSupport(w, m.primary)
                   PROVE  decision.placement = "early"
      OBVIOUS
    <3>4. \E i \in DOMAIN Ensemble(m) : ~V4InSupport(w, Ensemble(m)[i])
      <4> HIDE DEF m, w
      <4> QED BY <3>2, <3>3
    <3>5. ByV41(w, m) = Chosen(w, "early", "fallback")
      BY <2>2, <3>4 DEF ByV41
    <3> QED BY <2>3, <3>1, <3>3, <3>5
  <2>11. payload.kind = "v5" => InSupport(w, m) \/ decision.placement = "early"
    <3>1. payload.kind = "v5" => decision = ByV5(w, m)
      BY <2>1 DEF Choose
    <3>2. NotChosen("failed").by = "failed"
      BY DEF NotChosen
    <3> QED BY <2>2, <2>3, <3>1, <3>2 DEF ByV5
  <2> QED BY <2>4, <2>5, <2>6, <2>7, <2>8, <2>9, <2>10, <2>11
<1> QED BY <1>1, PlacementInvariant, PTL
-----------------------------------------------------------------------------
(* What a cost and a surface sum, and how they grow.                       *)

LEMMA Products ==
  /\ \A a, b \in Int : a * b \in Int
  /\ \A a, b \in Nat : a * b \in Nat
  /\ \A a \in Nat, x, y \in Int : x <= y => a * x <= a * y
  /\ \A a \in Nat, x, y \in Int : x <= y => x * a <= y * a
  /\ \A a, x, y \in Int : a <= 0 /\ x <= y => a * y <= a * x
<1>1. \A a, b \in Int : a * b \in Int
  BY SMT
<1>2. \A a, b \in Nat : a * b \in Nat
  BY SMT
<1>3. \A a \in Nat, x, y \in Int : x <= y => a * x <= a * y
  BY SMT
<1>4. \A a \in Nat, x, y \in Int : x <= y => x * a <= y * a
  BY SMT
<1>5. \A a, x, y \in Int : a <= 0 /\ x <= y => a * y <= a * x
  BY SMT
<1> QED BY <1>1, <1>2, <1>3, <1>4, <1>5

\* The terms of a linear cost and of a surface.
LinearTerms(m, v) == [n \in DOMAIN v |-> m.coef[n] * v[n]]

SurfaceTerms(m, v) ==
  [n \in DOMAIN v |-> m.coef[n] * (v[n] - m.mean[n]) * (Unit \div m.scale[n])]

LinearVector(m, v) ==
  /\ LinearNumbers(m) /\ DOMAIN m.coef = DOMAIN v
  /\ IsFiniteSet(DOMAIN v) /\ Numbers(v)

SurfaceVector(m, v) ==
  /\ LinearVector(m, v) /\ SurfaceNumbers(m)
  /\ DOMAIN m.mean = DOMAIN v /\ DOMAIN m.scale = DOMAIN v
  /\ \A n \in DOMAIN v : m.scale[n] > 0

LEMMA UnitsOfScale == \A s \in Int : s > 0 => Unit \div s \in Nat
BY QuantityAssumption, SMT

LEMMA LinearTermsAreNumbers ==
  ASSUME NEW m, NEW v, LinearVector(m, v)
  PROVE  LinearTerms(m, v) \in [DOMAIN v -> Int]
<1>1. \A n \in DOMAIN v : m.coef[n] \in Int /\ v[n] \in Int
  BY DEF LinearVector, LinearNumbers, Numbers
<1>2. \A n \in DOMAIN v : m.coef[n] * v[n] \in Int
  BY <1>1, Products, Zenon
<1> QED BY <1>2 DEF LinearTerms

LEMMA SurfaceTermsAreNumbers ==
  ASSUME NEW m, NEW v, SurfaceVector(m, v)
  PROVE  SurfaceTerms(m, v) \in [DOMAIN v -> Int]
<1>1. ASSUME NEW n \in DOMAIN v
      PROVE  m.coef[n] * (v[n] - m.mean[n]) * (Unit \div m.scale[n]) \in Int
  <2>1. m.coef[n] \in Int /\ v[n] - m.mean[n] \in Int /\ m.scale[n] \in Int /\ m.scale[n] > 0
    BY DEF SurfaceVector, LinearVector, SurfaceNumbers, LinearNumbers, Numbers
  <2>2. Unit \div m.scale[n] \in Int
    BY <2>1, UnitsOfScale
  <2>3. m.coef[n] * (v[n] - m.mean[n]) \in Int
    BY <2>1, Products, Zenon
  <2> QED BY <2>2, <2>3, Products, Zenon
<1> QED BY <1>1 DEF SurfaceTerms

LEMMA LinearIsSum ==
  ASSUME NEW m, NEW v, LinearVector(m, v)
  PROVE  \E h : /\ SumTable(h, LinearTerms(m, v), DOMAIN v)
                /\ Linear(m, v) = m.intercept + h[DOMAIN v]
<1> DEFINE S == DOMAIN v
           term(n) == m.coef[n] * v[n]
           D(k) == [s \in SUBSET S |->
                      IF s = {} THEN 0
                      ELSE term(CHOOSE x \in s : TRUE) + k[s \ {CHOOSE x \in s : TRUE}]]
           iter == CHOOSE k : k = D(k)
<1>0. IsFiniteSet(S)
  BY DEF LinearVector
<1>1. PICK h \in [SUBSET S -> Int] : Unfolds(h, LinearTerms(m, v), S)
  BY <1>0, LinearTermsAreNumbers, UnfoldsExists
<1>2. \A k : D(k) = [s \in SUBSET S |-> IF s = {} THEN 0
                                        ELSE LinearTerms(m, v)[Pick(s)] + k[s \ {Pick(s)}]]
  <2>1. \A n \in S : term(n) = LinearTerms(m, v)[n]
    BY DEF LinearTerms
  <2>2. \A s \in SUBSET S : s # {} => Pick(s) \in S
    BY PickIn
  <2> HIDE DEF term, S
  <2> QED BY <2>1, <2>2 DEF Pick
<1>3. Linear(m, v) = m.intercept + iter[S]
  BY DEF Linear, MapThenSumSet, MapThenFoldSet
<1>4. Unfolds(iter, LinearTerms(m, v), S)
  <2>1. h = D(h)
    BY <1>1, <1>2 DEF Unfolds
  <2>2. iter = D(iter)
    <3> HIDE DEF D
    <3> QED BY <2>1
  <2> HIDE DEF D, iter
  <2> QED BY <1>2, <2>2 DEF Unfolds
<1> HIDE DEF iter, S
<1>5. iter[S] = h[S]
  BY <1>0, <1>1, <1>4, UnfoldsAgree, S \in SUBSET S
<1> QED BY <1>1, <1>3, <1>5, LinearTermsAreNumbers DEF SumTable, S

LEMMA SurfaceIsSum ==
  ASSUME NEW m, NEW v, SurfaceVector(m, v)
  PROVE  \E h : /\ SumTable(h, SurfaceTerms(m, v), DOMAIN v)
                /\ Surface(m, v) = m.intercept * Unit + h[DOMAIN v]
<1> DEFINE S == DOMAIN v
           term(n) == m.coef[n] * (v[n] - m.mean[n]) * (Unit \div m.scale[n])
           D(k) == [s \in SUBSET S |->
                      IF s = {} THEN 0
                      ELSE term(CHOOSE x \in s : TRUE) + k[s \ {CHOOSE x \in s : TRUE}]]
           iter == CHOOSE k : k = D(k)
<1>0. IsFiniteSet(S)
  BY DEF SurfaceVector, LinearVector
<1>1. PICK h \in [SUBSET S -> Int] : Unfolds(h, SurfaceTerms(m, v), S)
  BY <1>0, SurfaceTermsAreNumbers, UnfoldsExists
<1>2. \A k : D(k) = [s \in SUBSET S |-> IF s = {} THEN 0
                                        ELSE SurfaceTerms(m, v)[Pick(s)] + k[s \ {Pick(s)}]]
  <2>1. \A n \in S : term(n) = SurfaceTerms(m, v)[n]
    BY DEF SurfaceTerms
  <2>2. \A s \in SUBSET S : s # {} => Pick(s) \in S
    BY PickIn
  <2> HIDE DEF term, S
  <2> QED BY <2>1, <2>2 DEF Pick
<1>3. Surface(m, v) = m.intercept * Unit + iter[S]
  BY DEF Surface, MapThenSumSet, MapThenFoldSet
<1>4. Unfolds(iter, SurfaceTerms(m, v), S)
  <2>1. h = D(h)
    BY <1>1, <1>2 DEF Unfolds
  <2>2. iter = D(iter)
    <3> HIDE DEF D
    <3> QED BY <2>1
  <2> HIDE DEF D, iter
  <2> QED BY <1>2, <2>2 DEF Unfolds
<1> HIDE DEF iter, S
<1>5. iter[S] = h[S]
  BY <1>0, <1>1, <1>4, UnfoldsAgree, S \in SUBSET S
<1> QED BY <1>1, <1>3, <1>5, SurfaceTermsAreNumbers DEF SumTable, S

\* A linear cost with no negative coefficient grows with what it is a cost of.
LEMMA LinearGrows ==
  ASSUME NEW m, NEW v, NEW u, LinearVector(m, v), LinearVector(m, u), DOMAIN v = DOMAIN u,
         NonNegative(m.coef), \A n \in DOMAIN v : v[n] <= u[n]
  PROVE  Linear(m, v) \in Int /\ Linear(m, u) \in Int /\ Linear(m, v) <= Linear(m, u)
<1>1. PICK h : SumTable(h, LinearTerms(m, v), DOMAIN v) /\ Linear(m, v) = m.intercept + h[DOMAIN v]
  BY LinearIsSum
<1>2. PICK k : SumTable(k, LinearTerms(m, u), DOMAIN u) /\ Linear(m, u) = m.intercept + k[DOMAIN u]
  BY LinearIsSum
<1>3. PICK S, f, g : S = DOMAIN v /\ f = LinearTerms(m, v) /\ g = LinearTerms(m, u)
  OBVIOUS
<1>4. IsFiniteSet(S) /\ m.intercept \in Int
  BY <1>3 DEF LinearVector, LinearNumbers
<1>5. \A n \in S : f[n] <= g[n] /\ f[n] \in Int /\ g[n] \in Int
  <2> TAKE n \in S
  <2>1. m.coef[n] \in Nat /\ v[n] \in Int /\ u[n] \in Int /\ v[n] <= u[n]
    BY <1>3 DEF LinearVector, LinearNumbers, Numbers, NonNegative
  <2>2. m.coef[n] * v[n] <= m.coef[n] * u[n] /\ m.coef[n] * v[n] \in Int /\ m.coef[n] * u[n] \in Int
    <3>1. m.coef[n] \in Int
      BY <2>1
    <3> QED BY <2>1, <3>1, Products, Zenon
  <2>3. f[n] = m.coef[n] * v[n] /\ g[n] = m.coef[n] * u[n]
    BY <1>3 DEF LinearTerms
  <2> QED BY <2>2, <2>3, Zenon
<1>6. SumTable(h, f, S) /\ SumTable(k, g, S)
  BY <1>1, <1>2, <1>3
<1>7. h[S] + h[S] <= k[S] + k[S]
  <2>1. \A n \in S : f[n] + f[n] <= g[n] + g[n]
    BY <1>5
  <2> QED BY <1>4, <1>6, <2>1, SumsCompare
<1>8. h[S] \in Int /\ k[S] \in Int
  BY <1>6, S \in SUBSET S DEF SumTable
<1> QED BY <1>1, <1>2, <1>3, <1>4, <1>7, <1>8

LEMMA SurfaceIsNumber ==
  ASSUME NEW m, NEW v, SurfaceVector(m, v)
  PROVE  Surface(m, v) \in Int
<1>1. PICK h : /\ SumTable(h, SurfaceTerms(m, v), DOMAIN v)
               /\ Surface(m, v) = m.intercept * Unit + h[DOMAIN v]
  BY SurfaceIsSum
<1>2. h[DOMAIN v] \in Int
  BY <1>1, DOMAIN v \in SUBSET DOMAIN v DEF SumTable
<1>3. m.intercept * Unit \in Int
  <2>1. m.intercept \in Int /\ Unit \in Int
    BY QuantityAssumption DEF SurfaceVector, LinearVector, LinearNumbers
  <2> QED BY <2>1, Products, Zenon
<1> QED BY <1>1, <1>2, <1>3

(* Four surfaces of one model compare as their vectors do: the terms of    *)
(* each name compare, whatever they are.                                   *)
LEMMA SurfacesCompare ==
  ASSUME NEW m, NEW a, NEW b, NEW c, NEW d, NEW S,
         DOMAIN a = S, DOMAIN b = S, DOMAIN c = S, DOMAIN d = S,
         SurfaceVector(m, a), SurfaceVector(m, b), SurfaceVector(m, c), SurfaceVector(m, d),
         \A n \in S : SurfaceTerms(m, a)[n] + SurfaceTerms(m, b)[n]
                        <= SurfaceTerms(m, c)[n] + SurfaceTerms(m, d)[n]
  PROVE  Surface(m, a) + Surface(m, b) <= Surface(m, c) + Surface(m, d)
<1>1. PICK h : SumTable(h, SurfaceTerms(m, a), S) /\ Surface(m, a) = m.intercept * Unit + h[S]
  BY SurfaceIsSum
<1>2. PICK k : SumTable(k, SurfaceTerms(m, b), S) /\ Surface(m, b) = m.intercept * Unit + k[S]
  BY SurfaceIsSum
<1>3. PICK l : SumTable(l, SurfaceTerms(m, c), S) /\ Surface(m, c) = m.intercept * Unit + l[S]
  BY SurfaceIsSum
<1>4. PICK o : SumTable(o, SurfaceTerms(m, d), S) /\ Surface(m, d) = m.intercept * Unit + o[S]
  BY SurfaceIsSum
<1>5. PICK e, f, g, i : /\ e = SurfaceTerms(m, a) /\ f = SurfaceTerms(m, b)
                        /\ g = SurfaceTerms(m, c) /\ i = SurfaceTerms(m, d)
  OBVIOUS
<1>6. IsFiniteSet(S)
  BY DEF SurfaceVector, LinearVector
<1>7. /\ SumTable(h, e, S) /\ SumTable(k, f, S) /\ SumTable(l, g, S) /\ SumTable(o, i, S)
      /\ \A n \in S : e[n] + f[n] <= g[n] + i[n]
  BY <1>1, <1>2, <1>3, <1>4, <1>5
<1>8. h[S] + k[S] <= l[S] + o[S]
  BY <1>6, <1>7, SumsCompare
<1>9. {h[S], k[S], l[S], o[S]} \subseteq Int
  BY <1>7, S \in SUBSET S DEF SumTable
<1>10. PICK start \in Int : start = m.intercept * Unit
  <2>1. m.intercept \in Int /\ Unit \in Int
    BY QuantityAssumption DEF SurfaceVector, LinearVector, LinearNumbers
  <2> QED BY <2>1, Products, Zenon
<1>11. /\ Surface(m, a) = start + h[S] /\ Surface(m, b) = start + k[S]
       /\ Surface(m, c) = start + l[S] /\ Surface(m, d) = start + o[S]
  BY <1>1, <1>2, <1>3, <1>4, <1>10
<1> QED BY <1>8, <1>9, <1>10, <1>11
-----------------------------------------------------------------------------
(* A workload of which more rows match, and nothing else differs.          *)

MoreMatch(w, u) ==
  /\ Sized(w) /\ Sized(u)
  /\ u.rows = w.rows /\ u.width = w.width /\ w.rate <= u.rate
  /\ u.early = w.early /\ u.late = w.late /\ u.limit = w.limit

Free(w) == w.early /\ LateFeasible(w)

LEMMA Amounts ==
  ASSUME NEW w, Sized(w)
  PROVE  /\ Rows(w) \in Nat /\ Matched(w) \in Nat /\ Matched(w) <= Rows(w)
         /\ Rows(w) * w.width \in Nat /\ Matched(w) * w.width \in Nat
         /\ Matched(w) * w.width <= Rows(w) * w.width /\ Rows(w) <= Rows(w) * w.width
         /\ Rows(w) * HashedWidth \in Nat
<1>1. /\ w.rows \in Nat /\ w.width \in Nat /\ 1 <= w.width /\ w.rate \in Nat /\ Full \in Nat
      /\ HashedWidth \in Nat /\ w.rate <= Full
  BY QuantityAssumption DEF Sized
<1>2. w.rows * Full \in Nat /\ w.rows * w.rate \in Nat
  BY <1>1, Products, Zenon
<1>3. w.rows * w.rate <= w.rows * Full
  <2>1. w.rate \in Int /\ Full \in Int
    BY <1>1
  <2> QED BY <1>1, <2>1, Products, Zenon
<1>4. PICK r, k, x \in Nat : /\ r = w.rows * Full /\ k = w.rows * w.rate /\ x = w.width
  BY <1>1, <1>2
<1>5. r * x \in Nat /\ k * x \in Nat /\ r * HashedWidth \in Nat
  BY <1>1, <1>4, Products, Zenon
<1>6. k * x <= r * x
  <2>1. k \in Int /\ r \in Int /\ k <= r
    BY <1>3, <1>4
  <2> QED BY <2>1, <1>4, Products, Zenon
<1>7. r <= r * x
  <2>1. 1 \in Int /\ x \in Int /\ 1 <= x
    BY <1>1, <1>4
  <2>2. r * 1 <= r * x
    BY <2>1, <1>4, Products, Zenon
  <2> QED BY <2>2, <1>4, <1>5
<1> QED BY <1>3, <1>4, <1>5, <1>6, <1>7 DEF Rows, Matched

LEMMA MoreAmounts ==
  ASSUME NEW w, NEW u, MoreMatch(w, u)
  PROVE  /\ Rows(u) = Rows(w) /\ u.width = w.width
         /\ Matched(w) <= Matched(u) /\ Matched(w) * w.width <= Matched(u) * w.width
<1>1. /\ w.rows \in Nat /\ w.rate \in Int /\ u.rate \in Int /\ w.rate <= u.rate
      /\ w.width \in Nat /\ u.rows = w.rows /\ u.width = w.width
  BY DEF MoreMatch, Sized
<1>2. Matched(w) \in Int /\ Matched(u) \in Int
  BY Amounts DEF MoreMatch
<1>3. Matched(w) <= Matched(u)
  BY <1>1, Products, Zenon DEF Matched
<1>4. Matched(w) * w.width <= Matched(u) * w.width
  BY <1>1, <1>2, <1>3, Products, Zenon
<1> QED BY <1>1, <1>3, <1>4 DEF Rows

LEMMA MoreIsFree ==
  ASSUME NEW w, NEW u, MoreMatch(w, u)
  PROVE  /\ Free(u) <=> Free(w)
         /\ LateFeasible(u) <=> LateFeasible(w)
BY DEF MoreMatch, Free, LateFeasible

LEMMA LogGrows ==
  ASSUME NEW x \in Nat, NEW y \in DOMAIN Log, x <= y
  PROVE  x \in DOMAIN Log /\ Log[x] \in Nat /\ Log[y] \in Nat /\ Log[x] <= Log[y]
<1>1. y \in Nat /\ 0..y \subseteq DOMAIN Log
  BY LogIsMonotone
<1>2. x \in DOMAIN Log
  BY <1>1
<1> QED BY <1>2, LogIsMonotone

\* Governance leaves an early choice early, or asks the model again.
LEMMA GovernedStaysEarly ==
  ASSUME NEW w, NEW u, MoreMatch(w, u), NEW a, NEW b,
         Governed(w, a).placement = "early",
         Free(w) /\ a.placement = "early" => b.placement = "early"
  PROVE  Governed(u, b).placement = "early"
<1>1. CASE Free(w)
  BY <1>1, MoreIsFree DEF Governed, Free
<1>2. CASE w.early /\ ~LateFeasible(w)
  <2>1. u.early /\ ~LateFeasible(u)
    BY <1>2, MoreIsFree DEF MoreMatch
  <2> QED BY <2>1 DEF Governed, Chosen
<1>3. CASE ~w.early
  BY <1>3, QuantityAssumption DEF Governed, Chosen, NotChosen
<1> QED BY <1>1, <1>2, <1>3 DEF Free

LEMMA EarlyIsCheaper == \A a, b : Cheaper(a, b) = "early" <=> a < b
BY DEF Cheaper

LEMMA ChosenPlacement == \A w, p, by : Chosen(w, p, by).placement = p
BY DEF Chosen

\* V1: early work does not depend on the match rate, late work grows with it.
LEMMA V1StaysEarly ==
  ASSUME NEW w, NEW u, MoreMatch(w, u), V1(w).placement = "early"
  PROVE  V1(u).placement = "early"
<1>1. EarlyWork(u) = EarlyWork(w)
  BY MoreAmounts, Zenon DEF EarlyWork
<1>2. EarlyWork(w) \in Int /\ LateWork(w) \in Int /\ LateWork(u) \in Int
  BY Amounts, QuantityAssumption, MoreAmounts DEF MoreMatch, EarlyWork, LateWork
<1>3. LateWork(w) <= LateWork(u)
  <2>1. \A a, b, c \in Nat : b <= c => a + b <= a + c
    OBVIOUS
  <2>2. Rows(w) * w.width \in Nat /\ Matched(w) * w.width \in Nat /\ Matched(u) * w.width \in Nat
    BY Amounts, MoreAmounts DEF MoreMatch
  <2>3. LateWork(u) = Rows(w) * w.width + Matched(u) * w.width
    BY MoreAmounts, Zenon DEF LateWork
  <2> QED BY <2>1, <2>2, <2>3, MoreAmounts, Zenon DEF LateWork
<1>4. EarlyWork(w) < LateWork(w) => EarlyWork(u) < LateWork(u)
  BY <1>1, <1>2, <1>3
<1> QED BY <1>4, GovernedStaysEarly, EarlyIsCheaper, ChosenPlacement DEF V1
-----------------------------------------------------------------------------
CostNames == {"input", "hash", "join", "materialized"}

\* Sets of up to three elements are finite.
LEMMA FewAreFinite == \A a, b, c : IsFiniteSet({a, b, c})
<1> TAKE a, b, c
<1>1. IsFiniteSet({a}) /\ IsFiniteSet({b}) /\ IsFiniteSet({c})
  BY FS_Singleton
<1>2. IsFiniteSet({a} \cup {b})
  BY <1>1, FS_Union
<1>3. IsFiniteSet({a} \cup {b} \cup {c})
  BY <1>1, <1>2, FS_Union
<1>4. {a, b, c} = {a} \cup {b} \cup {c}
  OBVIOUS
<1> QED BY <1>3, <1>4

LEMMA CostNamesAre ==
  /\ IsFiniteSet(CostNames)
  /\ \A w, p : DOMAIN CostFeatures(w, p) = CostNames
<1>1. IsFiniteSet(CostNames)
  <2>1. CostNames = {"input", "hash", "join"} \cup {"materialized", "materialized", "materialized"}
    BY DEF CostNames
  <2> QED BY <2>1, FewAreFinite, FS_Union
<1>2. \A w, p : DOMAIN CostFeatures(w, p) = CostNames
  BY DEF CostFeatures, CostNames
<1> QED BY <1>1, <1>2

\* The amounts whose logarithms a feature takes have one.
LEMMA AmountsHaveLogs ==
  ASSUME NEW w, Sized(w)
  PROVE  /\ 0 \in DOMAIN Log /\ w.width \in DOMAIN Log
         /\ Rows(w) \in DOMAIN Log /\ Rows(w) * w.width \in DOMAIN Log
         /\ Rows(w) * HashedWidth \in DOMAIN Log
         /\ Matched(w) \in DOMAIN Log /\ Matched(w) * w.width \in DOMAIN Log
<1>1. /\ w.width \in DOMAIN Log /\ Rows(w) * w.width \in DOMAIN Log
      /\ Rows(w) * HashedWidth \in DOMAIN Log
  BY DEF Sized
<1>2. /\ 0 <= Rows(w) * w.width /\ Rows(w) <= Rows(w) * w.width
      /\ Matched(w) <= Rows(w) * w.width /\ Matched(w) * w.width <= Rows(w) * w.width
  BY Amounts
<1>3. Rows(w) \in DOMAIN Log
  BY <1>1, <1>2, Amounts, LogGrows
<1>4. Matched(w) \in DOMAIN Log
  BY <1>1, <1>2, Amounts, LogGrows
<1>5. Matched(w) * w.width \in DOMAIN Log
  BY <1>1, <1>2, Amounts, LogGrows
<1>6. 0 \in DOMAIN Log
  BY <1>1, <1>2, LogGrows
<1> QED BY <1>1, <1>3, <1>4, <1>5, <1>6

LEMMA LogsAreNat == \A x \in DOMAIN Log : Log[x] \in Nat
BY LogIsMonotone

LEMMA CostFeaturesAreNumbers ==
  ASSUME NEW w, Sized(w), NEW p \in Placements
  PROVE  Numbers(CostFeatures(w, p))
<1>1. HashBytes(w, p) \in DOMAIN Log
  BY AmountsHaveLogs DEF HashBytes
<1>2. Rows(w) * (IF p = "early" THEN HashedWidth ELSE w.width) \in DOMAIN Log
  <2>1. Rows(w) * HashedWidth \in DOMAIN Log /\ Rows(w) * w.width \in DOMAIN Log
    BY AmountsHaveLogs
  <2> QED BY <2>1, Zenon
<1>3. (IF p = "early" THEN Rows(w) * HashedWidth ELSE 0) \in DOMAIN Log
  BY AmountsHaveLogs
<1>4. PICK a, b, c, d \in Nat :
        /\ a = Log[Rows(w)] /\ b = Log[HashBytes(w, p)]
        /\ c = Log[Rows(w) * (IF p = "early" THEN HashedWidth ELSE w.width)]
        /\ d = Log[IF p = "early" THEN Rows(w) * HashedWidth ELSE 0]
  BY <1>1, <1>2, <1>3, AmountsHaveLogs, LogsAreNat
<1>5. CostFeatures(w, p) = [input |-> a, hash |-> b, join |-> c, materialized |-> d]
  BY <1>4, Zenon DEF CostFeatures
<1> QED BY <1>5 DEF Numbers

LEMMA CostVectors ==
  ASSUME NEW m, LinearNumbers(m), ValidCost(m), NEW w, Sized(w), NEW p \in Placements
  PROVE  LinearVector(m, CostFeatures(w, p))
<1>1. DOMAIN m.coef = CostNames
  BY CostNamesAre DEF ValidCost
<1> QED BY <1>1, CostNamesAre, CostFeaturesAreNumbers DEF LinearVector

(* The cost of the early placement does not depend on the match rate, that *)
(* of the late one grows with it: there is more left to hash.              *)
LEMMA CostsMove ==
  ASSUME NEW m, LinearNumbers(m), ValidCost(m), NEW w, NEW u, MoreMatch(w, u)
  PROVE  /\ CostOf(w, m, "early") \in Int /\ CostOf(w, m, "late") \in Int
         /\ CostOf(u, m, "early") = CostOf(w, m, "early")
         /\ CostOf(u, m, "late") \in Int /\ CostOf(w, m, "late") <= CostOf(u, m, "late")
<1>1. CostFeatures(u, "early") = CostFeatures(w, "early")
  BY MoreAmounts, Zenon DEF CostFeatures, HashBytes
<1>2. \A n \in CostNames : CostFeatures(w, "late")[n] <= CostFeatures(u, "late")[n]
  <2>1. Log[HashBytes(w, "late")] <= Log[HashBytes(u, "late")]
    <3>1. Matched(w) * w.width \in Nat /\ Matched(u) * w.width \in DOMAIN Log
      BY Amounts, AmountsHaveLogs, MoreAmounts DEF MoreMatch
    <3>2. Log[Matched(w) * w.width] <= Log[Matched(u) * w.width]
      BY <3>1, MoreAmounts, LogGrows
    <3> QED BY <3>2, MoreAmounts DEF HashBytes
  <2>2. PICK a, b, c, d, e : /\ a = Log[Rows(w)] /\ b = Log[HashBytes(w, "late")]
                             /\ c = Log[Rows(w) * w.width] /\ d = Log[0]
                             /\ e = Log[HashBytes(u, "late")]
    OBVIOUS
  <2>3. CostFeatures(w, "late") = [input |-> a, hash |-> b, join |-> c, materialized |-> d]
    BY <2>2 DEF CostFeatures
  <2>4. CostFeatures(u, "late") = [input |-> a, hash |-> e, join |-> c, materialized |-> d]
    BY <2>2, MoreAmounts DEF CostFeatures
  <2>5. a \in Nat /\ c \in Nat /\ d \in Nat /\ b <= e
    BY <2>1, <2>2, AmountsHaveLogs, LogsAreNat DEF MoreMatch
  <2> QED BY <2>3, <2>4, <2>5 DEF CostNames
<1>3. LinearVector(m, CostFeatures(w, "late")) /\ LinearVector(m, CostFeatures(u, "late"))
  BY CostVectors DEF MoreMatch, Placements
<1>4. LinearVector(m, CostFeatures(w, "early"))
  BY CostVectors DEF MoreMatch, Placements
<1>5. \A n \in CostNames : CostFeatures(w, "early")[n] <= CostFeatures(w, "early")[n]
  BY <1>4, CostNamesAre DEF LinearVector, Numbers
<1>6. NonNegative(m.coef)
  BY DEF ValidCost
<1>7. Linear(m, CostFeatures(w, "early")) \in Int
  BY <1>4, <1>5, <1>6, CostNamesAre, LinearGrows
<1>8. /\ Linear(m, CostFeatures(w, "late")) \in Int /\ Linear(m, CostFeatures(u, "late")) \in Int
      /\ Linear(m, CostFeatures(w, "late")) <= Linear(m, CostFeatures(u, "late"))
  BY <1>2, <1>3, <1>6, CostNamesAre, LinearGrows
<1> QED BY <1>1, <1>7, <1>8 DEF CostOf

LEMMA CostStaysEarly ==
  ASSUME NEW m, LinearNumbers(m), ValidCost(m), NEW w, NEW u, MoreMatch(w, u),
         ByCost(w, m).placement = "early"
  PROVE  ByCost(u, m).placement = "early"
<1>1. CostOf(w, m, "early") < CostOf(w, m, "late") => CostOf(u, m, "early") < CostOf(u, m, "late")
  BY CostsMove
<1> QED BY <1>1, GovernedStaysEarly, EarlyIsCheaper, ChosenPlacement DEF ByCost
-----------------------------------------------------------------------------
\* A part of the mechanism model, of a rows and a bytes or an input and an output.
LEMMA PartGrows ==
  ASSUME NEW m, LinearNumbers(m), NonNegative(m.coef),
         NEW x, NEW y, DOMAIN m.coef = {x, y},
         NEW v, NEW u, DOMAIN v = {x, y}, DOMAIN u = {x, y},
         v[x] \in Int, v[y] \in Int, u[x] \in Int, u[y] \in Int, v[x] <= u[x], v[y] <= u[y]
  PROVE  Linear(m, v) \in Int /\ Linear(m, u) \in Int /\ Linear(m, v) <= Linear(m, u)
<1>1. IsFiniteSet({x, y})
  <2>1. {x, y} = {x, y, y}
    OBVIOUS
  <2> QED BY <2>1, FewAreFinite
<1>2. LinearVector(m, v) /\ LinearVector(m, u)
  BY <1>1 DEF LinearVector, Numbers
<1>3. \A n \in DOMAIN v : v[n] <= u[n]
  OBVIOUS
<1> QED BY <1>2, <1>3, LinearGrows

LEMMA MechanismStaysEarly ==
  ASSUME NEW m, \A name \in {"hash", "move", "join"} : LinearNumbers(m[name]), ValidMechanism(m),
         NEW w, NEW u, MoreMatch(w, u), ByMechanism(w, m).placement = "early"
  PROVE  ByMechanism(u, m).placement = "early"
<1> DEFINE hash(r, b) == Linear(m.hash, [rows |-> r, bytes |-> b])
           move(r, b) == Linear(m.move, [rows |-> r, bytes |-> b])
           join(r, o) == Linear(m.join, [input |-> r, output |-> o])
<1>1. PICK r, k, l, rx, kx, lx, rh \in Nat :
        /\ r = Rows(w) /\ k = Matched(w) /\ l = Matched(u) /\ k <= l
        /\ rx = Rows(w) * w.width /\ kx = Matched(w) * w.width /\ lx = Matched(u) * w.width
        /\ kx <= lx /\ rh = Rows(w) * HashedWidth
  <2>1. /\ Rows(w) \in Nat /\ Matched(w) \in Nat /\ Rows(w) * w.width \in Nat
        /\ Matched(w) * w.width \in Nat /\ Rows(w) * HashedWidth \in Nat
    BY Amounts DEF MoreMatch
  <2>2. Matched(u) \in Nat /\ Matched(w) <= Matched(u)
    BY Amounts, MoreAmounts DEF MoreMatch
  <2>3. Matched(u) * w.width \in Nat /\ Matched(w) * w.width <= Matched(u) * w.width
    BY Amounts, MoreAmounts DEF MoreMatch
  <2> USE <2>1, <2>2, <2>3
  <2> WITNESS Rows(w) \in Nat, Matched(w) \in Nat, Matched(u) \in Nat,
              Rows(w) * w.width \in Nat, Matched(w) * w.width \in Nat,
              Matched(u) * w.width \in Nat, Rows(w) * HashedWidth \in Nat
  <2> QED BY Zenon
<1>2. /\ MechanismCost(m, w, "early") = hash(r, rx) + move(r, rh) + join(r, k)
      /\ MechanismCost(m, u, "early") = hash(r, rx) + move(r, rh) + join(r, l)
      /\ MechanismCost(m, w, "late") = hash(k, kx) + move(k, kx) + join(r, k)
      /\ MechanismCost(m, u, "late") = hash(l, lx) + move(l, lx) + join(r, l)
  BY <1>1, MoreAmounts DEF MechanismCost, HashBytes
<1>3. /\ LinearNumbers(m.hash) /\ NonNegative(m.hash.coef) /\ DOMAIN m.hash.coef = {"rows", "bytes"}
      /\ LinearNumbers(m.move) /\ NonNegative(m.move.coef) /\ DOMAIN m.move.coef = {"rows", "bytes"}
      /\ LinearNumbers(m.join) /\ NonNegative(m.join.coef)
      /\ DOMAIN m.join.coef = {"input", "output"}
  BY DEF ValidMechanism
<1>4. ASSUME NEW a \in Nat, NEW b \in Nat, NEW c \in Nat, NEW d \in Nat, a <= c, b <= d
      PROVE  /\ hash(a, b) \in Int /\ hash(c, d) \in Int /\ hash(a, b) <= hash(c, d)
             /\ move(a, b) \in Int /\ move(c, d) \in Int /\ move(a, b) <= move(c, d)
             /\ join(a, b) \in Int
  <2>1. PICK v, z : v = [rows |-> a, bytes |-> b] /\ z = [rows |-> c, bytes |-> d]
    OBVIOUS
  <2>2. /\ DOMAIN v = {"rows", "bytes"} /\ v["rows"] = a /\ v["bytes"] = b
        /\ DOMAIN z = {"rows", "bytes"} /\ z["rows"] = c /\ z["bytes"] = d
    BY <2>1
  <2>3. a \in Int /\ b \in Int /\ c \in Int /\ d \in Int /\ a <= c /\ b <= d
    BY <1>4
  <2>4. Linear(m.hash, v) \in Int /\ Linear(m.hash, z) \in Int /\ Linear(m.hash, v) <= Linear(m.hash, z)
    BY <1>3, <2>2, <2>3, PartGrows
  <2>5. Linear(m.move, v) \in Int /\ Linear(m.move, z) \in Int /\ Linear(m.move, v) <= Linear(m.move, z)
    BY <1>3, <2>2, <2>3, PartGrows
  <2>6. PICK o : o = [input |-> a, output |-> b]
    OBVIOUS
  <2>7. DOMAIN o = {"input", "output"} /\ o["input"] = a /\ o["output"] = b /\ a <= a /\ b <= b
    BY <2>6, <2>3
  <2>8. Linear(m.join, o) \in Int
    BY <1>3, <2>3, <2>7, PartGrows
  <2> QED BY <2>1, <2>4, <2>5, <2>6, <2>8
<1> HIDE DEF hash, move, join
<1>5. /\ hash(r, rx) \in Int /\ move(r, rh) \in Int /\ join(r, k) \in Int /\ join(r, l) \in Int
      /\ hash(k, kx) \in Int /\ hash(l, lx) \in Int /\ hash(k, kx) <= hash(l, lx)
      /\ move(k, kx) \in Int /\ move(l, lx) \in Int /\ move(k, kx) <= move(l, lx)
  <2>1. k <= l /\ kx <= lx /\ \A n \in Nat : n <= n
    BY <1>1
  <2> QED BY <1>4, <2>1
<1>6. MechanismCost(m, w, "early") < MechanismCost(m, w, "late") =>
      MechanismCost(m, u, "early") < MechanismCost(m, u, "late")
  BY <1>2, <1>5
<1> QED BY <1>6, GovernedStaysEarly, EarlyIsCheaper, ChosenPlacement DEF ByMechanism
-----------------------------------------------------------------------------
\* A term moves with its feature, as the sign of its coefficient says.
LEMMA TermsMove ==
  ASSUME NEW m, NEW v, NEW u, DOMAIN u = DOMAIN v, SurfaceVector(m, v), SurfaceVector(m, u),
         NEW n \in DOMAIN v
  PROVE  /\ SurfaceTerms(m, v)[n] \in Int /\ SurfaceTerms(m, u)[n] \in Int
         /\ v[n] = u[n] => SurfaceTerms(m, v)[n] = SurfaceTerms(m, u)[n]
         /\ m.coef[n] >= 0 /\ v[n] <= u[n] => SurfaceTerms(m, v)[n] <= SurfaceTerms(m, u)[n]
         /\ m.coef[n] <= 0 /\ v[n] <= u[n] => SurfaceTerms(m, u)[n] <= SurfaceTerms(m, v)[n]
<1>1. /\ m.coef[n] \in Int /\ v[n] \in Int /\ u[n] \in Int /\ m.mean[n] \in Int
      /\ m.scale[n] \in Int /\ m.scale[n] > 0
  BY DEF SurfaceVector, LinearVector, SurfaceNumbers, LinearNumbers, Numbers
<1>2. PICK c, x, y \in Int : c = m.coef[n] /\ x = v[n] - m.mean[n] /\ y = u[n] - m.mean[n]
  <2>1. m.coef[n] \in Int /\ v[n] - m.mean[n] \in Int /\ u[n] - m.mean[n] \in Int
    BY <1>1
  <2> QED BY <2>1, Zenon
<1>3. PICK k \in Nat : k = Unit \div m.scale[n]
  BY <1>1, UnitsOfScale
<1>4. SurfaceTerms(m, v)[n] = c * x * k /\ SurfaceTerms(m, u)[n] = c * y * k
  BY <1>2, <1>3 DEF SurfaceTerms
<1>5. (v[n] = u[n] <=> x = y) /\ (v[n] <= u[n] <=> x <= y)
  BY <1>1, <1>2
<1>6. c * x \in Int /\ c * y \in Int /\ k \in Int
  <2>1. k \in Int
    OBVIOUS
  <2> QED BY <2>1, Products, Zenon
<1>7. c * x * k \in Int /\ c * y * k \in Int
  BY <1>6, Products, Zenon
<1>8. c >= 0 /\ x <= y => c * x * k <= c * y * k
  <2> SUFFICES ASSUME c >= 0, x <= y PROVE c * x * k <= c * y * k
    OBVIOUS
  <2>1. c \in Nat
    OBVIOUS
  <2>2. c * x <= c * y
    BY <2>1, Products, Zenon
  <2> QED BY <1>3, <1>6, <2>2, Products, Zenon
<1>9. c <= 0 /\ x <= y => c * y * k <= c * x * k
  <2> SUFFICES ASSUME c <= 0, x <= y PROVE c * y * k <= c * x * k
    OBVIOUS
  <2>1. c * y <= c * x
    BY Products, Zenon
  <2> QED BY <1>3, <1>6, <2>1, Products, Zenon
<1>10. x = y => c * x * k = c * y * k
  OBVIOUS
<1> HIDE DEF SurfaceTerms
<1> QED BY <1>2, <1>4, <1>5, <1>7, <1>8, <1>9, <1>10, Zenon
-----------------------------------------------------------------------------
ResidualNames == {"rows", "rows2", "width", "width2", "rows_width"} \cup MatchFeatures

LEMMA ResidualNamesAre ==
  /\ IsFiniteSet(ResidualNames)
  /\ \A w : DOMAIN ResidualFeatures(w) = ResidualNames
<1>1. ResidualNames = {"rows", "rows2", "width"} \cup {"width2", "rows_width", "match"}
                        \cup {"match_rows", "match_width", "match_rows_width"}
  BY DEF ResidualNames, MatchFeatures
<1>2. IsFiniteSet(ResidualNames)
  <2>1. IsFiniteSet({"rows", "rows2", "width"} \cup {"width2", "rows_width", "match"})
    BY FewAreFinite, FS_Union
  <2> QED BY <1>1, <2>1, FewAreFinite, FS_Union
<1>3. \A w : DOMAIN ResidualFeatures(w) = ResidualNames
  BY DEF ResidualFeatures, ResidualNames, MatchFeatures
<1> QED BY <1>2, <1>3

\* The match features of a residual grow with the rate, the others stay.
LEMMA ResidualFeaturesMove ==
  ASSUME NEW w, NEW u, MoreMatch(w, u)
  PROVE  /\ Numbers(ResidualFeatures(w)) /\ Numbers(ResidualFeatures(u))
         /\ \A n \in ResidualNames \ MatchFeatures : ResidualFeatures(w)[n] = ResidualFeatures(u)[n]
         /\ \A n \in MatchFeatures : ResidualFeatures(w)[n] <= ResidualFeatures(u)[n]
<1>1. PICK r, b, p, q \in Nat :
        /\ r = Log[Rows(w)] /\ b = Log[w.width] /\ p = w.rate /\ q = u.rate /\ p <= q
  BY AmountsHaveLogs, LogsAreNat DEF MoreMatch, Sized
<1>2. PICK rr, bb, rb, pr, pb, prb, qr, qb, qrb \in Nat :
        /\ rr = r * r /\ bb = b * b /\ rb = r * b
        /\ pr = p * r /\ pb = p * b /\ prb = p * r * b
        /\ qr = q * r /\ qb = q * b /\ qrb = q * r * b
  <2>1. /\ r * r \in Nat /\ b * b \in Nat /\ r * b \in Nat
        /\ p * r \in Nat /\ p * b \in Nat /\ q * r \in Nat /\ q * b \in Nat
    BY Products, Zenon
  <2>2. p * r * b \in Nat /\ q * r * b \in Nat
    BY <2>1, Products, Zenon
  <2> QED BY <2>1, <2>2
<1>3. pr <= qr /\ pb <= qb /\ prb <= qrb
  <2>1. p \in Int /\ q \in Int /\ p <= q
    BY <1>1
  <2>2. p * r <= q * r /\ p * b <= q * b
    BY <2>1, Products, Zenon
  <2>3. p * r \in Int /\ q * r \in Int
    BY <1>2
  <2>4. p * r * b <= q * r * b
    BY <2>2, <2>3, Products, Zenon
  <2> QED BY <1>2, <2>2, <2>4
<1>4. ResidualFeatures(w) =
        [rows |-> r, rows2 |-> rr, width |-> b, width2 |-> bb, rows_width |-> rb,
         match |-> p, match_rows |-> pr, match_width |-> pb, match_rows_width |-> prb]
  BY <1>1, <1>2, Zenon DEF ResidualFeatures
<1>5. ResidualFeatures(u) =
        [rows |-> r, rows2 |-> rr, width |-> b, width2 |-> bb, rows_width |-> rb,
         match |-> q, match_rows |-> qr, match_width |-> qb, match_rows_width |-> qrb]
  BY <1>1, <1>2, MoreAmounts, Zenon DEF ResidualFeatures
<1>6. Numbers(ResidualFeatures(w)) /\ Numbers(ResidualFeatures(u))
  <2>1. Numbers(ResidualFeatures(w))
    BY <1>4 DEF Numbers
  <2>2. Numbers(ResidualFeatures(u))
    BY <1>5 DEF Numbers
  <2> QED BY <2>1, <2>2
<1>7. \A n \in ResidualNames \ MatchFeatures : ResidualFeatures(w)[n] = ResidualFeatures(u)[n]
  BY <1>4, <1>5 DEF ResidualNames, MatchFeatures
<1>8. \A n \in MatchFeatures : ResidualFeatures(w)[n] <= ResidualFeatures(u)[n]
  BY <1>1, <1>3, <1>4, <1>5 DEF MatchFeatures
<1> QED BY <1>6, <1>7, <1>8

\* What a residual model stores, once accepted.
StoredResidual(m) ==
  /\ LinearNumbers(m.base) /\ SurfaceNumbers(m) /\ MarginNumbers(m)
  /\ ValidResidual(m)

LEMMA ResidualVectors ==
  ASSUME NEW m, StoredResidual(m), NEW w, Numbers(ResidualFeatures(w))
  PROVE  SurfaceVector(m, ResidualFeatures(w))
<1>1. DOMAIN m.coef = ResidualNames /\ DOMAIN m.mean = ResidualNames /\ DOMAIN m.scale = ResidualNames
  BY ResidualNamesAre DEF StoredResidual, ValidResidual, ValidSurface
<1>2. \A n \in ResidualNames : m.scale[n] > 0
  BY ResidualNamesAre DEF StoredResidual, ValidResidual, ValidSurface
<1>3. LinearNumbers(m) /\ SurfaceNumbers(m)
  BY DEF StoredResidual, SurfaceNumbers
<1> QED BY <1>1, <1>2, <1>3, ResidualNamesAre DEF SurfaceVector, LinearVector

\* The constructor's check on the match coefficients: the correction falls.
LEMMA CorrectionFalls ==
  ASSUME NEW m, StoredResidual(m), NEW w, NEW u, MoreMatch(w, u)
  PROVE  /\ Surface(m, ResidualFeatures(w)) \in Int /\ Surface(m, ResidualFeatures(u)) \in Int
         /\ Surface(m, ResidualFeatures(u)) <= Surface(m, ResidualFeatures(w))
<1>1. PICK a, b : a = ResidualFeatures(u) /\ b = ResidualFeatures(w)
  OBVIOUS
<1>2. SurfaceVector(m, a) /\ SurfaceVector(m, b) /\ DOMAIN a = ResidualNames /\ DOMAIN b = ResidualNames
  BY <1>1, ResidualFeaturesMove, ResidualVectors, ResidualNamesAre
<1>3. /\ \A n \in ResidualNames \ MatchFeatures : b[n] = a[n]
      /\ \A n \in MatchFeatures : b[n] <= a[n] /\ m.coef[n] <= 0
  BY <1>1, ResidualFeaturesMove DEF StoredResidual, ValidResidual
<1>4. ASSUME NEW n \in ResidualNames
      PROVE  /\ SurfaceTerms(m, a)[n] \in Int /\ SurfaceTerms(m, b)[n] \in Int
             /\ SurfaceTerms(m, a)[n] <= SurfaceTerms(m, b)[n]
  <2>1. /\ SurfaceTerms(m, b)[n] \in Int /\ SurfaceTerms(m, a)[n] \in Int
        /\ b[n] = a[n] => SurfaceTerms(m, b)[n] = SurfaceTerms(m, a)[n]
        /\ m.coef[n] <= 0 /\ b[n] <= a[n] => SurfaceTerms(m, a)[n] <= SurfaceTerms(m, b)[n]
    BY <1>2, TermsMove
  <2> QED BY <1>3, <2>1
<1>5. \A n \in ResidualNames : SurfaceTerms(m, a)[n] + SurfaceTerms(m, a)[n]
                                 <= SurfaceTerms(m, b)[n] + SurfaceTerms(m, b)[n]
  BY <1>4
<1>6. Surface(m, a) + Surface(m, a) <= Surface(m, b) + Surface(m, b)
  BY <1>2, <1>5, SurfacesCompare
<1>7. Surface(m, a) \in Int /\ Surface(m, b) \in Int
  BY <1>2, SurfaceIsNumber
<1>8. Surface(m, a) <= Surface(m, b)
  BY <1>6, <1>7
<1> QED BY <1>1, <1>7, <1>8

(* The corrected ratio falls, and so does the base ratio it corrects; a    *)
(* sign the correction changes at the higher rate with too small a margin  *)
(* it had changed with no larger one at the lower.                         *)
LEMMA ResidualStaysEarly ==
  ASSUME NEW m, StoredResidual(m), NEW w, NEW u, MoreMatch(w, u),
         ResidualInSupport(w, m), ResidualInSupport(u, m),
         ByResidual(w, m).placement = "early"
  PROVE  ByResidual(u, m).placement = "early"
<1>1. PICK b, c, d, e, k : /\ b = BaseRatio(w, m) /\ c = b + Surface(m, ResidualFeatures(w))
                           /\ d = BaseRatio(u, m) /\ e = d + Surface(m, ResidualFeatures(u))
                           /\ k = m.multiplier * m.rmse
  OBVIOUS
<1>2. {b, c, d, e, k} \subseteq Int /\ d <= b /\ e <= c
  <2>1. LinearNumbers(m.base) /\ ValidCost(m.base)
    BY DEF StoredResidual, ValidResidual
  <2>2. PICK x, y \in Int : /\ x = CostOf(w, m.base, "early") - CostOf(w, m.base, "late")
                            /\ y = CostOf(u, m.base, "early") - CostOf(u, m.base, "late")
                            /\ y <= x
    BY <2>1, CostsMove
  <2>3. Unit \in Nat /\ Unit \in Int /\ b = Unit * x /\ d = Unit * y
    BY <1>1, <2>2, QuantityAssumption DEF BaseRatio
  <2>4. b \in Int /\ d \in Int /\ d <= b
    BY <2>2, <2>3, Products, Zenon
  <2>5. k \in Int
    <3>1. m.multiplier \in Int /\ m.rmse \in Int
      BY DEF StoredResidual, MarginNumbers
    <3> QED BY <1>1, <3>1, Products, Zenon
  <2>6. c \in Int /\ e \in Int /\ e <= c
    BY <1>1, <2>4, CorrectionFalls
  <2> QED BY <2>4, <2>5, <2>6
<1> DEFINE answer(v, base, corrected) ==
             IF ((base < 0) # (corrected < 0)) /\ ~(Abs(corrected) > k)
             THEN Chosen(v, Cheaper(base, 0), "fallback")
             ELSE Chosen(v, Cheaper(corrected, 0), "model")
<1>3. /\ ByResidual(w, m) = Governed(w, answer(w, b, c))
      /\ ByResidual(u, m) = Governed(u, answer(u, d, e))
  BY <1>1 DEF ByResidual
<1>4. ASSUME NEW v, NEW base \in Int, NEW corrected \in Int
      PROVE  answer(v, base, corrected).placement = "early" <=>
               IF ((base < 0) # (corrected < 0)) /\ ~(Abs(corrected) > k)
               THEN base < 0 ELSE corrected < 0
  BY EarlyIsCheaper, ChosenPlacement
<1> HIDE DEF answer
<1>5. answer(w, b, c).placement = "early" => answer(u, d, e).placement = "early"
  <2>1. (IF ((b < 0) # (c < 0)) /\ ~(Abs(c) > k) THEN b < 0 ELSE c < 0)
        => (IF ((d < 0) # (e < 0)) /\ ~(Abs(e) > k) THEN d < 0 ELSE e < 0)
    BY <1>2 DEF Abs
  <2> QED BY <1>2, <1>4, <2>1
<1> QED BY <1>3, <1>5, GovernedStaysEarly
-----------------------------------------------------------------------------
PipelineNames == {"scan", "hash", "join", "output", "breaker"}

LEMMA PipelineNamesAre ==
  /\ IsFiniteSet(PipelineNames)
  /\ \A w, p : DOMAIN PipelineFeatures(w, p) = PipelineNames
<1>1. PipelineNames = {"scan", "hash", "join"} \cup {"output", "breaker", "breaker"}
  BY DEF PipelineNames
<1>2. IsFiniteSet(PipelineNames)
  BY <1>1, FewAreFinite, FS_Union
<1>3. \A w, p : DOMAIN PipelineFeatures(w, p) = PipelineNames
  BY DEF PipelineFeatures, PipelineNames
<1> QED BY <1>2, <1>3

(* Only the output of both placements and what a late one has left to hash *)
(* depend on the match rate.                                               *)
LEMMA PipelineFeaturesMove ==
  ASSUME NEW w, NEW u, MoreMatch(w, u)
  PROVE  /\ \A p \in Placements : Numbers(PipelineFeatures(w, p)) /\ Numbers(PipelineFeatures(u, p))
         /\ \A n \in PipelineNames :
              \/ /\ PipelineFeatures(u, "early")[n] = PipelineFeatures(w, "early")[n]
                 /\ PipelineFeatures(w, "late")[n] <= PipelineFeatures(u, "late")[n]
              \/ /\ PipelineFeatures(u, "early")[n] = PipelineFeatures(u, "late")[n]
                 /\ PipelineFeatures(w, "late")[n] = PipelineFeatures(w, "early")[n]
<1>1. PICK scan, thin, less, more, few, many \in Nat :
        /\ scan = Log[Rows(w) * w.width] /\ thin = Log[Rows(w) * HashedWidth]
        /\ less = Log[Matched(w) * w.width] /\ more = Log[Matched(u) * w.width]
        /\ few = Log[Matched(w)] /\ many = Log[Matched(u)]
  <2>1. /\ Matched(u) \in DOMAIN Log /\ Matched(u) * w.width \in DOMAIN Log
    BY AmountsHaveLogs, MoreAmounts DEF MoreMatch
  <2>2. /\ Log[Rows(w) * w.width] \in Nat /\ Log[Rows(w) * HashedWidth] \in Nat
        /\ Log[Matched(w) * w.width] \in Nat /\ Log[Matched(w)] \in Nat
    BY AmountsHaveLogs, LogsAreNat DEF MoreMatch
  <2>3. Log[Matched(u) * w.width] \in Nat /\ Log[Matched(u)] \in Nat
    BY <2>1, LogsAreNat
  <2> QED BY <2>2, <2>3, Zenon
<1>2. less <= more /\ few <= many
  <2>1. /\ Matched(u) \in DOMAIN Log /\ Matched(u) * w.width \in DOMAIN Log
        /\ Matched(w) \in Nat /\ Matched(w) * w.width \in Nat
    BY Amounts, AmountsHaveLogs, MoreAmounts DEF MoreMatch
  <2>2. Log[Matched(w)] <= Log[Matched(u)]
    BY <2>1, MoreAmounts, LogGrows
  <2>3. Log[Matched(w) * w.width] <= Log[Matched(u) * w.width]
    BY <2>1, MoreAmounts, LogGrows
  <2> QED BY <1>1, <2>2, <2>3
<1>3. /\ PipelineFeatures(w, "early") =
           [scan |-> scan, hash |-> scan, join |-> thin, output |-> few, breaker |-> 1]
      /\ PipelineFeatures(w, "late") =
           [scan |-> scan, hash |-> less, join |-> scan, output |-> few, breaker |-> 0]
  BY <1>1 DEF PipelineFeatures, HashBytes
<1>4. /\ PipelineFeatures(u, "early") =
           [scan |-> scan, hash |-> scan, join |-> thin, output |-> many, breaker |-> 1]
      /\ PipelineFeatures(u, "late") =
           [scan |-> scan, hash |-> more, join |-> scan, output |-> many, breaker |-> 0]
  BY <1>1, MoreAmounts DEF PipelineFeatures, HashBytes
<1>5. Numbers(PipelineFeatures(w, "early")) /\ Numbers(PipelineFeatures(w, "late"))
  <2>1. Numbers(PipelineFeatures(w, "early"))
    BY <1>3 DEF Numbers
  <2>2. Numbers(PipelineFeatures(w, "late"))
    BY <1>3 DEF Numbers
  <2> QED BY <2>1, <2>2
<1>6. Numbers(PipelineFeatures(u, "early")) /\ Numbers(PipelineFeatures(u, "late"))
  <2>1. Numbers(PipelineFeatures(u, "early"))
    BY <1>4 DEF Numbers
  <2>2. Numbers(PipelineFeatures(u, "late"))
    BY <1>4 DEF Numbers
  <2> QED BY <2>1, <2>2
<1>7. ASSUME NEW n \in PipelineNames
      PROVE  \/ /\ PipelineFeatures(u, "early")[n] = PipelineFeatures(w, "early")[n]
                /\ PipelineFeatures(w, "late")[n] <= PipelineFeatures(u, "late")[n]
             \/ /\ PipelineFeatures(u, "early")[n] = PipelineFeatures(u, "late")[n]
                /\ PipelineFeatures(w, "late")[n] = PipelineFeatures(w, "early")[n]
  BY <1>2, <1>3, <1>4 DEF PipelineNames
<1> QED BY <1>5, <1>6, <1>7 DEF Placements

StoredPipeline(m) == SurfaceNumbers(m) /\ MarginNumbers(m) /\ ValidPipeline(m)

LEMMA PipelineVectors ==
  ASSUME NEW m, StoredPipeline(m), NEW v, DOMAIN v = PipelineNames, Numbers(v)
  PROVE  SurfaceVector(m, v)
<1>1. DOMAIN m.coef = PipelineNames /\ DOMAIN m.mean = PipelineNames /\ DOMAIN m.scale = PipelineNames
  BY PipelineNamesAre DEF StoredPipeline, ValidPipeline, ValidSurface
<1>2. \A n \in PipelineNames : m.scale[n] > 0
  BY PipelineNamesAre DEF StoredPipeline, ValidPipeline, ValidSurface
<1>3. LinearNumbers(m) /\ SurfaceNumbers(m)
  BY DEF StoredPipeline, SurfaceNumbers
<1> QED BY <1>1, <1>2, <1>3, PipelineNamesAre DEF SurfaceVector, LinearVector

LEMMA RatioFalls ==
  ASSUME NEW m, StoredPipeline(m), NEW w, NEW u, MoreMatch(w, u)
  PROVE  /\ PipelineRatio(w, m) \in Int /\ PipelineRatio(u, m) \in Int
         /\ PipelineRatio(u, m) <= PipelineRatio(w, m)
<1>1. PICK a, b, c, d : /\ a = PipelineFeatures(u, "early") /\ b = PipelineFeatures(w, "late")
                        /\ c = PipelineFeatures(w, "early") /\ d = PipelineFeatures(u, "late")
  OBVIOUS
<1>2. /\ \A p \in Placements : Numbers(PipelineFeatures(w, p)) /\ Numbers(PipelineFeatures(u, p))
      /\ \A n \in PipelineNames : \/ a[n] = c[n] /\ b[n] <= d[n]
                                  \/ a[n] = d[n] /\ b[n] = c[n]
  BY <1>1, PipelineFeaturesMove
<1>3. Numbers(a) /\ Numbers(b) /\ Numbers(c) /\ Numbers(d)
  BY <1>1, <1>2 DEF Placements
<1>4. /\ DOMAIN a = PipelineNames /\ DOMAIN b = PipelineNames
      /\ DOMAIN c = PipelineNames /\ DOMAIN d = PipelineNames
  BY <1>1, PipelineNamesAre
<1>5. /\ SurfaceVector(m, a) /\ SurfaceVector(m, b)
      /\ SurfaceVector(m, c) /\ SurfaceVector(m, d)
  BY <1>3, <1>4, PipelineVectors
<1>6. ASSUME NEW n \in PipelineNames
      PROVE  SurfaceTerms(m, a)[n] + SurfaceTerms(m, b)[n]
               <= SurfaceTerms(m, c)[n] + SurfaceTerms(m, d)[n]
  <2>1. /\ SurfaceTerms(m, a)[n] \in Int /\ SurfaceTerms(m, c)[n] \in Int
        /\ a[n] = c[n] => SurfaceTerms(m, a)[n] = SurfaceTerms(m, c)[n]
    BY <1>4, <1>5, TermsMove
  <2>2. /\ SurfaceTerms(m, b)[n] \in Int /\ SurfaceTerms(m, d)[n] \in Int
        /\ m.coef[n] >= 0 /\ b[n] <= d[n] => SurfaceTerms(m, b)[n] <= SurfaceTerms(m, d)[n]
    BY <1>4, <1>5, TermsMove
  <2>3. a[n] = d[n] => SurfaceTerms(m, a)[n] = SurfaceTerms(m, d)[n]
    BY <1>4, <1>5, TermsMove
  <2>4. b[n] = c[n] => SurfaceTerms(m, b)[n] = SurfaceTerms(m, c)[n]
    BY <1>4, <1>5, TermsMove
  <2>5. m.coef[n] >= 0
    BY <1>4, <1>5 DEF StoredPipeline, ValidPipeline, NonNegative, SurfaceVector, LinearVector
  <2>6. CASE a[n] = c[n] /\ b[n] <= d[n]
    BY <2>1, <2>2, <2>5, <2>6
  <2>7. CASE a[n] = d[n] /\ b[n] = c[n]
    BY <2>1, <2>2, <2>3, <2>4, <2>7
  <2> QED BY <1>2, <2>6, <2>7
<1>7. Surface(m, a) + Surface(m, b) <= Surface(m, c) + Surface(m, d)
  BY <1>4, <1>5, <1>6, SurfacesCompare
<1>8. /\ Surface(m, a) \in Int /\ Surface(m, b) \in Int
      /\ Surface(m, c) \in Int /\ Surface(m, d) \in Int
  BY <1>5, SurfaceIsNumber
<1>9. PipelineRatio(w, m) = Surface(m, c) - Surface(m, b) /\ PipelineRatio(u, m) = Surface(m, a) - Surface(m, d)
  BY <1>1 DEF PipelineRatio
<1> QED BY <1>7, <1>8, <1>9

(* A ratio below the margin stays below it; one within the margin leaves   *)
(* the choice to V1, which stays early, or clears the margin.              *)
LEMMA PipelineStaysEarly ==
  ASSUME NEW m, StoredPipeline(m), NEW w, NEW u, MoreMatch(w, u),
         InSupport(w, m), InSupport(u, m), ByPipeline(w, m).placement = "early"
  PROVE  ByPipeline(u, m).placement = "early"
<1>1. PICK x, y, k : x = PipelineRatio(w, m) /\ y = PipelineRatio(u, m) /\ k = Margin(m)
  OBVIOUS
<1>2. x \in Int /\ y \in Int /\ y <= x
  BY <1>1, RatioFalls
<1>3. k \in Nat
  <2>1. m.rmse \in Nat /\ m.multiplier \in Nat
    BY DEF StoredPipeline, MarginNumbers, ValidPipeline
  <2>2. m.rmse * m.multiplier \in Nat
    BY <2>1, Products, Zenon
  <2> QED BY <1>1, <2>2 DEF Margin
<1> DEFINE answer(v, ratio) ==
             IF Abs(ratio) <= k THEN Chosen(v, V1(v).placement, "fallback")
             ELSE Chosen(v, Cheaper(ratio, 0), "model")
<1>4. ByPipeline(w, m) = Governed(w, answer(w, x)) /\ ByPipeline(u, m) = Governed(u, answer(u, y))
  BY <1>1 DEF ByPipeline
<1>5. ASSUME NEW v, NEW ratio \in Int
      PROVE  answer(v, ratio).placement = "early" <=>
               IF Abs(ratio) <= k THEN V1(v).placement = "early" ELSE ratio < 0
  BY EarlyIsCheaper, ChosenPlacement
<1> HIDE DEF answer
<1>6. answer(w, x).placement = "early" => answer(u, y).placement = "early"
  <2>1. V1(w).placement = "early" => V1(u).placement = "early"
    BY V1StaysEarly
  <2>2. /\ ~(Abs(x) <= k) /\ x < 0 => ~(Abs(y) <= k) /\ y < 0
        /\ Abs(x) <= k => Abs(y) <= k \/ y < 0
    BY <1>2, <1>3 DEF Abs
  <2>3. (IF Abs(x) <= k THEN V1(w).placement = "early" ELSE x < 0)
        => (IF Abs(y) <= k THEN V1(u).placement = "early" ELSE y < 0)
    BY <2>1, <2>2, Zenon
  <2> QED BY <1>2, <1>5, <2>3
<1> QED BY <1>4, <1>6, GovernedStaysEarly
-----------------------------------------------------------------------------
(* "A higher Join match rate must not make early Mask less attractive"     *)
(* (mask_residual.py:30), for every workload and every stored model of the *)
(* five kinds whose costs are monotone: what is chosen early stays early   *)
(* when more rows match, whatever the coefficients the constructor accepts *)
(* and through corrections, margins and fallbacks.                         *)
THEOREM EarlyStaysEarly == Spec => []MatchMonotone
<1>1. PlacementInv => MatchMonotone
  <2> SUFFICES ASSUME PlacementInv, Decided,
                      payload.kind \in {"v1", "cost", "mechanism", "residual", "pipeline"},
                      NEW rate \in workload.rate..Full, NEW u,
                      u = [workload EXCEPT !.rate = rate],
                      Fits(u, payload.model, payload.kind),
                      Fits(workload, payload.model, payload.kind),
                      decision.placement = "early"
               PROVE  Choose(payload.kind, u, payload.model).placement = "early"
    BY DEF MatchMonotone
  <2>1. PICK w, m : w = workload /\ m = payload.model
    OBVIOUS
  <2>2. MoreMatch(w, u)
    <3>1. Sized(w)
      BY <2>1, WorkloadsAreSized DEF PlacementInv
    <3>2. rate \in Nat /\ w.rate <= rate /\ rate <= Full
      BY <2>1, <3>1, QuantityAssumption DEF Sized
    <3>3. /\ DOMAIN u = DOMAIN w /\ u.rows = w.rows /\ u.width = w.width /\ u.rate = rate
          /\ u.early = w.early /\ u.late = w.late /\ u.limit = w.limit
      BY <2>1, <3>1 DEF Sized
    <3>4. Rows(u) = Rows(w)
      BY <3>3 DEF Rows
    <3>5. Sized(u)
      BY <3>1, <3>2, <3>3, <3>4 DEF Sized
    <3> QED BY <3>1, <3>2, <3>3, <3>5 DEF MoreMatch
  <2>3. decision = Choose(payload.kind, w, m) /\ Valid(payload.kind, m)
    BY <2>1 DEF PlacementInv, Decided
  <2>4. payload \in Payloads
    BY DEF PlacementInv
  <2>5. CASE payload.kind = "v1"
    BY <2>2, <2>3, <2>5, V1StaysEarly DEF Choose
  <2>6. CASE payload.kind = "cost"
    <3>1. LinearNumbers(m) /\ ValidCost(m)
      BY <2>1, <2>3, <2>4, <2>6, PayloadAssumption DEF Valid
    <3>2. ByCost(w, m).placement = "early"
      BY <2>3, <2>6 DEF Choose
    <3>3. ByCost(u, m).placement = "early"
      BY <2>2, <3>1, <3>2, CostStaysEarly
    <3> QED BY <2>1, <2>6, <3>3 DEF Choose
  <2>7. CASE payload.kind = "mechanism"
    <3>1. (\A name \in {"hash", "move", "join"} : LinearNumbers(m[name])) /\ ValidMechanism(m)
      BY <2>1, <2>3, <2>4, <2>7, PayloadAssumption DEF Valid
    <3>2. ByMechanism(w, m).placement = "early"
      BY <2>3, <2>7 DEF Choose
    <3>3. ByMechanism(u, m).placement = "early"
      BY <2>2, <3>1, <3>2, MechanismStaysEarly
    <3> QED BY <2>1, <2>7, <3>3 DEF Choose
  <2>8. CASE payload.kind = "residual"
    <3>1. StoredResidual(m)
      BY <2>1, <2>3, <2>4, <2>8, PayloadAssumption DEF Valid, StoredResidual
    <3>2. ByResidual(w, m).placement = "early"
      BY <2>3, <2>8 DEF Choose
    <3>3. ResidualInSupport(w, m) /\ ResidualInSupport(u, m)
      BY <2>1, <2>8 DEF Fits
    <3>4. ByResidual(u, m).placement = "early"
      BY <2>2, <3>1, <3>2, <3>3, ResidualStaysEarly
    <3> QED BY <2>1, <2>8, <3>4 DEF Choose
  <2>9. CASE payload.kind = "pipeline"
    <3>1. StoredPipeline(m)
      BY <2>1, <2>3, <2>4, <2>9, PayloadAssumption DEF Valid, StoredPipeline
    <3>2. ByPipeline(w, m).placement = "early"
      BY <2>3, <2>9 DEF Choose
    <3>3. InSupport(w, m) /\ InSupport(u, m)
      BY <2>1, <2>9 DEF Fits
    <3>4. ByPipeline(u, m).placement = "early"
      BY <2>2, <3>1, <3>2, <3>3, PipelineStaysEarly
    <3> QED BY <2>1, <2>9, <3>4 DEF Choose
  <2> QED BY <2>5, <2>6, <2>7, <2>8, <2>9
<1> QED BY <1>1, PlacementInvariant, PTL
=============================================================================
