-------------------------- MODULE FrozenModelsProofs --------------------------
(***************************************************************************)
(* Theorems about the frozen cost models, for every set of models, of      *)
(* measured runs and of requests that the constructors accept.             *)
(***************************************************************************)
EXTENDS FrozenModels, FiniteLemmas

-----------------------------------------------------------------------------
\* From a calibration to the configuration that binds its files.

RecordOf(model) == [model |-> model.content, passed |-> model.authorized]

Fitted == [content : Models, authorized : BOOLEAN]

(* The two files are of one calibration unless it is between them or died  *)
(* there; the configuration binds files that were.                         *)
FilesInv ==
  /\ checkpoint \in Checkpoints \cup {None}
  /\ files.model \in Fitted \cup {None}
  /\ pending # None => pending = RecordOf(files.model) /\ files.model \in Fitted
  /\ pending = None /\ files.record # None => interrupted.files \/ files.record = RecordOf(files.model)
  /\ bound # None => /\ bound.model # None
                     /\ interrupted.bound \/ bound.record = RecordOf(bound.model)
  /\ interrupted = [files |-> interrupted.files, bound |-> interrupted.bound]

LEMMA InitFiles == Init => FilesInv
BY DEF Init, FilesInv

\* What a calibration leaves is a model, and its record is not nothing.
LEMMA OutcomeIsFitted ==
  ASSUME NEW model \in Outcomes
  PROVE  model \in Fitted /\ RecordOf(model) # None
<1>1. model \in Fitted
  <2> DEFINE Fit(run, config, fits, final, converged) ==
               [content |-> final, authorized |-> converged /\ Authorized(run, config, fits, final)]
  <2>1. \A run, config, fits, final, converged :
          Fit(run, config, fits, final, converged).authorized \in BOOLEAN
    OBVIOUS
  <2>2. \A run, config, fits, converged : \A final \in Models :
          Fit(run, config, fits, final, converged) \in Fitted
    BY <2>1 DEF Fitted
  <2>3. Outcomes = UNION {{Fit(run, config, fits, final, converged) :
                             config \in Configurations, fits \in [Scenarios(run.groups) -> Models],
                             final \in Models, converged \in BOOLEAN} :
                          run \in {r \in Runs : Learnable(r)}}
    BY DEF Outcomes
  <2> HIDE DEF Fit
  <2> QED BY <2>2, <2>3
<1>2. RecordOf(model) \in [model : Models, passed : BOOLEAN]
  BY <1>1 DEF Fitted, RecordOf
<1> QED BY <1>1, <1>2, FrozenModelsAssumption

LEMMA NextFiles == FilesInv /\ [Next]_vars => FilesInv'
<1> SUFFICES ASSUME FilesInv, [Next]_vars PROVE FilesInv'
  OBVIOUS
<1> USE DEF FilesInv
<1>1. ASSUME NEW model \in Outcomes, Calibrate(model) PROVE FilesInv'
  <2>1. CASE UNCHANGED <<files, pending>>
    BY <1>1, <2>1 DEF Calibrate
  <2>2. CASE files' = [files EXCEPT !.model = model] /\ pending' = RecordOf(model)
    <3>1. files'.model = model
      BY <2>2 DEF Calibrate
    <3> QED BY <1>1, <2>2, <3>1, OutcomeIsFitted DEF Calibrate
  <2> QED BY <1>1, <2>1, <2>2 DEF Calibrate, RecordOf
<1>2. ASSUME UNCHANGED <<files, pending, bound, checkpoint, interrupted>> PROVE FilesInv'
  BY <1>2
<1>3. ASSUME NEW run \in Runs, EvaluateHoldout(run) \/ EvaluateTransfer(run) \/ EvaluateStratified(run)
      PROVE  FilesInv'
  BY <1>2, <1>3 DEF EvaluateHoldout, EvaluateTransfer, EvaluateStratified, EvaluateFrozen
<1>4. ASSUME NEW run \in CheckpointRuns,
             EvaluateCheckpointHoldout(run) \/ EvaluateCheckpointTransfer(run)
      PROVE  FilesInv'
  BY <1>2, <1>4 DEF EvaluateCheckpointHoldout, EvaluateCheckpointTransfer
<1>5. CASE WriteRecord
  <2>1. interrupted'.bound = interrupted.bound /\ files'.model = files.model
        /\ files'.record = pending
    BY <1>5 DEF WriteRecord
  <2>2. interrupted' = [files |-> interrupted'.files, bound |-> interrupted'.bound]
    BY <1>5 DEF WriteRecord
  <2> QED BY <1>5, <2>1, <2>2 DEF WriteRecord
<1>6. CASE Die
  BY <1>6 DEF Die
<1>7. CASE Freeze
  BY <1>7 DEF Freeze
<1>8. ASSUME NEW q \in Requests, Decide(q) PROVE FilesInv'
  BY <1>2, <1>8 DEF Decide
<1>9. CASE UNCHANGED vars
  BY <1>2, <1>9 DEF vars
<1> QED BY <1>1, <1>3, <1>4, <1>5, <1>6, <1>7, <1>8, <1>9 DEF Next

\* What a checkpoint transfer scores.
GuardAlone == [model |-> checkpoint.guard, record |-> None]

\* What the last step says after a step that neither scores nor decides.
Quiet == last' \in {Nothing, Raised}

LEMMA QuietSteps ==
  ASSUME Next
  PROVE  \/ Quiet
         \/ \E run \in Runs : EvaluateHoldout(run) \/ EvaluateTransfer(run) \/ EvaluateStratified(run)
         \/ \E run \in CheckpointRuns :
              EvaluateCheckpointHoldout(run) \/ EvaluateCheckpointTransfer(run)
         \/ \E q \in Requests : Decide(q)
BY DEF Next, Calibrate, WriteRecord, Die, Freeze, Quiet

(* A model that is scored is bound, and what was bound is of a calibration *)
(* that wrote both of its files.                                           *)
LEMMA BoundIsRecorded ==
  ASSUME FilesInv, Bound
  PROVE  /\ files.model \in Fitted
         /\ interrupted.bound \/ files.record = RecordOf(files.model)
BY DEF FilesInv, Bound

LEMMA ScoredStep == FilesInv /\ ScoredIsAuthorized /\ [Next]_vars => ScoredIsAuthorized'
<1> SUFFICES ASSUME FilesInv, ScoredIsAuthorized, [Next]_vars PROVE ScoredIsAuthorized'
  OBVIOUS
<1> USE DEF Scored, PipelineScorings
<1>1. CASE Quiet
  BY <1>1 DEF Quiet, Nothing, Raised, ScoredIsAuthorized
<1>2. ASSUME NEW run, NEW by \in PipelineScorings, NEW config, NEW choice, NEW passed,
             Bound, by = "transfer" \/ files.model.authorized,
             last' = Evaluation(by, files, run, config, choice, passed), UNCHANGED <<files, interrupted>>
      PROVE  ScoredIsAuthorized'
  <2>1. last'.what = "evaluated" /\ last'.by = by /\ last'.model = files.model
        /\ last'.record = files.record
    BY <1>2 DEF Evaluation
  <2> QED BY <1>2, <2>1, BoundIsRecorded DEF RecordOf, ScoredIsAuthorized
<1>3. ASSUME NEW run \in Runs, EvaluateHoldout(run) PROVE ScoredIsAuthorized'
  <2>1. PICK config, choice, passed :
          \/ last' = Raised
          \/ /\ Bound /\ files.model.authorized
             /\ last' = Evaluation("holdout", files, run, config, choice, passed)
    BY <1>3, Zenon DEF EvaluateHoldout, EvaluateFrozen
  <2> QED BY <1>1, <1>2, <1>3, <2>1 DEF EvaluateHoldout, EvaluateFrozen, Quiet
<1>4. ASSUME NEW run \in Runs, EvaluateTransfer(run) PROVE ScoredIsAuthorized'
  <2>1. PICK config, choice, passed :
          \/ last' = Raised
          \/ Bound /\ last' = Evaluation("transfer", files, run, config, choice, passed)
    BY <1>4, Zenon DEF EvaluateTransfer, EvaluateFrozen
  <2> QED BY <1>1, <1>2, <1>4, <2>1 DEF EvaluateTransfer, EvaluateFrozen, Quiet
<1>5. ASSUME NEW run \in Runs, EvaluateStratified(run) PROVE ScoredIsAuthorized'
  <2>1. PICK config, choice, passed :
          \/ last' = Raised
          \/ /\ Bound /\ files.model.authorized
             /\ last' = Evaluation("stratified", files, run, config, choice, passed)
    BY <1>5, Zenon DEF EvaluateStratified
  <2> QED BY <1>1, <1>2, <1>5, <2>1 DEF EvaluateStratified, Quiet
<1>6. ASSUME NEW run \in CheckpointRuns, EvaluateCheckpointHoldout(run)
      PROVE  ScoredIsAuthorized'
  <2>1. PICK config, choice, passed :
          \/ last' = Raised
          \/ /\ Described(checkpoint)
             /\ last' = Evaluation("checkpoint_holdout", checkpoint, run, config, choice, passed)
    BY <1>6, Zenon DEF EvaluateCheckpointHoldout
  <2>2. CASE last' # Raised
    <3>1. last'.by = "checkpoint_holdout" /\ last'.model = checkpoint.model
          /\ last'.record = checkpoint.record
      BY <2>1, <2>2 DEF Evaluation
    <3> QED BY <2>1, <2>2, <3>1 DEF Described, ScoredIsAuthorized
  <2> QED BY <1>1, <2>2 DEF Quiet
<1>7. ASSUME NEW run \in CheckpointRuns, EvaluateCheckpointTransfer(run)
      PROVE  ScoredIsAuthorized'
  <2>1. PICK config, choice, passed :
          \/ last' = Raised
          \/ last' = Evaluation("checkpoint_transfer", GuardAlone, run, config, choice, passed)
    BY <1>7, Zenon DEF EvaluateCheckpointTransfer, GuardAlone
  <2>2. last' # Raised => last'.by = "checkpoint_transfer"
    BY <2>1 DEF Evaluation
  <2> QED BY <1>1, <2>2 DEF Quiet, ScoredIsAuthorized
<1>8. ASSUME NEW q \in Requests, Decide(q) PROVE ScoredIsAuthorized'
  BY <1>8 DEF Decide, ScoredIsAuthorized
<1>9. CASE UNCHANGED vars
  BY <1>9 DEF vars, ScoredIsAuthorized
<1> QED BY <1>1, <1>3, <1>4, <1>5, <1>6, <1>7, <1>8, <1>9, QuietSteps

LEMMA FilesInvariant == Spec => []FilesInv
BY InitFiles, NextFiles, PTL DEF Spec

(* Whatever calibrations, crashes and freezes went before: the two         *)
(* holdouts score an authorized model only, and every scoring pairs a      *)
(* model with its own record, but where the digests were taken of files    *)
(* left by a calibration that had died between them, which nothing in the  *)
(* code notices; a checkpoint holdout asks the record itself.              *)
THEOREM AlwaysAuthorized == Spec => []ScoredIsAuthorized
<1>1. Init => ScoredIsAuthorized
  BY DEF Init, ScoredIsAuthorized, Scored, Nothing
<1> QED BY <1>1, FilesInvariant, ScoredStep, PTL DEF Spec

-----------------------------------------------------------------------------
\* Prices: a sum of nonnegative products.

Rating(m) ==
  /\ m.intercept \in Nat /\ IsFiniteSet(DOMAIN m.rates)
  /\ \A n \in DOMAIN m.rates : m.rates[n] \in Nat

Counted(work) == \A n \in DOMAIN work : work[n] \in Nat

Priced(work, m) == DOMAIN m.rates \cap DOMAIN work

Rated(work, m) == [n \in Priced(work, m) |-> m.rates[n] * work[n]]

LEMMA ProductsOfNaturals ==
  /\ \A a, b \in Nat : a * b \in Nat
  /\ \A a, b, c \in Nat : b <= c => a * b <= a * c
OBVIOUS

LEMMA RatedIsCounted ==
  ASSUME NEW work, NEW m, Rating(m), Counted(work)
  PROVE  /\ IsFiniteSet(Priced(work, m))
         /\ Rated(work, m) \in [Priced(work, m) -> Int]
         /\ \A n \in Priced(work, m) : Rated(work, m)[n] \in Nat
<1>1. IsFiniteSet(Priced(work, m))
  BY FS_Subset DEF Rating, Priced
<1>2. \A n \in Priced(work, m) : m.rates[n] \in Nat /\ work[n] \in Nat
  BY DEF Rating, Counted, Priced
<1>3. \A n \in Priced(work, m) : Rated(work, m)[n] \in Nat
  BY <1>2, ProductsOfNaturals, Zenon DEF Rated
<1> QED BY <1>1, <1>3 DEF Rated

LEMMA PredictedIsSum ==
  ASSUME NEW work, NEW m, Rating(m), Counted(work)
  PROVE  \E h : /\ SumTable(h, Rated(work, m), Priced(work, m))
                /\ Predicted(work, m) = m.intercept + h[Priced(work, m)]
<1> DEFINE S == Priced(work, m)
           price(n) == m.rates[n] * work[n]
           D(k) == [s \in SUBSET S |->
                      IF s = {} THEN 0
                      ELSE price(CHOOSE x \in s : TRUE) + k[s \ {CHOOSE x \in s : TRUE}]]
           iter == CHOOSE k : k = D(k)
<1>1. PICK h \in [SUBSET S -> Int] : Unfolds(h, Rated(work, m), S)
  BY RatedIsCounted, UnfoldsExists
<1>2. \A k : D(k) = [s \in SUBSET S |-> IF s = {} THEN 0
                                        ELSE Rated(work, m)[Pick(s)] + k[s \ {Pick(s)}]]
  <2>1. \A n \in S : price(n) = Rated(work, m)[n]
    BY DEF Rated
  <2>2. \A s \in SUBSET S : s # {} => Pick(s) \in S
    BY PickIn
  <2> HIDE DEF price, S
  <2> QED BY <2>1, <2>2 DEF Pick
<1>3. Predicted(work, m) = m.intercept + iter[S]
  BY DEF Predicted, MapThenSumSet, MapThenFoldSet, Priced
<1>4. Unfolds(iter, Rated(work, m), S)
  <2>1. h = D(h)
    BY <1>1, <1>2 DEF Unfolds
  <2>2. iter = D(iter)
    <3> HIDE DEF D
    <3> QED BY <2>1
  <2> HIDE DEF D, iter
  <2> QED BY <1>2, <2>2 DEF Unfolds
<1> HIDE DEF iter, S
<1>5. iter[S] = h[S]
  BY <1>1, <1>4, RatedIsCounted, UnfoldsAgree, S \in SUBSET S DEF S
<1> QED BY <1>1, <1>3, <1>5, RatedIsCounted DEF SumTable, S

\* More work of every kind is never cheaper.
LEMMA PredictedMonotone ==
  ASSUME NEW less, NEW more, NEW m, Rating(m), Counted(less), Counted(more),
         DOMAIN less = DOMAIN more, \A n \in DOMAIN less : less[n] <= more[n]
  PROVE  Predicted(less, m) <= Predicted(more, m)
<1>1. PICK h : /\ SumTable(h, Rated(less, m), Priced(less, m))
               /\ Predicted(less, m) = m.intercept + h[Priced(less, m)]
  BY PredictedIsSum
<1>2. PICK k : /\ SumTable(k, Rated(more, m), Priced(more, m))
               /\ Predicted(more, m) = m.intercept + k[Priced(more, m)]
  BY PredictedIsSum
<1>3. PICK S : S = Priced(less, m) /\ S = Priced(more, m)
  BY DEF Priced
<1>4. IsFiniteSet(S)
  BY <1>3, RatedIsCounted
<1>5. PICK f, g : f = Rated(less, m) /\ g = Rated(more, m)
  OBVIOUS
<1>6. GrowsAt(f, g, S, 0, 0)
  <2>1. ASSUME NEW n \in S PROVE f[n] <= g[n] /\ f[n] \in Int /\ g[n] \in Int
    <3>1. less[n] \in Nat /\ more[n] \in Nat /\ m.rates[n] \in Nat /\ less[n] <= more[n]
      BY <1>3, <2>1 DEF Priced, Counted, Rating
    <3>2. m.rates[n] * less[n] <= m.rates[n] * more[n]
      BY <3>1, ProductsOfNaturals, Zenon
    <3>3. f[n] = m.rates[n] * less[n] /\ g[n] = m.rates[n] * more[n]
      BY <1>3, <1>5, <2>1 DEF Rated
    <3>4. f[n] \in Nat /\ g[n] \in Nat
      BY <1>3, <1>5, <2>1, RatedIsCounted
    <3>5. f[n] <= g[n]
      BY <3>2, <3>3, Zenon
    <3> QED BY <3>4, <3>5
  <2>2. \A n \in S : f[n] <= g[n] + (IF n = 0 THEN 0 ELSE 0)
    BY <2>1
  <2> QED BY <2>2 DEF GrowsAt
<1>7. h[S] <= k[S] + 0
  BY <1>1, <1>2, <1>3, <1>4, <1>5, <1>6, SumGrowsBy
<1>8. h[S] \in Int /\ k[S] \in Int /\ m.intercept \in Nat
  BY <1>1, <1>2, <1>3, S \in SUBSET S DEF SumTable, Rating
<1> QED BY <1>1, <1>2, <1>3, <1>7, <1>8

LEMMA PredictedIsNat ==
  ASSUME NEW work, NEW m, Rating(m), Counted(work)
  PROVE  Predicted(work, m) \in Nat
<1>1. PICK h : /\ SumTable(h, Rated(work, m), Priced(work, m))
               /\ Predicted(work, m) = m.intercept + h[Priced(work, m)]
  BY PredictedIsSum
<1>2. PICK S, f : S = Priced(work, m) /\ f = Rated(work, m)
  OBVIOUS
<1>3. IsFiniteSet(S) /\ f \in [S -> Int] /\ \A n \in S : f[n] \in Nat
  BY <1>2, RatedIsCounted
<1>4. PICK zero : zero = [n \in S |-> 0]
  OBVIOUS
<1>5. PICK k : SumTable(k, zero, S)
  <2>1. zero \in [S -> Int]
    BY <1>4
  <2>2. PICK k \in [SUBSET S -> Int] : Unfolds(k, zero, S)
    BY <1>3, <2>1, UnfoldsExists
  <2> QED BY <2>1, <2>2 DEF SumTable
<1>6. k[S] = 0
  BY <1>3, <1>4, <1>5, SumOfZeros DEF SumTable
<1>7. GrowsAt(zero, f, S, 0, 0)
  BY <1>3, <1>4 DEF GrowsAt
<1>8. k[S] <= h[S] + 0
  BY <1>1, <1>2, <1>3, <1>5, <1>7, SumGrowsBy
<1>9. h[S] \in Int /\ m.intercept \in Nat
  BY <1>1, <1>2, S \in SUBSET S DEF SumTable, Rating
<1> QED BY <1>1, <1>2, <1>6, <1>8, <1>9

-----------------------------------------------------------------------------
\* Choices between priced candidates.

\* What is within the tie of a price is within the tie of a higher one.
LEMMA WithinIsMonotone ==
  \A a, b, k, t \in Nat : k <= a * (100 + t) /\ a <= b => k <= b * (100 + t)
<1>1. \A a, b, t \in Nat : a <= b => a * (100 + t) <= b * (100 + t)
  OBVIOUS
<1>2. \A a, t \in Nat : a * (100 + t) \in Nat
  OBVIOUS
<1> SUFFICES ASSUME NEW a \in Nat, NEW b \in Nat, NEW k \in Nat, NEW t \in Nat,
                    k <= a * (100 + t), a <= b
             PROVE  k <= b * (100 + t)
  OBVIOUS
<1>3. PICK x, y \in Nat : x = a * (100 + t) /\ y = b * (100 + t)
  BY <1>2, Zenon
<1>4. k <= x /\ x <= y
  BY <1>1, <1>3, Zenon
<1>5. k <= y
  BY <1>3, <1>4
<1> QED BY <1>3, <1>5, Zenon

Names == DOMAIN Alphabetical

LEMMA NamesAreOrdered ==
  /\ Names = {"fused", "join_first", "policy_first", "query_first", "early", "late", "other"}
  /\ \A c \in Names : Alphabetical[c] \in Nat
  /\ \A c, d \in Names : Alphabetical[c] = Alphabetical[d] => c = d
BY DEF Names, Alphabetical

LEMMA LowestIsLeast ==
  ASSUME NEW values \in SUBSET Nat, values # {}
  PROVE  Lowest(values) \in values /\ \A v \in values : Lowest(values) <= v
BY LeastNat DEF Lowest

\* cost prices every candidate of the set.
Prices(cost, among) ==
  among \subseteq Names /\ among # {} /\ \A c \in among : cost[c] \in Nat

Cheaper(cost, c, d) ==
  cost[c] < cost[d] \/ (cost[c] = cost[d] /\ Alphabetical[c] <= Alphabetical[d])

LEMMA CheapestIsLeast ==
  ASSUME NEW cost, NEW among, Prices(cost, among)
  PROVE  /\ Cheapest(cost, among) \in among
         /\ \A d \in among : Cheaper(cost, Cheapest(cost, among), d)
<1> USE DEF Prices
<1>1. PICK v \in {cost[c] : c \in among} : \A w \in {cost[c] : c \in among} : v <= w
  <2>1. {cost[c] : c \in among} \in SUBSET Nat /\ {cost[c] : c \in among} # {}
    OBVIOUS
  <2> QED BY <2>1, LeastNat
<1> DEFINE least == {c \in among : cost[c] = v}
<1>2. least # {} /\ \A d \in among : v <= cost[d]
  BY <1>1
<1>3. PICK n \in {Alphabetical[c] : c \in least} : \A k \in {Alphabetical[c] : c \in least} : n <= k
  <2>1. {Alphabetical[c] : c \in least} \in SUBSET Nat
    BY NamesAreOrdered
  <2>2. {Alphabetical[c] : c \in least} # {}
    BY <1>2
  <2> QED BY <2>1, <2>2, LeastNat
<1>4. PICK c \in least : n = Alphabetical[c]
  BY <1>3
<1>5. \A d \in among : Cheaper(cost, c, d)
  BY <1>1, <1>2, <1>3, <1>4 DEF Cheaper
<1> HIDE DEF least
<1>6. c \in among
  BY <1>4 DEF least
<1> QED BY <1>5, <1>6 DEF Cheapest, Cheaper

LEMMA EquivalentIsNearLeast ==
  ASSUME NEW cost, Prices(cost, DOMAIN cost), NEW tie \in Nat
  PROVE  /\ Equivalent(cost, tie) \subseteq DOMAIN cost
         /\ \A c \in DOMAIN cost :
              c \in Equivalent(cost, tie) <=>
                \A d \in DOMAIN cost : 100 * cost[c] <= cost[d] * (100 + tie)
         /\ \A c \in DOMAIN cost :
              (\A d \in DOMAIN cost : cost[c] <= cost[d]) => c \in Equivalent(cost, tie)
<1> DEFINE low == Lowest({cost[d] : d \in DOMAIN cost})
<1>1. /\ low \in {cost[d] : d \in DOMAIN cost}
      /\ \A v \in {cost[d] : d \in DOMAIN cost} : low <= v
  <2>1. {cost[d] : d \in DOMAIN cost} \in SUBSET Nat /\ {cost[d] : d \in DOMAIN cost} # {}
    BY DEF Prices
  <2> QED BY <2>1, LowestIsLeast
<1>2. low \in Nat /\ \A d \in DOMAIN cost : cost[d] \in Nat /\ low <= cost[d]
  BY <1>1 DEF Prices
<1>3. \A d \in DOMAIN cost : low * (100 + tie) <= cost[d] * (100 + tie)
  <2>1. \A a, b, t \in Nat : a <= b => a * (100 + t) <= b * (100 + t)
    OBVIOUS
  <2> QED BY <1>2, <2>1, Zenon
<1>4. 100 * low <= low * (100 + tie)
  <2>1. \A a, t \in Nat : 100 * a <= a * (100 + t)
    OBVIOUS
  <2> QED BY <1>2, <2>1, Zenon
<1>5. low * (100 + tie) \in Nat /\ \A d \in DOMAIN cost : cost[d] * (100 + tie) \in Nat
  <2>1. \A a, t \in Nat : a * (100 + t) \in Nat
    OBVIOUS
  <2> QED BY <1>2, <2>1, Zenon
<1>6. \A c : c \in Equivalent(cost, tie) <=>
               c \in DOMAIN cost /\ 100 * cost[c] <= low * (100 + tie)
  BY DEF Equivalent
<1>7. PICK e \in DOMAIN cost : cost[e] = low
  BY <1>1
<1> HIDE DEF low
<1>8. ASSUME NEW c \in DOMAIN cost
      PROVE  c \in Equivalent(cost, tie) <=>
               \A d \in DOMAIN cost : 100 * cost[c] <= cost[d] * (100 + tie)
  <2>1. ASSUME 100 * cost[c] <= low * (100 + tie), NEW d \in DOMAIN cost
        PROVE  100 * cost[c] <= cost[d] * (100 + tie)
    <3>1. PICK x, y, z \in Nat : x = 100 * cost[c] /\ y = low * (100 + tie)
                                 /\ z = cost[d] * (100 + tie)
      BY <1>2, <1>5
    <3> QED BY <1>3, <2>1, <3>1
  <2>2. ASSUME \A d \in DOMAIN cost : 100 * cost[c] <= cost[d] * (100 + tie)
        PROVE  100 * cost[c] <= low * (100 + tie)
    BY <1>7, <2>2, Zenon
  <2> QED BY <1>6, <2>1, <2>2, Zenon
<1>9. ASSUME NEW c \in DOMAIN cost, \A d \in DOMAIN cost : cost[c] <= cost[d]
      PROVE  c \in Equivalent(cost, tie)
  <2>1. cost[c] = low
    BY <1>2, <1>7, <1>9
  <2> QED BY <1>4, <1>6, <2>1, Zenon
<1> QED BY <1>6, <1>8, <1>9, Zenon

LEMMA CheapestIsEquivalent ==
  ASSUME NEW cost, Prices(cost, DOMAIN cost), NEW tie \in Nat
  PROVE  /\ Prices(cost, Equivalent(cost, tie))
         /\ Cheapest(cost, Equivalent(cost, tie)) \in Equivalent(cost, tie)
         /\ \A d \in DOMAIN cost : Cheaper(cost, Cheapest(cost, Equivalent(cost, tie)), d)
<1>1. PICK c \in DOMAIN cost : \A d \in DOMAIN cost : Cheaper(cost, c, d)
  BY CheapestIsLeast
<1>2. c \in Equivalent(cost, tie)
  BY <1>1, EquivalentIsNearLeast DEF Cheaper, Prices
<1>3. Prices(cost, Equivalent(cost, tie))
  BY <1>2, EquivalentIsNearLeast DEF Prices
<1>4. PICK e : e = Cheapest(cost, Equivalent(cost, tie))
  OBVIOUS
<1>5. e \in Equivalent(cost, tie) /\ Cheaper(cost, e, c)
  BY <1>2, <1>3, <1>4, CheapestIsLeast
<1>6. e \in DOMAIN cost
  BY <1>5, EquivalentIsNearLeast
<1>7. ASSUME NEW d \in DOMAIN cost PROVE Cheaper(cost, e, d)
  <2>1. cost[c] \in Nat /\ cost[d] \in Nat /\ cost[e] \in Nat
    BY <1>1, <1>6, <1>7 DEF Prices
  <2>2. Alphabetical[c] \in Nat /\ Alphabetical[d] \in Nat /\ Alphabetical[e] \in Nat
    BY <1>1, <1>6, <1>7, NamesAreOrdered DEF Prices
  <2> QED BY <1>1, <1>5, <1>7, <2>1, <2>2 DEF Cheaper
<1> QED BY <1>3, <1>4, <1>5, <1>7

LEMMA CheapestIsUnique ==
  ASSUME NEW cost, NEW among, Prices(cost, among), NEW c \in among,
         \A d \in among : Cheaper(cost, c, d)
  PROVE  Cheapest(cost, among) = c
<1>1. PICK e : e = Cheapest(cost, among)
  OBVIOUS
<1>2. e \in among /\ Cheaper(cost, e, c) /\ Cheaper(cost, c, e)
  BY <1>1, CheapestIsLeast
<1>3. cost[c] \in Nat /\ cost[e] \in Nat /\ c \in Names /\ e \in Names
  BY <1>2 DEF Prices
<1>4. Alphabetical[c] = Alphabetical[e]
  BY <1>2, <1>3, NamesAreOrdered DEF Cheaper
<1> QED BY <1>1, <1>3, <1>4, NamesAreOrdered

LEMMA ByModelIsEquivalent ==
  ASSUME NEW cost, Prices(cost, DOMAIN cost), NEW m, m.tie \in Nat
  PROVE  ByModel(cost, m) \in Equivalent(cost, m.tie)
BY CheapestIsEquivalent DEF ByModel

(* With fewer candidates and the same prices the model's choice stays,     *)
(* if it is still there: the preferred one is still within the tie, or the *)
(* cheapest is still the cheapest and no other within it is preferred.     *)
LEMMA ChoiceOfFewer ==
  ASSUME NEW cost, Prices(cost, DOMAIN cost), NEW m, m.tie \in Nat,
         NEW fewer, DOMAIN fewer \subseteq DOMAIN cost,
         \A c \in DOMAIN fewer : fewer[c] = cost[c],
         ByModel(cost, m) \in DOMAIN fewer
  PROVE  ByModel(fewer, m) = ByModel(cost, m)
<1>1. PICK tie, p : tie = m.tie /\ p = m.preferred
  OBVIOUS
<1>2. Prices(fewer, DOMAIN fewer)
  BY DEF Prices
<1>3. \A c \in DOMAIN fewer : c \in Equivalent(cost, tie) => c \in Equivalent(fewer, tie)
  BY <1>1, <1>2, EquivalentIsNearLeast
<1>4. CASE p \in Equivalent(cost, tie)
  <2>1. p \in DOMAIN fewer /\ ByModel(cost, m) = p
    BY <1>1, <1>4 DEF ByModel
  <2>2. p \in Equivalent(fewer, tie)
    BY <1>3, <1>4, <2>1
  <2> QED BY <1>1, <2>1, <2>2 DEF ByModel
<1>5. CASE p \notin Equivalent(cost, tie)
  <2>1. PICK c : c = Cheapest(cost, Equivalent(cost, tie)) /\ c = ByModel(cost, m)
    BY <1>1, <1>5 DEF ByModel
  <2>2. c \in DOMAIN fewer /\ c \in Equivalent(cost, tie)
        /\ \A d \in DOMAIN cost : Cheaper(cost, c, d)
    BY <1>1, <2>1, CheapestIsEquivalent
  <2>3. \A d \in DOMAIN fewer : Cheaper(fewer, c, d)
    BY <2>2 DEF Cheaper
  <2>4. Equivalent(fewer, tie) \subseteq DOMAIN fewer /\ c \in Equivalent(fewer, tie)
    BY <1>1, <1>2, <1>3, <2>2, EquivalentIsNearLeast
  <2>5. Cheapest(fewer, Equivalent(fewer, tie)) = c
    BY <1>1, <1>2, <2>3, <2>4, CheapestIsEquivalent, CheapestIsUnique
  <2>6. p \notin Equivalent(fewer, tie)
    <3>1. SUFFICES ASSUME p \in DOMAIN fewer, p \in Equivalent(fewer, tie)
                   PROVE  p \in Equivalent(cost, tie)
      BY <1>5, <2>4
    <3>2. 100 * fewer[p] <= fewer[c] * (100 + tie)
      BY <1>1, <1>2, <2>2, <3>1, EquivalentIsNearLeast
    <3>3. ASSUME NEW d \in DOMAIN cost PROVE 100 * cost[p] <= cost[d] * (100 + tie)
      <4>1. cost[c] \in Nat /\ cost[d] \in Nat /\ cost[c] <= cost[d] /\ cost[p] \in Nat
        BY <2>2, <3>1, <3>3 DEF Prices, Cheaper
      <4>2. tie \in Nat
        BY <1>1
      <4>3. 100 * cost[p] \in Nat /\ 100 * cost[p] <= cost[c] * (100 + tie)
        BY <2>2, <3>1, <3>2, <4>1
      <4> QED BY <4>1, <4>2, <4>3, WithinIsMonotone, Zenon
    <3> QED BY <1>1, <3>1, <3>3, EquivalentIsNearLeast
  <2> QED BY <1>1, <2>1, <2>5, <2>6 DEF ByModel
<1> QED BY <1>4, <1>5

-----------------------------------------------------------------------------
\* Governance before cost.

LEMMA FeasibleWithinLimits ==
  ASSUME NEW e, NEW policy
  PROVE  Feasible(e, policy) <=>
           /\ ~Exceeds(e.raw_join, policy.joined)
           /\ ~Exceeds(e.raw_materialized, policy.materialized)
           /\ policy.checkpoint => e.checkpoint
BY DEF Feasible, Diagnostics, Excess

Exposed(profiles) ==
  \A x \in profiles : {x.exposure.raw_join, x.exposure.raw_materialized} \subseteq Nat

(* A profile that dominates a legal one exposes no more, so it is legal    *)
(* wherever that one is if a checkpoint is not what it lacks.              *)
LEMMA DominatorIsFeasible ==
  ASSUME NEW p, NEW q, ValidPolicy(p), ValidPolicy(q), Tighter(p, q),
         NEW x, NEW d, Exposed({x, d}), Dominates(d, x),
         Feasible(x.exposure, p), Feasible(d.exposure, q)
  PROVE  Feasible(d.exposure, p)
<1>1. NoWorse(Risk(d.exposure), Risk(x.exposure))
  BY DEF Dominates
<1>2. /\ d.exposure.raw_join <= x.exposure.raw_join
      /\ d.exposure.raw_materialized <= x.exposure.raw_materialized
  BY <1>1 DEF NoWorse, Risk
<1>3. p.checkpoint = q.checkpoint
  BY DEF Tighter
<1>4. \A m, n, limit : m \in Nat /\ n \in Nat /\ limit \in Nat \cup {None} /\ m <= n
                       /\ ~Exceeds(n, limit) => ~Exceeds(m, limit)
  BY DEF Exceeds
<1> QED BY <1>2, <1>3, <1>4, FeasibleWithinLimits DEF Exposed, ValidPolicy

LEMMA TighterIsFewer ==
  ASSUME NEW p, NEW q, ValidPolicy(p), ValidPolicy(q), Tighter(p, q),
         NEW x, Exposed({x}), Feasible(x.exposure, p)
  PROVE  Feasible(x.exposure, q)
<1>1. \A n, l, k : /\ n \in Nat /\ l \in Nat \cup {None} /\ k \in Nat \cup {None}
                   /\ ~Exceeds(n, l) /\ (k = None \/ (l # None /\ l <= k))
                   => ~Exceeds(n, k)
  BY DEF Exceeds
<1>2. /\ q.joined = None \/ (p.joined # None /\ p.joined <= q.joined)
      /\ q.materialized = None \/ (p.materialized # None /\ p.materialized <= q.materialized)
      /\ p.checkpoint = q.checkpoint
  BY DEF Tighter
<1> QED BY <1>1, <1>2, FeasibleWithinLimits DEF Exposed, ValidPolicy

\* Tightening a policy forbids candidates and changes no other's dominance.
LEMMA SurvivorsOfTighter ==
  ASSUME NEW p, NEW q, ValidPolicy(p), ValidPolicy(q), Tighter(p, q),
         NEW profiles, Exposed(profiles)
  PROVE  Nondominated(FeasibleCandidates(profiles, p))
           = Nondominated(FeasibleCandidates(profiles, q)) \cap FeasibleCandidates(profiles, p)
<1>1. FeasibleCandidates(profiles, p) \subseteq FeasibleCandidates(profiles, q)
  BY TighterIsFewer DEF FeasibleCandidates, Exposed
<1>2. ASSUME NEW x \in FeasibleCandidates(profiles, p),
             NEW d \in FeasibleCandidates(profiles, q), Dominates(d, x)
      PROVE  d \in FeasibleCandidates(profiles, p)
  BY <1>2, DominatorIsFeasible DEF FeasibleCandidates, Exposed
<1>3. ASSUME NEW x \in FeasibleCandidates(profiles, p)
      PROVE  Dominators(x, FeasibleCandidates(profiles, p))
               = Dominators(x, FeasibleCandidates(profiles, q))
  BY <1>1, <1>2 DEF Dominators
<1> QED BY <1>1, <1>3 DEF Nondominated

-----------------------------------------------------------------------------
\* The four orders of the pipeline.

Measure == {"checkpoint_bytes", "checkpoint_rows", "join_probe", "lineage_edges", "lineage_rows",
            "mask_bytes", "mask_rows", "breakers", "hash_bytes", "hash_rows"}

LEMMA MetricsAreCounted ==
  ASSUME NEW s, s.result \in Nat, s.width \in Nat,
         NEW rows \in Nat, NEW payload \in Nat, NEW probe \in Nat, NEW mask \in Nat,
         NEW hash \in Nat, NEW breakers \in Nat
  PROVE  /\ Counted(Metrics(s, rows, payload, probe, mask, hash, breakers))
         /\ DOMAIN Metrics(s, rows, payload, probe, mask, hash, breakers) = Measure
<1>1. PICK a, b, c \in Nat : a = 2 * s.result /\ b = mask * s.width /\ c = hash * s.width
  <2>1. 2 * s.result \in Nat
    OBVIOUS
  <2>2. mask * s.width \in Nat /\ hash * s.width \in Nat
    BY ProductsOfNaturals, Zenon
  <2> QED BY <2>1, <2>2
<1>2. PICK work : work = Metrics(s, rows, payload, probe, mask, hash, breakers)
  OBVIOUS
<1>3. work = [checkpoint_bytes |-> payload, checkpoint_rows |-> rows, join_probe |-> probe,
              lineage_edges |-> a, lineage_rows |-> s.result,
              mask_bytes |-> b, mask_rows |-> mask, breakers |-> breakers,
              hash_bytes |-> c, hash_rows |-> hash]
  BY <1>1, <1>2, Zenon DEF Metrics
<1>4. DOMAIN work = Measure
  BY <1>3 DEF Measure
<1>5. Counted(work)
  BY <1>3, <1>4 DEF Counted, Measure
<1> QED BY <1>2, <1>4, <1>5

LEMMA FourAreFinite == \A a, b, c, d : IsFiniteSet({a, b, c, d})
<1> SUFFICES ASSUME NEW a, NEW b, NEW c, NEW d PROVE IsFiniteSet({a, b, c, d})
  OBVIOUS
<1>1. IsFiniteSet({a})
  BY FS_Singleton
<1>2. IsFiniteSet({a} \cup {b})
  BY <1>1, FS_AddElement
<1>3. IsFiniteSet(({a} \cup {b}) \cup {c})
  BY <1>2, FS_AddElement
<1>4. IsFiniteSet((({a} \cup {b}) \cup {c}) \cup {d})
  BY <1>3, FS_AddElement
<1>5. (({a} \cup {b}) \cup {c}) \cup {d} = {a, b, c, d}
  OBVIOUS
<1> QED BY <1>4, <1>5

LEMMA ProfilesOfPipeline ==
  ASSUME NEW s, ValidStatistics(s)
  PROVE  /\ Exposed(PipelineProfiles(s)) /\ IsFiniteSet(PipelineProfiles(s))
         /\ \A p \in PipelineProfiles(s) : Counted(p.work) /\ p.id \in Names
         /\ \A p, q \in PipelineProfiles(s) : DOMAIN p.work = DOMAIN q.work
         /\ \A p, q \in PipelineProfiles(s) : p.id = q.id => p = q
         /\ Ids(PipelineProfiles(s)) = {"fused", "policy_first", "query_first", "join_first"}
<1>1. /\ s.input \in Nat /\ s.width \in Nat /\ s.policy \in Nat /\ s.query \in Nat
      /\ s.governed \in Nat /\ s.queryJoin \in Nat /\ s.result \in Nat
  BY DEF ValidStatistics
<1>2. \A p \in PipelineProfiles(s) : Counted(p.work) /\ DOMAIN p.work = Measure
  <2> DEFINE M(rows, payload, probe, mask, hash, breakers) ==
               Metrics(s, rows, payload, probe, mask, hash, breakers)
             Fine(work) == Counted(work) /\ DOMAIN work = Measure
  <2>1. \A rows, payload, probe, mask, hash, breakers \in Nat :
          Fine(M(rows, payload, probe, mask, hash, breakers))
    BY <1>1, MetricsAreCounted
  <2>2. \A a, b \in Nat : a + b \in Nat /\ a * b \in Nat
    OBVIOUS
  <2>3. Width.masked \in Nat /\ Width.ids \in Nat /\ Width.joined \in Nat
    BY DEF Width
  <2> HIDE DEF Fine, M
  <2>4. Fine(M(0, 0, s.governed, s.result, s.input, 0))
    BY <1>1, <2>1
  <2>5. Fine(M(s.policy, s.policy * Width.masked, s.governed, s.policy, s.input, 1))
    <3>1. s.policy * Width.masked \in Nat
      BY <1>1, <2>2, <2>3, Zenon
    <3>2. 1 \in Nat
      OBVIOUS
    <3> QED BY <1>1, <2>1, <3>1, <3>2, Zenon
  <2>6. Fine(M(s.query + s.governed, s.query * (Width.ids + s.width) + s.governed * Width.masked,
               s.governed, s.governed, s.query, 2))
    <3>1. s.query * (Width.ids + s.width) + s.governed * Width.masked \in Nat
      BY <1>1, <2>2, <2>3, Zenon
    <3>2. 2 \in Nat /\ s.query + s.governed \in Nat
      BY <1>1
    <3> QED BY <1>1, <2>1, <3>1, <3>2, Zenon
  <2>7. Fine(M(s.queryJoin + s.result,
               s.queryJoin * (Width.joined + s.width) + s.result * Width.masked,
               s.query, s.result, s.queryJoin, 2))
    <3>1. s.queryJoin * (Width.joined + s.width) + s.result * Width.masked \in Nat
      BY <1>1, <2>2, <2>3, Zenon
    <3>2. 2 \in Nat /\ s.queryJoin + s.result \in Nat
      BY <1>1
    <3> QED BY <1>1, <2>1, <3>1, <3>2, Zenon
  <2>8. Fine(Fused(s).work) /\ Fine(PolicyFirst(s).work)
        /\ Fine(QueryFirst(s).work) /\ Fine(JoinFirst(s).work)
    <3>1. Fused(s).work = M(0, 0, s.governed, s.result, s.input, 0)
      BY DEF Fused, Profile, M
    <3>2. PolicyFirst(s).work
            = M(s.policy, s.policy * Width.masked, s.governed, s.policy, s.input, 1)
      BY DEF PolicyFirst, Profile, M
    <3>3. QueryFirst(s).work
            = M(s.query + s.governed, s.query * (Width.ids + s.width) + s.governed * Width.masked,
                s.governed, s.governed, s.query, 2)
      BY DEF QueryFirst, Profile, M
    <3>4. JoinFirst(s).work
            = M(s.queryJoin + s.result,
                s.queryJoin * (Width.joined + s.width) + s.result * Width.masked,
                s.query, s.result, s.queryJoin, 2)
      BY DEF JoinFirst, Profile, M
    <3> QED BY <2>4, <2>5, <2>6, <2>7, <3>1, <3>2, <3>3, <3>4, Zenon
  <2> QED BY <2>8, Zenon DEF PipelineProfiles, Fine
<1>3. /\ Fused(s).id = "fused" /\ PolicyFirst(s).id = "policy_first"
      /\ QueryFirst(s).id = "query_first" /\ JoinFirst(s).id = "join_first"
  BY DEF Fused, PolicyFirst, QueryFirst, JoinFirst, Profile
<1>4. /\ Exposed({Fused(s)}) /\ Exposed({PolicyFirst(s)})
      /\ Exposed({QueryFirst(s)}) /\ Exposed({JoinFirst(s)})
  BY <1>1 DEF Exposed, Fused, PolicyFirst, QueryFirst, JoinFirst, Profile, Exposure
<1>5. PICK a, b, c, d : a = Fused(s) /\ b = PolicyFirst(s) /\ c = QueryFirst(s) /\ d = JoinFirst(s)
  OBVIOUS
<1>6. PICK P : P = PipelineProfiles(s)
  OBVIOUS
<1>7. P = {a, b, c, d}
  BY <1>5, <1>6 DEF PipelineProfiles
<1>8. Exposed(P)
  BY <1>4, <1>5, <1>7 DEF Exposed
<1>9. IsFiniteSet(P)
  BY <1>7, FourAreFinite
<1>10. \A p, q \in P : p.id = q.id => p = q
  BY <1>3, <1>5, <1>7
<1>11. Ids(P) = {"fused", "policy_first", "query_first", "join_first"}
  BY <1>3, <1>5, <1>7 DEF Ids
<1>12. \A p \in P : p.id \in Names
  BY <1>3, <1>5, <1>7, NamesAreOrdered
<1> QED BY <1>2, <1>6, <1>8, <1>9, <1>10, <1>11, <1>12

\* The work a name stands for.
WorkOf(s, c) == (CHOOSE p \in PipelineProfiles(s) : p.id = c).work

LEMMA ProfileOfName ==
  ASSUME NEW s, ValidStatistics(s), NEW p \in PipelineProfiles(s)
  PROVE  (CHOOSE x \in PipelineProfiles(s) : x.id = p.id) = p
<1>1. PICK y : y = CHOOSE x \in PipelineProfiles(s) : x.id = p.id
  OBVIOUS
<1>2. y \in PipelineProfiles(s) /\ y.id = p.id
  BY <1>1
<1> QED BY <1>1, <1>2, ProfilesOfPipeline

LEMMA WorkOfProfile ==
  ASSUME NEW s, ValidStatistics(s), NEW p \in PipelineProfiles(s)
  PROVE  WorkOf(s, p.id) = p.work
BY ProfileOfName, Zenon DEF WorkOf

LEMMA FirstOfIsIn ==
  ASSUME NEW T, NEW order \in Seq(T), NEW among, NEW i \in DOMAIN order, order[i] \in among
  PROVE  FirstOf(order, among) \in among
<1> DEFINE places == {k \in DOMAIN order : order[k] \in among}
<1>1. places \in SUBSET Nat /\ places # {}
  OBVIOUS
<1>2. Lowest(places) \in places
  BY <1>1, LowestIsLeast
<1> QED BY <1>2 DEF FirstOf

-----------------------------------------------------------------------------
\* What optimize_governed_pipeline answers.

LEMMA PlannedSets ==
  ASSUME NEW profiles, NEW policy, NEW fallback
  PROVE  /\ PlanCandidates(profiles, policy, fallback).feasible
              = Ids(FeasibleCandidates(profiles, policy))
         /\ PlanCandidates(profiles, policy, fallback).nondominated
              = Ids(Nondominated(FeasibleCandidates(profiles, policy)))
BY Zenon DEF PlanCandidates, Decision

LegalProfiles(s, policy) == FeasibleCandidates(PipelineProfiles(s), policy)

Survivors(s, policy) == Ids(Nondominated(LegalProfiles(s, policy)))

CostOf(s, among, m) == [c \in among |-> Predicted(WorkOf(s, c), m)]

\* The choice of the model, where it is asked.
Ranking(s, policy, m) == ByModel(CostOf(s, Survivors(s, policy), m), m)

LEMMA OptimizedPipeline ==
  ASSUME NEW s, NEW policy, NEW m, NEW choice, choice = OptimizePipeline(s, policy, m),
         NEW S, S = Survivors(s, policy), NEW c, c = Ranking(s, policy, m)
  PROVE  /\ choice.reason = "ranked" =>
              /\ S # {} /\ Cardinality(S) # 1 /\ InSupport(s)
              /\ choice.selected = c
         /\ S # {} /\ Cardinality(S) = 1 => choice.selected = FirstOf(PipelineOrder, S)
         /\ S # {} /\ Cardinality(S) # 1 /\ InSupport(s)
              /\ c \in Ids(LegalProfiles(s, policy)) => choice.selected = c
<1> DEFINE P == PlanPipeline(s, policy)
<1>1. P.nondominated = S /\ P.feasible = Ids(LegalProfiles(s, policy))
  BY PlannedSets, Zenon DEF PlanPipeline, Survivors, LegalProfiles
<1>2. PICK fallback : fallback = IF P.selected \in S THEN P.selected ELSE FirstOf(PipelineOrder, S)
  OBVIOUS
<1>3. PICK cost : cost = CostOf(s, S, m)
  OBVIOUS
<1>4. c = ByModel(cost, m)
  BY <1>3 DEF Ranking
<1>5. choice = IF S = {} THEN Choice(None, "no_legal", S, Unpriced)
               ELSE IF Cardinality(S) = 1
               THEN Choice(FirstOf(PipelineOrder, S), "only_legal", S, Unpriced)
               ELSE IF ~InSupport(s) THEN Choice(fallback, "out_of_support", S, Unpriced)
               ELSE IF c \notin P.feasible THEN Choice(None, "raised", S, Unpriced)
               ELSE Choice(c, "ranked", S, cost)
  <2>1. cost = [d \in S |-> Predicted((CHOOSE p \in PipelineProfiles(s) : p.id = d).work, m)]
    BY <1>3 DEF CostOf, WorkOf
  <2> HIDE DEF P
  <2> QED BY <1>1, <1>2, <1>4, <2>1, Zenon DEF OptimizePipeline, P
<1> HIDE DEF P
<1>6. PICK a : a = FirstOf(PipelineOrder, S)
  OBVIOUS
<1> QED BY <1>1, <1>5, <1>6 DEF Choice

LEMMA PipelinePrices ==
  ASSUME NEW s, ValidStatistics(s), NEW m, ValidModel(m),
         NEW S \in SUBSET Ids(PipelineProfiles(s)), S # {}
  PROVE  Prices(CostOf(s, S, m), S) /\ DOMAIN CostOf(s, S, m) = S
<1>1. Rating(m)
  BY DEF Rating, ValidModel
<1>2. ASSUME NEW c \in S PROVE c \in Names /\ Predicted(WorkOf(s, c), m) \in Nat
  <2>1. PICK p \in PipelineProfiles(s) : c = p.id
    BY DEF Ids
  <2>2. WorkOf(s, c) = p.work
    BY <2>1, ProfileOfName DEF WorkOf
  <2>3. Counted(p.work) /\ c \in Names
    BY <2>1, ProfilesOfPipeline
  <2>4. Predicted(p.work, m) \in Nat
    BY <1>1, <2>3, PredictedIsNat
  <2> QED BY <2>2, <2>3, <2>4
<1> QED BY <1>2 DEF Prices, CostOf

LEMMA SurvivorsAreLegal ==
  ASSUME NEW s, NEW policy
  PROVE  /\ Survivors(s, policy) \subseteq Ids(LegalProfiles(s, policy))
         /\ Ids(LegalProfiles(s, policy)) \subseteq Ids(PipelineProfiles(s))
BY DEF Survivors, LegalProfiles, Ids, Nondominated, FeasibleCandidates

\* A survivor of a policy that a tighter one allows survives that as well.
LEMMA SurvivesTightening ==
  ASSUME NEW s, ValidStatistics(s), NEW p, NEW q, ValidPolicy(p), ValidPolicy(q), Tighter(p, q)
  PROVE  /\ Survivors(s, p) \subseteq Survivors(s, q)
         /\ \A x \in PipelineProfiles(s) :
              x.id \in Survivors(s, q) /\ Feasible(x.exposure, p) => x.id \in Survivors(s, p)
<1>1. PICK P : P = PipelineProfiles(s)
  OBVIOUS
<1>2. Exposed(P) /\ \A x, y \in P : x.id = y.id => x = y
  BY <1>1, ProfilesOfPipeline
<1>3. Nondominated(FeasibleCandidates(P, p))
        = Nondominated(FeasibleCandidates(P, q)) \cap FeasibleCandidates(P, p)
  BY <1>2, SurvivorsOfTighter
<1>4. PICK N, M, F : N = Nondominated(FeasibleCandidates(P, p))
                     /\ M = Nondominated(FeasibleCandidates(P, q)) /\ F = FeasibleCandidates(P, p)
  OBVIOUS
<1>5. M \subseteq P /\ F = {x \in P : Feasible(x.exposure, p)}
  BY <1>4 DEF Nondominated, FeasibleCandidates
<1>6. Survivors(s, p) = {x.id : x \in N} /\ Survivors(s, q) = {x.id : x \in M}
  BY <1>1, <1>4 DEF Survivors, LegalProfiles, Ids
<1> QED BY <1>1, <1>2, <1>3, <1>4, <1>5, <1>6

LEMMA ChoiceOfTighter ==
  ASSUME NEW s, ValidStatistics(s), NEW m, ValidModel(m),
         NEW p, NEW q, ValidPolicy(p), ValidPolicy(q), Tighter(p, q),
         NEW c, OptimizePipeline(s, q, m).reason = "ranked",
         OptimizePipeline(s, q, m).selected = c,
         NEW x \in PipelineProfiles(s), x.id = c, Feasible(x.exposure, p)
  PROVE  OptimizePipeline(s, p, m).selected = c
<1>1. PICK S, T : S = Survivors(s, q) /\ T = Survivors(s, p)
  OBVIOUS
<1>2. S # {} /\ Cardinality(S) # 1 /\ InSupport(s) /\ c = Ranking(s, q, m)
  BY <1>1, OptimizedPipeline
<1>3. PICK I : I = Ids(PipelineProfiles(s))
  OBVIOUS
<1>4. S \subseteq I /\ T \subseteq S
  BY <1>1, <1>3, SurvivorsAreLegal, SurvivesTightening
<1>5. PICK cost, fewer : cost = CostOf(s, S, m) /\ fewer = CostOf(s, T, m)
  OBVIOUS
<1>6. Prices(cost, S) /\ DOMAIN cost = S
  BY <1>2, <1>3, <1>4, <1>5, PipelinePrices
<1>7. m.tie \in Nat
  BY DEF ValidModel
<1>8. c = ByModel(cost, m) /\ c \in S
  <2>1. c = ByModel(cost, m)
    BY <1>1, <1>2, <1>5 DEF Ranking
  <2> QED BY <1>6, <1>7, <2>1, ByModelIsEquivalent, EquivalentIsNearLeast
<1>9. c \in T
  BY <1>1, <1>8, SurvivesTightening
<1>10. CASE Cardinality(T) = 1
  <2>1. IsFiniteSet(T)
    <3>1. IsFiniteSet(I)
      <4>1. I = {"fused", "policy_first", "query_first", "join_first"}
        BY <1>3, ProfilesOfPipeline
      <4> QED BY <4>1, FourAreFinite, Zenon
    <3> QED BY <1>4, <3>1, FS_Subset
  <2>2. T = {c}
    BY <1>9, <1>10, <2>1, FS_Singleton
  <2>3. PICK i \in DOMAIN PipelineOrder : PipelineOrder[i] = c
    <3>1. c \in {"fused", "policy_first", "query_first", "join_first"}
      BY <1>3, <1>4, <1>8, ProfilesOfPipeline
    <3> QED BY <3>1 DEF PipelineOrder
  <2>4. PipelineOrder \in Seq(Names)
    BY NamesAreOrdered DEF PipelineOrder
  <2>5. FirstOf(PipelineOrder, T) = c
    <3>1. PICK order : order = PipelineOrder
      OBVIOUS
    <3>2. i \in DOMAIN order /\ order[i] \in T /\ order \in Seq(Names)
      BY <2>2, <2>3, <2>4, <3>1
    <3>3. FirstOf(order, T) \in T
      BY <3>2, FirstOfIsIn
    <3> QED BY <2>2, <3>1, <3>3
  <2> QED BY <1>1, <1>9, <1>10, <2>5, OptimizedPipeline
<1>11. CASE Cardinality(T) # 1
  <2>1. DOMAIN fewer = T /\ \A d \in T : fewer[d] = cost[d]
    BY <1>4, <1>5 DEF CostOf
  <2>2. ByModel(fewer, m) = c
    BY <1>4, <1>6, <1>7, <1>8, <1>9, <2>1, ChoiceOfFewer
  <2>3. c = Ranking(s, p, m)
    BY <1>1, <1>5, <2>2 DEF Ranking
  <2>4. c \in Ids(LegalProfiles(s, p))
    BY <1>1, <1>9, SurvivorsAreLegal
  <2> QED BY <1>1, <1>2, <1>9, <1>11, <2>3, <2>4, OptimizedPipeline
<1> QED BY <1>10, <1>11

\* A selector decides with the models as they are; nothing else is a decision.
LEMMA DecisionStep ==
  ASSUME Next, last'.what = "decided"
  PROVE  \E q \in Requests : Decide(q)
<1>1. ~Quiet
  BY DEF Quiet, Nothing, Raised
<1>2. \A by, of, run, config, choice, passed : Evaluation(by, of, run, config, choice, passed).what = "evaluated"
  BY DEF Evaluation
<1>3. ASSUME NEW run, EvaluateHoldout(run) \/ EvaluateTransfer(run) \/ EvaluateStratified(run)
      PROVE  FALSE
  <2>1. PICK by, config, choice, passed : last' \in {Raised, Evaluation(by, files, run, config, choice, passed)}
    <3>1. CASE EvaluateHoldout(run)
      BY <3>1, Zenon DEF EvaluateHoldout, EvaluateFrozen
    <3>2. CASE EvaluateTransfer(run)
      BY <3>2, Zenon DEF EvaluateTransfer, EvaluateFrozen
    <3>3. CASE EvaluateStratified(run)
      BY <3>3, Zenon DEF EvaluateStratified
    <3> QED BY <1>3, <3>1, <3>2, <3>3
  <2> QED BY <1>1, <1>2, <2>1 DEF Quiet
<1>4. ASSUME NEW run, EvaluateCheckpointHoldout(run) \/ EvaluateCheckpointTransfer(run)
      PROVE  FALSE
  <2>1. CASE EvaluateCheckpointHoldout(run)
    <3>1. PICK config, choice, passed :
            \/ last' = Raised
            \/ last' = Evaluation("checkpoint_holdout", checkpoint, run, config, choice, passed)
      BY <2>1, Zenon DEF EvaluateCheckpointHoldout
    <3> QED BY <1>1, <3>1 DEF Quiet, Evaluation
  <2>2. CASE EvaluateCheckpointTransfer(run)
    <3>1. PICK config, choice, passed :
            \/ last' = Raised
            \/ last' = Evaluation("checkpoint_transfer", GuardAlone, run, config, choice, passed)
      BY <2>2, Zenon DEF EvaluateCheckpointTransfer, GuardAlone
    <3> QED BY <1>1, <3>1 DEF Quiet, Evaluation
  <2> QED BY <1>4, <2>1, <2>2
<1> QED BY <1>1, <1>3, <1>4, QuietSteps

LEMMA DecidedWith ==
  ASSUME FilesInv, NEW q \in Requests, Decide(q)
  PROVE  /\ last' = [what |-> "decided", request |-> q, choice |-> Answer(q)]
         /\ files' = files /\ checkpoint' = checkpoint
         /\ q.selector = "pipeline" => ValidModel(files.model.content)
         /\ q.selector # "pipeline" =>
              ValidAnalytic(checkpoint.model) /\ ValidGuard(checkpoint.guard)
<1>1. q.selector = "pipeline" => ValidModel(files.model.content)
  BY BoundIsRecorded, FrozenModelsAssumption DEF Decide, Fitted
<1>2. q.selector # "pipeline" => ValidAnalytic(checkpoint.model) /\ ValidGuard(checkpoint.guard)
  <2>1. q.selector # "pipeline" => checkpoint # None
    BY Zenon DEF Decide
  <2>2. checkpoint \in Checkpoints \cup {None}
    BY DEF FilesInv
  <2> QED BY <2>1, <2>2, FrozenModelsAssumption
<1>3. last' = [what |-> "decided", request |-> q, choice |-> Answer(q)]
      /\ files' = files /\ checkpoint' = checkpoint
  BY DEF Decide
<1> QED BY <1>1, <1>2, <1>3

LEMMA RequestsAreValid ==
  ASSUME NEW q \in Requests
  PROVE  /\ ValidPolicy(q.policy)
         /\ q.selector \in {"pipeline", "checkpoint", "guarded", "adaptive", "specs"}
         /\ q.selector = "pipeline" => ValidStatistics(q.statistics)
         /\ q.selector \in {"checkpoint", "guarded", "adaptive"} => ValidCheckpoint(q.statistics)
         /\ q.selector = "specs" =>
              /\ ValidAnalytic(q.model) /\ IsFiniteSet(q.specs)
              /\ \A x \in q.specs : ValidSpec(x) /\ x.stages["sort"].rows < 2 ^ 30
BY FrozenModelsAssumption, Zenon DEF ValidRequest

LEMMA PipelineExposure ==
  ASSUME NEW q, q.selector = "pipeline", ValidStatistics(q.statistics)
  PROVE  /\ DOMAIN ExposureOf(q) = Ids(PipelineProfiles(q.statistics))
         /\ \A x \in PipelineProfiles(q.statistics) : ExposureOf(q)[x.id] = x.exposure
<1>1. ExposureOf(q) = [c \in Ids(PipelineProfiles(q.statistics)) |->
                         (CHOOSE p \in PipelineProfiles(q.statistics) : p.id = c).exposure]
  BY Zenon DEF ExposureOf
<1>2. \A x \in PipelineProfiles(q.statistics) : x.id \in Ids(PipelineProfiles(q.statistics))
  BY DEF Ids
<1>3. \A x \in PipelineProfiles(q.statistics) :
        (CHOOSE p \in PipelineProfiles(q.statistics) : p.id = x.id) = x
  BY ProfileOfName
<1>4. PICK P, I : P = PipelineProfiles(q.statistics) /\ I = Ids(P)
  OBVIOUS
<1> QED BY <1>1, <1>2, <1>3, <1>4

LEMMA SurvivalStep ==
  FilesInv /\ ChoiceSurvivesTightening /\ [Next]_vars => ChoiceSurvivesTightening'
<1> SUFFICES ASSUME FilesInv, ChoiceSurvivesTightening, [Next]_vars
             PROVE  ChoiceSurvivesTightening'
  OBVIOUS
<1>1. CASE UNCHANGED vars
  BY <1>1, Zenon DEF vars, ChoiceSurvivesTightening
<1>2. CASE Next /\ last'.what = "decided"
  <2>1. PICK q \in Requests : Decide(q)
    BY <1>2, DecisionStep
  <2>2. SUFFICES ASSUME q.selector = "pipeline", Answer(q).reason = "ranked",
                        NEW p \in Policies, Tighter(p, q.policy),
                        Feasible(ExposureOf(q)[Answer(q).selected], p)
                 PROVE  OptimizePipeline(q.statistics, p, files.model.content).selected
                          = Answer(q).selected
    <3>1. last'.request = q /\ last'.choice = Answer(q) /\ files' = files
      BY <2>1, DecidedWith
    <3> QED BY <3>1, Zenon DEF ChoiceSurvivesTightening
  <2>3. PICK s, policy, m : s = q.statistics /\ policy = q.policy /\ m = files.model.content
    OBVIOUS
  <2>4. ValidStatistics(s) /\ ValidPolicy(policy) /\ ValidPolicy(p) /\ ValidModel(m)
    BY <2>1, <2>2, <2>3, DecidedWith, RequestsAreValid, FrozenModelsAssumption DEF Policies
  <2>5. Answer(q) = OptimizePipeline(s, policy, m)
    BY <2>2, <2>3, Zenon DEF Answer
  <2>6. PICK c : c = Answer(q).selected
    OBVIOUS
  <2>7. c \in Ids(PipelineProfiles(s))
    <3>1. PICK S, cost : S = Survivors(s, policy) /\ cost = CostOf(s, S, m)
      OBVIOUS
    <3>2. S # {} /\ c = ByModel(cost, m)
      BY <2>2, <2>5, <2>6, <3>1, OptimizedPipeline DEF Ranking
    <3>3. S \subseteq Ids(PipelineProfiles(s))
      BY <3>1, SurvivorsAreLegal
    <3>4. Prices(cost, S) /\ DOMAIN cost = S /\ m.tie \in Nat
      BY <2>4, <3>1, <3>2, <3>3, PipelinePrices DEF ValidModel
    <3> QED BY <3>2, <3>3, <3>4, ByModelIsEquivalent, EquivalentIsNearLeast
  <2>8. PICK x \in PipelineProfiles(s) : x.id = c
    BY <2>7 DEF Ids
  <2>9. Feasible(x.exposure, p)
    BY <2>2, <2>3, <2>4, <2>6, <2>8, PipelineExposure
  <2> QED BY <2>2, <2>3, <2>4, <2>5, <2>6, <2>8, <2>9, ChoiceOfTighter
<1>3. CASE last'.what # "decided"
  BY <1>3 DEF ChoiceSurvivesTightening
<1> QED BY <1>1, <1>2, <1>3

(* A choice that was ranked is made again under every tighter policy that  *)
(* still allows it, whatever the model, the estimates and the limits.      *)
THEOREM AlwaysSurvives == Spec => []ChoiceSurvivesTightening
<1>1. Init => ChoiceSurvivesTightening
  BY DEF Init, ChoiceSurvivesTightening, Nothing
<1> QED BY <1>1, FilesInvariant, SurvivalStep, PTL DEF Spec

-----------------------------------------------------------------------------
\* Above every legal candidate is one that nothing dominates.

Comparable(profiles) == \A p \in profiles : Counted(p.work) /\ Counted(Risk(p.exposure))

LEMMA MeasuresAreOrdered ==
  ASSUME NEW f, NEW g, NEW h, Counted(f), Counted(g), Counted(h),
         DOMAIN f = DOMAIN g, DOMAIN g = DOMAIN h
  PROVE  /\ ~Better(f, f)
         /\ NoWorse(f, g) /\ NoWorse(g, h) => NoWorse(f, h)
         /\ Better(f, g) /\ NoWorse(g, h) => Better(f, h)
BY DEF Counted, NoWorse, Better

LEMMA DominanceIsStrict ==
  ASSUME NEW x, NEW y, NEW z, Comparable({x, y, z})
  PROVE  /\ ~Dominates(x, x)
         /\ Dominates(x, y) /\ Dominates(y, z) => Dominates(x, z)
<1>1. /\ Counted(x.work) /\ Counted(y.work) /\ Counted(z.work)
      /\ Counted(Risk(x.exposure)) /\ Counted(Risk(y.exposure)) /\ Counted(Risk(z.exposure))
  BY DEF Comparable
<1>2. /\ DOMAIN Risk(x.exposure) = DOMAIN Risk(y.exposure)
      /\ DOMAIN Risk(y.exposure) = DOMAIN Risk(z.exposure)
  BY DEF Risk
<1>3. PICK a, b, c, d, e, f :
        /\ a = x.work /\ b = y.work /\ c = z.work
        /\ d = Risk(x.exposure) /\ e = Risk(y.exposure) /\ f = Risk(z.exposure)
  OBVIOUS
<1>4. ~Better(a, a) /\ ~Better(d, d)
  BY <1>1, <1>3, MeasuresAreOrdered
<1>5. ASSUME DOMAIN a = DOMAIN b, DOMAIN b = DOMAIN c
      PROVE  /\ NoWorse(a, b) /\ NoWorse(b, c) => NoWorse(a, c)
             /\ Better(a, b) /\ NoWorse(b, c) => Better(a, c)
  BY <1>1, <1>3, <1>5, MeasuresAreOrdered
<1>6. /\ NoWorse(d, e) /\ NoWorse(e, f) => NoWorse(d, f)
      /\ Better(d, e) /\ NoWorse(e, f) => Better(d, f)
  BY <1>1, <1>2, <1>3, MeasuresAreOrdered
<1> QED BY <1>3, <1>4, <1>5, <1>6, Zenon DEF Dominates

LEMMA NondominatedAbove ==
  ASSUME NEW profiles, IsFiniteSet(profiles), Comparable(profiles),
         \A x, y \in profiles : x.id = y.id => x = y,
         NEW x \in profiles
  PROVE  \E y \in Nondominated(profiles) : y = x \/ Dominates(y, x)
<1> DEFINE R == {r \in profiles \X profiles : Dominates(r[1], r[2])}
<1>1. \A a, b \in profiles : <<a, b>> \in R <=> Dominates(a, b)
  OBVIOUS
<1>2. \A a, b, c \in profiles : Comparable({a, b, c})
  BY DEF Comparable
<1>3. \A a, b, c \in profiles : /\ ~Dominates(a, a)
                                /\ Dominates(a, b) /\ Dominates(b, c) => Dominates(a, c)
  BY <1>2, DominanceIsStrict
<1> HIDE DEF R
<1>4. /\ \A a \in profiles : <<a, a>> \notin R
      /\ \A a, b, c \in profiles : <<a, b>> \in R /\ <<b, c>> \in R => <<a, c>> \in R
  BY <1>1, <1>3, Zenon
<1>5. PICK y \in profiles : /\ y = x \/ <<y, x>> \in R
                            /\ \A z \in profiles : <<z, y>> \notin R
  <2>1. StrictOrder(R, profiles)
    BY <1>4, Zenon DEF StrictOrder
  <2>2. \A a \in profiles : HasTop(a, R, profiles)
    BY <2>1, TopAbove
  <2> QED BY <2>2, Zenon DEF HasTop
<1>6. y \in Nondominated(profiles)
  BY <1>1, <1>5 DEF Nondominated, Dominators
<1> QED BY <1>1, <1>5, <1>6

LEMMA PipelineIsComparable ==
  ASSUME NEW s, ValidStatistics(s)
  PROVE  Comparable(PipelineProfiles(s))
<1>1. /\ s.policy \in Nat /\ s.query \in Nat /\ s.governed \in Nat
      /\ s.queryJoin \in Nat /\ s.result \in Nat
  BY DEF ValidStatistics
<1>2. \A a, b, c \in Nat : \A d : Counted(Risk(Exposure(a, b, c, d)))
  BY DEF Counted, Risk, Exposure
<1>3. \A p \in PipelineProfiles(s) : \E a, b, c \in Nat : \E d : p.exposure = Exposure(a, b, c, d)
  <2>1. Fused(s).exposure = Exposure(0, 0, 0, FALSE)
    BY DEF Fused, Profile
  <2>2. PolicyFirst(s).exposure = Exposure(0, 0, s.policy, TRUE)
    BY DEF PolicyFirst, Profile
  <2>3. QueryFirst(s).exposure = Exposure(0, s.query, s.governed, TRUE)
    BY DEF QueryFirst, Profile
  <2>4. JoinFirst(s).exposure = Exposure(s.query, s.queryJoin, s.result, TRUE)
    BY DEF JoinFirst, Profile
  <2>5. 0 \in Nat
    OBVIOUS
  <2> QED BY <1>1, <2>1, <2>2, <2>3, <2>4, <2>5, Zenon DEF PipelineProfiles
<1> QED BY <1>2, <1>3, ProfilesOfPipeline, Zenon DEF Comparable

-----------------------------------------------------------------------------
\* The pipeline's selector: legal, decisive, within the tie of all that is legal.

LEMMA LegalOfPipeline ==
  ASSUME NEW s, ValidStatistics(s), NEW policy, NEW x \in LegalProfiles(s, policy)
  PROVE  \E y \in LegalProfiles(s, policy) :
           /\ y.id \in Survivors(s, policy)
           /\ y = x \/ Dominates(y, x)
<1>1. PICK P, L : P = PipelineProfiles(s) /\ L = LegalProfiles(s, policy)
  OBVIOUS
<1>2. L \subseteq P
  BY <1>1 DEF LegalProfiles, FeasibleCandidates
<1>3. IsFiniteSet(L)
  BY <1>1, <1>2, ProfilesOfPipeline, FS_Subset
<1>4. Comparable(L) /\ \A a, b \in L : a.id = b.id => a = b
  BY <1>1, <1>2, ProfilesOfPipeline, PipelineIsComparable DEF Comparable
<1>5. PICK y \in Nondominated(L) : y = x \/ Dominates(y, x)
  BY <1>1, <1>3, <1>4, NondominatedAbove
<1>6. y \in L /\ y.id \in Survivors(s, policy)
  BY <1>1, <1>5 DEF Nondominated, Survivors, Ids
<1> QED BY <1>1, <1>5, <1>6

\* A dominating profile costs no more under any model.
LEMMA DominatingIsCheaper ==
  ASSUME NEW x, NEW y, Comparable({x, y}), y = x \/ Dominates(y, x), NEW m, Rating(m)
  PROVE  Predicted(y.work, m) <= Predicted(x.work, m)
<1>1. Counted(x.work) /\ Counted(y.work)
  BY DEF Comparable
<1>2. DOMAIN y.work = DOMAIN x.work /\ \A n \in DOMAIN y.work : y.work[n] <= x.work[n]
  <2>1. CASE y = x
    <3>1. \A n \in DOMAIN y.work : y.work[n] \in Nat
      BY <1>1 DEF Counted
    <3> QED BY <2>1, <3>1
  <2>2. CASE Dominates(y, x)
    BY <2>2 DEF Dominates, NoWorse
  <2> QED BY <2>1, <2>2
<1> QED BY <1>1, <1>2, PredictedMonotone

LEMMA FirstSurvivor ==
  ASSUME NEW s, ValidStatistics(s), NEW policy, NEW S, S = Survivors(s, policy), S # {}
  PROVE  FirstOf(PipelineOrder, S) \in S
<1>1. PICK c \in S : TRUE
  OBVIOUS
<1>2. c \in {"fused", "policy_first", "query_first", "join_first"}
  BY SurvivorsAreLegal, ProfilesOfPipeline
<1>3. PICK i \in DOMAIN PipelineOrder : PipelineOrder[i] = c
  BY <1>2 DEF PipelineOrder
<1>4. PICK order : order = PipelineOrder
  OBVIOUS
<1>5. order \in Seq(Names)
  BY <1>4, NamesAreOrdered DEF PipelineOrder
<1>6. i \in DOMAIN order /\ order[i] \in S
  BY <1>1, <1>3, <1>4
<1> QED BY <1>4, <1>5, <1>6, FirstOfIsIn

LEMMA PipelineAnswer ==
  ASSUME NEW s, ValidStatistics(s), NEW policy, NEW m,
         NEW choice, choice = OptimizePipeline(s, policy, m),
         NEW S, S = Survivors(s, policy)
  PROVE  /\ choice.legal = S
         /\ \/ S = {} /\ choice.selected = None /\ choice.reason = "no_legal"
            \/ S # {} /\ choice.selected \in S /\ choice.reason \in {"only_legal", "out_of_support"}
            \/ S # {} /\ choice.selected = None /\ choice.reason = "raised"
            \/ /\ S # {} /\ choice.reason = "ranked" /\ choice.selected = Ranking(s, policy, m)
               /\ choice.selected \in Ids(LegalProfiles(s, policy))
<1> DEFINE P == PlanPipeline(s, policy)
<1>1. P.nondominated = S /\ P.feasible = Ids(LegalProfiles(s, policy))
  BY PlannedSets, Zenon DEF PlanPipeline, Survivors, LegalProfiles
<1>2. PICK a, c : a = FirstOf(PipelineOrder, S) /\ c = Ranking(s, policy, m)
  OBVIOUS
<1>3. PICK fallback : fallback = IF P.selected \in S THEN P.selected ELSE a
  OBVIOUS
<1>4. PICK cost : cost = CostOf(s, S, m)
  OBVIOUS
<1>5. c = ByModel(cost, m)
  BY <1>2, <1>4 DEF Ranking
<1>6. choice = IF S = {} THEN Choice(None, "no_legal", S, Unpriced)
               ELSE IF Cardinality(S) = 1 THEN Choice(a, "only_legal", S, Unpriced)
               ELSE IF ~InSupport(s) THEN Choice(fallback, "out_of_support", S, Unpriced)
               ELSE IF c \notin P.feasible THEN Choice(None, "raised", S, Unpriced)
               ELSE Choice(c, "ranked", S, cost)
  <2>1. cost = [d \in S |-> Predicted((CHOOSE p \in PipelineProfiles(s) : p.id = d).work, m)]
    BY <1>4 DEF CostOf, WorkOf
  <2> HIDE DEF P
  <2> QED BY <1>1, <1>2, <1>3, <1>5, <2>1, Zenon DEF OptimizePipeline, P
<1> HIDE DEF P
<1>7. ASSUME S # {} PROVE a \in S /\ fallback \in S
  BY <1>2, <1>3, <1>7, FirstSurvivor
<1>8. CASE S = {}
  BY <1>6, <1>8 DEF Choice
<1>9. CASE S # {} /\ Cardinality(S) = 1
  BY <1>6, <1>7, <1>9 DEF Choice
<1>10. CASE S # {} /\ Cardinality(S) # 1 /\ ~InSupport(s)
  BY <1>6, <1>7, <1>10 DEF Choice
<1>11. CASE S # {} /\ Cardinality(S) # 1 /\ InSupport(s)
  BY <1>1, <1>2, <1>6, <1>11 DEF Choice
<1> QED BY <1>8, <1>9, <1>10, <1>11

-----------------------------------------------------------------------------
\* The selectors answer with what is legal, whenever something is.

LegalAnswer(q, choice) ==
  /\ choice.selected # None => choice.selected \in FeasibleOf(q)
  /\ choice.selected = None => FeasibleOf(q) = {} \/ choice.reason = "raised"

NearLeast(q, choice, m) ==
  \A c \in FeasibleOf(q) :
    100 * Predicted(WorkOf(q.statistics, choice.selected), m)
      <= (100 + m.tie) * Predicted(WorkOf(q.statistics, c), m)

LEMMA NoneIsNoName == None \notin Names /\ None \notin Nat
BY FrozenModelsAssumption DEF Names

LEMMA FeasibleOfPipeline ==
  ASSUME NEW q, q.selector = "pipeline", ValidStatistics(q.statistics)
  PROVE  FeasibleOf(q) = Ids(LegalProfiles(q.statistics, q.policy))
<1>1. PICK P, E, policy : P = PipelineProfiles(q.statistics) /\ E = ExposureOf(q)
                          /\ policy = q.policy
  OBVIOUS
<1>2. DOMAIN E = Ids(P) /\ \A x \in P : E[x.id] = x.exposure
  BY <1>1, PipelineExposure
<1>3. FeasibleOf(q) = {c \in DOMAIN E : Feasible(E[c], policy)}
  BY <1>1 DEF FeasibleOf
<1>4. Ids(LegalProfiles(q.statistics, policy)) = {x.id : x \in {y \in P : Feasible(y.exposure, policy)}}
  BY <1>1 DEF LegalProfiles, Ids, FeasibleCandidates
<1>5. Ids(P) = {x.id : x \in P}
  BY DEF Ids
<1> QED BY <1>1, <1>2, <1>3, <1>4, <1>5

LEMMA PipelineIsLegal ==
  ASSUME NEW q, q.selector = "pipeline", ValidStatistics(q.statistics), ValidPolicy(q.policy),
         NEW m, ValidModel(m),
         NEW choice, choice = OptimizePipeline(q.statistics, q.policy, m)
  PROVE  /\ LegalAnswer(q, choice)
         /\ choice.reason = "ranked" => NearLeast(q, choice, m)
<1>1. PICK s, policy : s = q.statistics /\ policy = q.policy
  OBVIOUS
<1>2. PICK P, L, S : P = PipelineProfiles(s) /\ L = LegalProfiles(s, policy) /\ S = Survivors(s, policy)
  OBVIOUS
<1>3. FeasibleOf(q) = Ids(L) /\ S \subseteq Ids(L) /\ L \subseteq P /\ Ids(L) \subseteq Names
  <2>1. FeasibleOf(q) = Ids(L)
    BY <1>1, <1>2, FeasibleOfPipeline
  <2>2. S \subseteq Ids(L)
    BY <1>2, SurvivorsAreLegal
  <2>3. L \subseteq P
    BY <1>2 DEF LegalProfiles, FeasibleCandidates
  <2>4. \A x \in P : x.id \in Names
    BY <1>1, <1>2, ProfilesOfPipeline
  <2> QED BY <2>1, <2>2, <2>3, <2>4 DEF Ids
<1>4. ASSUME NEW x \in L
      PROVE  \E y \in L : y.id \in S /\ (y = x \/ Dominates(y, x))
  BY <1>1, <1>2, <1>4, LegalOfPipeline
<1>5. S = {} => L = {}
  BY <1>4
<1>6. \/ S = {} /\ choice.selected = None /\ choice.reason = "no_legal"
      \/ S # {} /\ choice.selected \in S /\ choice.reason \in {"only_legal", "out_of_support"}
      \/ S # {} /\ choice.selected = None /\ choice.reason = "raised"
      \/ /\ S # {} /\ choice.reason = "ranked" /\ choice.selected = Ranking(s, policy, m)
         /\ choice.selected \in Ids(L)
  BY <1>1, <1>2, PipelineAnswer
<1>7. LegalAnswer(q, choice)
  <2>1. S = {} => FeasibleOf(q) = {}
    BY <1>3, <1>5 DEF Ids
  <2> QED BY <1>3, <1>6, <2>1, NoneIsNoName DEF LegalAnswer
<1>8. \A x \in L : WorkOf(s, x.id) = x.work
  BY <1>1, <1>2, <1>3, WorkOfProfile
<1>9. ASSUME choice.reason = "ranked" PROVE NearLeast(q, choice, m)
  <2>1. S # {} /\ choice.selected = Ranking(s, policy, m)
    BY <1>6, <1>9
  <2>2. PICK cost, b, t : cost = CostOf(s, S, m) /\ b = choice.selected /\ t = m.tie
    OBVIOUS
  <2>3. t \in Nat /\ Rating(m)
    BY <2>2 DEF ValidModel, Rating
  <2>4. S \subseteq Ids(P)
    BY <1>3 DEF Ids
  <2>5. Prices(cost, S) /\ DOMAIN cost = S
    BY <1>1, <1>2, <2>1, <2>2, <2>4, PipelinePrices
  <2>6. b = ByModel(cost, m) /\ b \in Equivalent(cost, t)
    <3>1. b = ByModel(cost, m)
      BY <1>2, <2>1, <2>2 DEF Ranking
    <3> QED BY <2>2, <2>3, <2>5, <3>1, ByModelIsEquivalent
  <2>7. b \in S /\ \A d \in S : 100 * cost[b] <= cost[d] * (100 + t)
    BY <2>3, <2>5, <2>6, EquivalentIsNearLeast
  <2>8. ASSUME NEW x \in L
        PROVE  100 * Predicted(WorkOf(s, b), m) <= (100 + t) * Predicted(x.work, m)
    <3>1. PICK y \in L : y.id \in S /\ (y = x \/ Dominates(y, x))
      BY <1>4
    <3>2. PICK d, work : d = y.id /\ work = y.work
      OBVIOUS
    <3>3. WorkOf(s, d) = work
      BY <1>8, <3>1, <3>2
    <3>4. cost[d] = Predicted(work, m) /\ cost[b] = Predicted(WorkOf(s, b), m)
      BY <2>2, <2>7, <3>1, <3>2, <3>3 DEF CostOf
    <3>5. Comparable({x, y})
      BY <1>1, <1>2, <1>3, PipelineIsComparable DEF Comparable
    <3>6. cost[d] <= Predicted(x.work, m)
      BY <2>3, <3>1, <3>2, <3>4, <3>5, DominatingIsCheaper
    <3>7. Predicted(x.work, m) \in Nat
      BY <2>3, <3>5, PredictedIsNat DEF Comparable
    <3>8. PICK u, v, w : u = cost[b] /\ v = cost[d] /\ w = Predicted(x.work, m)
      OBVIOUS
    <3>9. u \in Nat /\ v \in Nat /\ w \in Nat /\ v <= w /\ 100 * u <= v * (100 + t)
      BY <2>5, <2>7, <3>1, <3>2, <3>6, <3>7, <3>8 DEF Prices
    <3>10. 100 * u \in Nat
      BY <3>9
    <3>11. 100 * u <= w * (100 + t)
      BY <2>3, <3>9, <3>10, WithinIsMonotone, Zenon
    <3>12. \A i, j \in Nat : i * (100 + j) = (100 + j) * i
      OBVIOUS
    <3>13. w * (100 + t) = (100 + t) * w
      BY <2>3, <3>9, <3>12, Zenon
    <3> QED BY <3>4, <3>8, <3>11, <3>13, Zenon
  <2>9. ASSUME NEW c \in FeasibleOf(q)
        PROVE  100 * Predicted(WorkOf(s, b), m) <= (100 + t) * Predicted(WorkOf(s, c), m)
    <3>1. PICK x \in L : c = x.id
      BY <1>3 DEF Ids
    <3>2. WorkOf(s, c) = x.work
      BY <1>8, <3>1
    <3> QED BY <2>8, <3>2
  <2> QED BY <1>1, <2>2, <2>9, Zenon DEF NearLeast
<1> QED BY <1>7, <1>9

LEMMA PlacementsAreLegal ==
  ASSUME NEW s, NEW policy, ValidPolicy(policy), NEW legal, legal = LegalPlacements(s, policy)
  PROVE  /\ legal \subseteq Placements /\ "policy_first" \in legal /\ IsFiniteSet(legal)
         /\ Cardinality(legal) = 1 => legal = {"policy_first"}
         /\ Cardinality(legal) # 1 => legal = Placements
<1>1. legal \subseteq Placements
  BY DEF LegalPlacements
<1>2. "policy_first" \in legal
  <2>1. PICK e : e = CheckpointExposure(s, "policy_first")
    OBVIOUS
  <2>2. e.raw_join = 0 /\ e.raw_materialized = 0 /\ e.checkpoint = TRUE
    BY <2>1 DEF CheckpointExposure, Exposure
  <2>3. ~Exceeds(0, policy.joined) /\ ~Exceeds(0, policy.materialized)
    BY DEF Exceeds, ValidPolicy
  <2>4. Feasible(e, policy)
    BY <2>2, <2>3, FeasibleWithinLimits
  <2> QED BY <2>1, <2>4 DEF LegalPlacements, Placements
<1>3. IsFiniteSet(legal)
  <2>1. IsFiniteSet({"policy_first", "policy_first", "policy_first", "query_first"})
    BY FourAreFinite, Zenon
  <2>2. legal \subseteq {"policy_first", "policy_first", "policy_first", "query_first"}
    BY <1>1 DEF Placements
  <2> QED BY <2>1, <2>2, FS_Subset
<1>4. Cardinality(legal) = 1 => legal = {"policy_first"}
  BY <1>2, <1>3, FS_Singleton
<1>5. Cardinality(legal) # 1 => legal = Placements
  <2>1. SUFFICES ASSUME legal # Placements PROVE Cardinality(legal) = 1
    OBVIOUS
  <2>2. legal = {"policy_first"}
    BY <1>1, <1>2, <2>1 DEF Placements
  <2> QED BY <2>2, FS_Singleton
<1> QED BY <1>1, <1>2, <1>3, <1>4, <1>5

LEMMA FeasibleOfCheckpoint ==
  ASSUME NEW q, q.selector \in {"checkpoint", "guarded", "adaptive"}
  PROVE  FeasibleOf(q) = LegalPlacements(q.statistics, q.policy)
<1>1. ExposureOf(q) = [c \in Placements |-> CheckpointExposure(q.statistics, c)]
  <2>1. q.selector # "pipeline"
    OBVIOUS
  <2> QED BY <2>1 DEF ExposureOf
<1>2. PICK E, s : E = ExposureOf(q) /\ s = q.statistics
  OBVIOUS
<1>3. FeasibleOf(q) = {c \in DOMAIN E : Feasible(E[c], q.policy)}
  BY <1>2 DEF FeasibleOf
<1> QED BY <1>1, <1>2, <1>3 DEF LegalPlacements

PlacementCost(s, legal, m) == [c \in legal |-> Predicted(CheckpointFeatures(s, c), m)]

LEMMA CheckpointPrices ==
  ASSUME NEW s, ValidCheckpoint(s), NEW m, Rating(m), NEW legal \in SUBSET Placements, legal # {}
  PROVE  Prices(PlacementCost(s, legal, m), legal)
<1>1. s.input \in Nat /\ s.width \in Nat /\ s.policy \in Nat /\ s.query \in Nat /\ s.result \in Nat
  BY DEF ValidCheckpoint
<1>2. ASSUME NEW c \in Placements PROVE Counted(CheckpointFeatures(s, c))
  <2>1. \A a \in Nat : a * 24 \in Nat /\ 16 + a \in Nat
    OBVIOUS
  <2>2. PICK a, b, d, e \in Nat : /\ a = s.policy * 24 /\ b = s.input * s.width
                                  /\ d = s.query * (16 + s.width) /\ e = s.query * s.width
    BY <1>1, <2>1, ProductsOfNaturals, Zenon
  <2>3. PICK work : work = CheckpointFeatures(s, c)
    OBVIOUS
  <2>4. work = IF c = "policy_first"
               THEN [narrow |-> a, rows |-> s.policy, raw |-> 0, result |-> s.result, hash |-> b]
               ELSE [narrow |-> 0, rows |-> s.query, raw |-> d, result |-> s.result, hash |-> e]
    BY <2>2, <2>3, Zenon DEF CheckpointFeatures
  <2>5. Counted(work)
    BY <1>1, <2>4 DEF Counted
  <2> QED BY <2>3, <2>5
<1>3. \A c \in legal : Predicted(CheckpointFeatures(s, c), m) \in Nat
  BY <1>2, PredictedIsNat
<1>4. legal \subseteq Names
  BY NamesAreOrdered DEF Placements
<1> QED BY <1>3, <1>4 DEF Prices, PlacementCost

(* The checkpoint's selector answers policy-first, or the cheapest of the  *)
(* two where both are legal and priced.                                    *)
LEMMA CheckpointAnswer ==
  ASSUME NEW s, ValidCheckpoint(s), NEW policy, ValidPolicy(policy), NEW m, ValidAnalytic(m),
         NEW strategy, NEW choice, choice = RankCheckpoint(s, policy, m, strategy)
  PROVE  \/ choice.selected = None /\ choice.reason = "raised"
         \/ choice.selected = "policy_first" /\ choice.reason \in {"only_legal", "out_of_support"}
         \/ /\ choice.selected \in Placements /\ choice.reason = "ranked"
            /\ LegalPlacements(s, policy) = Placements
            /\ choice.cost = PlacementCost(s, Placements, m)
<1> DEFINE legal == LegalPlacements(s, policy)
           work == [c \in legal |-> CheckpointFeatures(s, c)]
           cost == [c \in legal |-> Predicted(work[c], m)]
           tied == Equivalent(cost, m.tie)
           one == CHOOSE c \in legal : TRUE
           least == Cheapest(cost, legal)
<1>1. choice = IF legal = {} THEN Choice(None, "no_legal", legal, Unpriced)
               ELSE IF Cardinality(legal) = 1 THEN Choice(one, "only_legal", legal, Unpriced)
               ELSE IF \E c \in legal : ~Priceable(work[c], m)
               THEN Choice(None, "raised", legal, Unpriced)
               ELSE IF \E c \in legal : ~Calibrated(work[c], m)
               THEN Choice("policy_first", "out_of_support", legal, cost)
               ELSE IF strategy = "policy_first_fallback" /\ "policy_first" \in tied
               THEN Choice("policy_first", "ranked", legal, cost)
               ELSE Choice(least, "ranked", legal, cost)
  BY Zenon DEF RankCheckpoint
<1>2. cost = PlacementCost(s, legal, m)
  BY DEF PlacementCost
<1> HIDE DEF legal, work, cost, tied
<1>3. /\ legal \subseteq Placements /\ "policy_first" \in legal
      /\ Cardinality(legal) = 1 => legal = {"policy_first"}
      /\ Cardinality(legal) # 1 => legal = Placements
  BY PlacementsAreLegal DEF legal
<1>4. least \in legal
  <2>1. Rating(m)
    BY DEF Rating, ValidAnalytic
  <2>2. Prices(cost, legal)
    BY <1>2, <1>3, <2>1, CheckpointPrices
  <2> QED BY <2>2, CheapestIsLeast
<1>5. one \in legal
  BY <1>3
<1> HIDE DEF one, least
<1>6. CASE Cardinality(legal) = 1
  <2>1. one = "policy_first"
    BY <1>3, <1>5, <1>6
  <2> QED BY <1>1, <1>3, <1>6, <2>1 DEF Choice
<1>7. CASE Cardinality(legal) # 1
  <2>1. legal = Placements /\ legal # {} /\ cost = PlacementCost(s, Placements, m)
    BY <1>2, <1>3, <1>7
  <2>2. least \in Placements /\ "policy_first" \in Placements
    BY <1>3, <1>4
  <2>3. LegalPlacements(s, policy) = Placements
    BY <2>1 DEF legal
  <2> QED BY <1>1, <1>7, <2>1, <2>2, <2>3 DEF Choice
<1> QED BY <1>6, <1>7

LEMMA GuardedAnswer ==
  ASSUME NEW s, ValidCheckpoint(s), NEW policy, ValidPolicy(policy), NEW g, ValidGuard(g),
         NEW choice, choice = RankGuarded(s, policy, g)
  PROVE  /\ \/ choice.selected = None /\ choice.reason = "raised"
            \/ choice.selected \in LegalPlacements(s, policy)
         /\ choice.selected = "query_first" =>
              Predicted(CheckpointFeatures(s, "query_first"), g.base) + g.bound
                < Predicted(CheckpointFeatures(s, "policy_first"), g.base)
<1> DEFINE base == RankCheckpoint(s, policy, g.base, "policy_first_fallback")
<1>1. choice = IF base.reason # "ranked" THEN base
               ELSE IF base.cost["query_first"] - base.cost["policy_first"] + g.bound < 0
               THEN [base EXCEPT !.selected = "query_first", !.reason = "guarded"]
               ELSE [base EXCEPT !.selected = "policy_first", !.reason = "guarded"]
  BY Zenon DEF RankGuarded
<1>2. PICK a, b, c, d : base = Choice(a, b, c, d)
  BY Zenon DEF RankCheckpoint
<1>3. ValidAnalytic(g.base) /\ g.bound \in Nat
  BY DEF ValidGuard
<1>4. \/ base.selected = None /\ base.reason = "raised"
      \/ base.selected = "policy_first" /\ base.reason \in {"only_legal", "out_of_support"}
      \/ /\ base.selected \in Placements /\ base.reason = "ranked"
         /\ LegalPlacements(s, policy) = Placements
         /\ base.cost = PlacementCost(s, Placements, g.base)
  <2>1. PICK m : m = g.base
    OBVIOUS
  <2>2. ValidAnalytic(m) /\ base = RankCheckpoint(s, policy, m, "policy_first_fallback")
    BY <1>3, <2>1
  <2> HIDE DEF base
  <2> QED BY <2>1, <2>2, CheckpointAnswer
<1> HIDE DEF base
<1>5. "policy_first" \in LegalPlacements(s, policy)
  BY PlacementsAreLegal
<1>6. "policy_first" # "query_first" /\ None # "query_first"
  BY NoneIsNoName, NamesAreOrdered
<1>7. CASE base.reason # "ranked"
  BY <1>1, <1>4, <1>5, <1>6, <1>7
<1>8. CASE base.reason = "ranked"
  <2>1. PICK x, y : /\ x = Predicted(CheckpointFeatures(s, "query_first"), g.base)
                    /\ y = Predicted(CheckpointFeatures(s, "policy_first"), g.base)
    OBVIOUS
  <2>2. LegalPlacements(s, policy) = Placements
        /\ base.cost = PlacementCost(s, Placements, g.base)
    BY <1>4, <1>8
  <2>3. base.cost["query_first"] = x /\ base.cost["policy_first"] = y
    BY <2>1, <2>2 DEF PlacementCost, Placements
  <2>4. x \in Nat /\ y \in Nat
    <3>1. PICK m : m = g.base
      OBVIOUS
    <3>2. Rating(m)
      BY <1>3, <3>1 DEF Rating, ValidAnalytic
    <3>3. Prices(PlacementCost(s, Placements, m), Placements)
      <4>1. Placements \in SUBSET Placements /\ Placements # {}
        BY DEF Placements
      <4> QED BY <3>2, <4>1, CheckpointPrices
    <3> QED BY <2>1, <3>1, <3>3 DEF Prices, PlacementCost, Placements
  <2>5. x - y + g.bound < 0 => x + g.bound < y
    BY <1>3, <2>4
  <2>6. "query_first" \in Placements /\ "policy_first" \in Placements
    BY DEF Placements
  <2>7. CASE x - y + g.bound < 0
    <3>1. choice.selected = "query_first"
      BY <1>1, <1>2, <1>8, <2>3, <2>7 DEF Choice
    <3> QED BY <2>1, <2>2, <2>5, <2>6, <2>7, <3>1
  <2>8. CASE ~(x - y + g.bound < 0)
    <3>1. choice.selected = "policy_first"
      BY <1>1, <1>2, <1>8, <2>3, <2>8 DEF Choice
    <3> QED BY <2>2, <1>6, <2>6, <3>1
  <2> QED BY <2>7, <2>8
<1> QED BY <1>7, <1>8

LEMMA AdaptiveAnswer ==
  ASSUME NEW s, NEW policy, ValidPolicy(policy), NEW blocks, NEW interval, NEW config,
         NEW choice, choice = ChooseAdaptive(s, policy, blocks, interval, config)
  PROVE  \/ choice.selected = None /\ choice.reason = "raised"
         \/ choice.selected \in LegalPlacements(s, policy)
<1> DEFINE legal == LegalPlacements(s, policy)
           one == CHOOSE c \in legal : TRUE
<1>1. \/ legal = {}
      \/ choice = Choice(None, "raised", legal, Unpriced)
      \/ Cardinality(legal) = 1 /\ choice = Choice(one, "only_legal", legal, Unpriced)
      \/ /\ Cardinality(legal) # 1
         /\ \/ choice = Choice("policy_first", "pilot", legal, Unpriced)
            \/ choice = Choice("query_first", "pilot", legal, Unpriced)
  BY SMT DEF ChooseAdaptive
<1> HIDE DEF legal
<1>2. /\ "policy_first" \in legal
      /\ Cardinality(legal) = 1 => legal = {"policy_first"}
      /\ Cardinality(legal) # 1 => legal = Placements
  BY PlacementsAreLegal DEF legal
<1>3. one \in legal /\ "query_first" \in Placements
  BY <1>2 DEF Placements
<1> HIDE DEF one
<1>4. \/ choice.selected \in legal
      \/ choice.selected = None /\ choice.reason = "raised"
  BY <1>1, <1>2, <1>3 DEF Choice
<1> QED BY <1>4 DEF legal

-----------------------------------------------------------------------------
\* Candidates described stage by stage.

LEMMA Log2IsNat ==
  ASSUME NEW n \in Nat, n < 2 ^ 30
  PROVE  Log2(n) \in Nat
<1> DEFINE S == {k \in 0 .. 29 : 2 ^ (k + 1) > n}
<1>1. 29 \in S
  <2>1. 29 \in 0 .. 29 /\ 29 + 1 = 30 /\ 2 ^ 30 \in Nat
    OBVIOUS
  <2> QED BY <2>1
<1>2. S \in SUBSET Nat /\ S # {}
  <2>1. S \subseteq 0 .. 29
    OBVIOUS
  <2> HIDE DEF S
  <2> QED BY <1>1, <2>1
<1> HIDE DEF S
<1>3. Lowest(S) \in S
  BY <1>2, LowestIsLeast
<1>4. Log2(n) = Lowest(S)
  BY DEF Log2, S
<1> QED BY <1>2, <1>3, <1>4

BoundedSpec(x) == ValidSpec(x) /\ x.stages["sort"].rows < 2 ^ 30

\* What the name of a kind of work may be.
LEMMA NamesOfWork ==
  ASSUME NEW x, NEW n \in WorkNames(x)
  PROVE  \/ n[1] = "breaker"
         \/ n[1] = "lineage" /\ n[2] \in DOMAIN x.lineage
         \/ n[1] \in StageNames /\ n[1] \notin {"breaker", "lineage"} /\ n[Len(n)] # "comparisons"
         \/ n[1] = "sort"
<1> USE DEF StageNames
<1>1. CASE n \in {"scan", "result"} \X {"payload"}
  BY <1>1
<1>2. CASE n \in {"build", "probe", "output"} \X {"rows", "payload"}
  BY <1>2
<1>3. CASE n \in {"raw_written", "masked_written"} \X {"write", "read"}
  BY <1>3
<1>4. CASE n \in {<<"lineage", q>> : q \in DOMAIN x.lineage}
  BY <1>4
<1>5. CASE n \in {<<p[1], x.modes[p[1]], p[2]>> : p \in
                    {r \in {"mask", "aggregate"} \X {"rows", "payload"} : x.stages[r[1]].rows > 0}}
  <2>1. PICK p \in {"mask", "aggregate"} \X {"rows", "payload"} : n = <<p[1], x.modes[p[1]], p[2]>>
    BY <1>5
  <2>2. n[1] = p[1] /\ Len(n) = 3 /\ n[3] = p[2]
    BY <2>1
  <2> QED BY <2>1, <2>2
<1>6. CASE n \in {<<g, x.modes[g], "comparisons">> : g \in {k \in {"sort"} : x.stages[k].rows > 0}}
  BY <1>6
<1>7. CASE n \in {<<"breaker", b>> : b \in x.breakers}
  BY <1>7
<1> QED BY <1>1, <1>2, <1>3, <1>4, <1>5, <1>6, <1>7 DEF WorkNames

LEMMA SpecWorkIsCounted ==
  ASSUME NEW x, BoundedSpec(x)
  PROVE  Counted(SpecWork(x))
<1> SUFFICES ASSUME NEW n \in WorkNames(x) PROVE SpecWork(x)[n] \in Nat
  BY DEF Counted, SpecWork
<1>1. PICK g, k : g = n[1] /\ k = n[Len(n)]
  OBVIOUS
<1>2. PICK rows, width : rows = x.stages[g].rows /\ width = x.stages[g].width
  OBVIOUS
<1>3. PICK log : log = Log2(IF rows < 2 THEN 2 ELSE rows)
  OBVIOUS
<1>4. SpecWork(x)[n] = IF g = "breaker" THEN 1
                       ELSE IF g = "lineage" THEN x.lineage[n[2]]
                       ELSE IF k = "rows" THEN rows
                       ELSE IF k = "comparisons" THEN rows * log * width
                       ELSE rows * width
  BY <1>1, <1>2, <1>3, Zenon DEF SpecWork
<1>5. g \in StageNames => rows \in Nat /\ width \in Nat
  BY <1>2 DEF BoundedSpec, ValidSpec
<1>6. CASE g = "breaker"
  BY <1>4, <1>6
<1>7. CASE g = "lineage" /\ n[2] \in DOMAIN x.lineage
  BY <1>4, <1>7 DEF BoundedSpec, ValidSpec
<1>8. CASE g \in StageNames /\ g \notin {"breaker", "lineage"} /\ k # "comparisons"
  <2>1. rows \in Nat /\ rows * width \in Nat
    BY <1>5, <1>8, ProductsOfNaturals, Zenon
  <2> QED BY <1>4, <1>8, <2>1
<1>9. CASE g = "sort"
  <2>1. rows \in Nat /\ width \in Nat /\ rows < 2 ^ 30
    BY <1>2, <1>5, <1>9 DEF BoundedSpec, StageNames
  <2>2. PICK r \in Nat : r = (IF rows < 2 THEN 2 ELSE rows) /\ r < 2 ^ 30
    <3>1. 2 < 2 ^ 30
      OBVIOUS
    <3> QED BY <2>1, <3>1
  <2>3. log \in Nat
    BY <1>3, <2>2, Log2IsNat
  <2>4. rows * log \in Nat
    BY <2>1, <2>3, ProductsOfNaturals, Zenon
  <2>5. rows * log * width \in Nat /\ rows * width \in Nat
    BY <2>1, <2>4, ProductsOfNaturals, Zenon
  <2> QED BY <1>4, <1>9, <2>1, <2>5
<1> QED BY <1>1, <1>6, <1>7, <1>8, <1>9, NamesOfWork

LEMMA StableChoiceIsIn ==
  ASSUME NEW m, m.order \in Seq(Names), NEW among \in SUBSET Names, among # {}
  PROVE  StableChoice(among, m) \in among
<1>1. PICK order : order = m.order
  OBVIOUS
<1>2. ASSUME NEW i \in DOMAIN order, order[i] \in among PROVE FirstOf(order, among) \in among
  BY <1>1, <1>2, FirstOfIsIn
<1>3. \E c \in among : \A d \in among : Alphabetical[c] <= Alphabetical[d]
  <2>1. PICK cost : cost = [c \in Names |-> 0]
    OBVIOUS
  <2>2. Prices(cost, among)
    BY <2>1 DEF Prices
  <2>3. PICK c \in among : \A d \in among : Cheaper(cost, c, d)
    BY <2>2, CheapestIsLeast
  <2> QED BY <2>1, <2>3 DEF Cheaper
<1>4. PICK c : c = CHOOSE a \in among : \A d \in among : Alphabetical[a] <= Alphabetical[d]
  OBVIOUS
<1>5. c \in among
  BY <1>3, <1>4
<1> QED BY <1>1, <1>2, <1>4, <1>5 DEF StableChoice

\* As many ids as candidates: each id is of one.
LEMMA DistinctIds ==
  ASSUME NEW specs, IsFiniteSet(specs),
         Cardinality({x.id : x \in specs}) = Cardinality(specs)
  PROVE  \A x, y \in specs : x.id = y.id => x = y
<1>1. PICK T : T = {x.id : x \in specs}
  OBVIOUS
<1>2. PICK f : f = [x \in specs |-> x.id]
  OBVIOUS
<1>3. f \in Surjection(specs, T)
  BY <1>1, <1>2 DEF Surjection
<1>4. f \in Injection(specs, T)
  BY <1>1, <1>3, FS_Surjection
<1> QED BY <1>2, <1>4 DEF Injection, IsInjective

LEMMA AnalyticIsRating ==
  ASSUME NEW m, ValidAnalytic(m)
  PROVE  m.tie \in Nat /\ Rating(m) /\ m.order \in Seq(Names)
<1>1. m.tie \in 0 .. 99
  BY Zenon DEF ValidAnalytic
<1>2. m.order \in Seq(Names)
  BY Zenon DEF ValidAnalytic, Names
<1>3. Rating(m)
  BY DEF ValidAnalytic, Rating
<1>4. \A n \in 0 .. 99 : n \in Nat
  OBVIOUS
<1>5. m.tie \in Nat
  BY <1>1, <1>4, Zenon
<1> QED BY <1>2, <1>3, <1>5

LEMMA SpecsAnswer ==
  ASSUME NEW q, q.selector = "specs", ValidPolicy(q.policy), ValidAnalytic(q.model),
         IsFiniteSet(q.specs), \A x \in q.specs : BoundedSpec(x),
         NEW choice, choice = RankSpecs(q.specs, q.policy, q.model)
  PROVE  /\ LegalAnswer(q, choice)
         /\ choice.selected # None =>
              ~Violates(CHOOSE x \in q.specs : x.id = choice.selected, q.policy)
<1>1. PICK specs, policy, m : specs = q.specs /\ policy = q.policy /\ m = q.model
  OBVIOUS
<1> DEFINE legal == {x \in specs : Feasible(x.exposure, policy)}
           ids == {x.id : x \in legal}
           work == [c \in ids |-> SpecWork(CHOOSE x \in legal : x.id = c)]
           cost == [c \in ids |-> Predicted(work[c], m)]
           one == CHOOSE c \in ids : TRUE
           clash == specs = {} \/ Cardinality({x.id : x \in specs}) # Cardinality(specs)
           unpriced == \E c \in ids : ~Priceable(work[c], m)
           outside == \E c \in ids : ~Calibrated(work[c], m)
           stable == StableChoice(ids, m)
           near == StableChoice(Equivalent(cost, m.tie), m)
<1>2. choice = IF clash THEN Choice(None, "raised", {}, Unpriced)
               ELSE IF legal = {} THEN Choice(None, "no_legal", ids, Unpriced)
               ELSE IF Cardinality(legal) = 1 THEN Choice(one, "only_legal", ids, Unpriced)
               ELSE IF unpriced THEN Choice(None, "raised", ids, Unpriced)
               ELSE IF outside THEN Choice(stable, "out_of_support", ids, cost)
               ELSE Choice(near, "ranked", ids, cost)
  <2>1. choice = RankSpecs(specs, policy, m)
    BY <1>1
  <2> QED BY <2>1, Zenon DEF RankSpecs
<1> HIDE DEF clash, unpriced, outside
<1>3. ids \subseteq Names
  BY <1>1 DEF BoundedSpec, ValidSpec, Names
<1>4. /\ m.tie \in Nat /\ Rating(m) /\ m.order \in Seq(Names)
  BY <1>1, AnalyticIsRating
<1>5. ASSUME legal # {} PROVE one \in ids /\ stable \in ids /\ near \in ids
  <2>1. ids # {}
    BY <1>5
  <2>2. \A c \in ids : cost[c] \in Nat
    <3> SUFFICES ASSUME NEW c \in ids PROVE Predicted(work[c], m) \in Nat
      OBVIOUS
    <3>1. PICK x : x = CHOOSE y \in legal : y.id = c
      OBVIOUS
    <3>2. x \in legal
      BY <3>1
    <3>3. BoundedSpec(x)
      BY <1>1, <3>2
    <3>4. work[c] = SpecWork(x)
      BY <3>1
    <3> HIDE DEF work, ids, legal
    <3> QED BY <1>4, <3>3, <3>4, SpecWorkIsCounted, PredictedIsNat
  <2>3. DOMAIN cost = ids
    OBVIOUS
  <2>4. Prices(cost, DOMAIN cost)
    BY <1>3, <2>1, <2>2, <2>3 DEF Prices
  <2> HIDE DEF cost, ids
  <2>5. PICK tie : tie = m.tie
    OBVIOUS
  <2>6. Prices(cost, Equivalent(cost, tie)) /\ Equivalent(cost, tie) \subseteq DOMAIN cost
    BY <1>4, <2>4, <2>5, CheapestIsEquivalent, EquivalentIsNearLeast
  <2>7. near \in Equivalent(cost, tie)
    <3>1. PICK E : E = Equivalent(cost, tie)
      OBVIOUS
    <3>2. E \in SUBSET Names /\ E # {}
      BY <2>6, <3>1 DEF Prices
    <3> QED BY <1>4, <2>5, <3>1, <3>2, StableChoiceIsIn
  <2>8. stable \in ids
    BY <1>3, <1>4, <2>1, StableChoiceIsIn
  <2> QED BY <2>1, <2>3, <2>6, <2>7, <2>8
<1> HIDE DEF one, stable, near
<1>6. \/ choice.selected = None /\ choice.reason = "raised"
      \/ choice.selected = None /\ legal = {} /\ ~clash
      \/ choice.selected \in ids /\ ~clash
  <2> HIDE DEF legal, ids, cost
  <2> QED BY <1>2, <1>5 DEF Choice
<1>7. ExposureOf(q) = [c \in Ids(specs) |-> (CHOOSE x \in specs : x.id = c).exposure]
  <2>1. q.selector # "pipeline" /\ q.selector \notin {"checkpoint", "guarded", "adaptive"}
    OBVIOUS
  <2> QED BY <1>1, <2>1 DEF ExposureOf
<1>8. FeasibleOf(q) = {c \in Ids(specs) : Feasible((CHOOSE x \in specs : x.id = c).exposure, policy)}
  <2>1. PICK E : E = ExposureOf(q)
    OBVIOUS
  <2>2. FeasibleOf(q) = {c \in DOMAIN E : Feasible(E[c], policy)}
    BY <1>1, <2>1 DEF FeasibleOf
  <2>3. E = [c \in Ids(specs) |-> (CHOOSE x \in specs : x.id = c).exposure]
    BY <1>7, <2>1
  <2> QED BY <2>2, <2>3
<1>9. legal = {} => FeasibleOf(q) = {}
  <2>1. SUFFICES ASSUME legal = {}, NEW c \in FeasibleOf(q) PROVE FALSE
    OBVIOUS
  <2>2. PICK x : x = CHOOSE y \in specs : y.id = c
    OBVIOUS
  <2>3. c \in Ids(specs) /\ Feasible(x.exposure, policy)
    BY <1>8, <2>1, <2>2
  <2>4. x \in specs
    BY <2>2, <2>3 DEF Ids
  <2> QED BY <2>1, <2>3, <2>4
<1>10. ASSUME NEW c \in ids, ~clash
       PROVE  c \in FeasibleOf(q) /\ ~Violates(CHOOSE x \in specs : x.id = c, policy)
  <2>1. PICK x \in legal : x.id = c
    BY <1>10
  <2>2. \A y, z \in specs : y.id = z.id => y = z
    BY <1>1, <1>10, DistinctIds DEF clash
  <2>3. (CHOOSE y \in specs : y.id = c) = x
    BY <2>1, <2>2
  <2>4. x \in specs /\ Feasible(x.exposure, policy) /\ ValidSpec(x)
    BY <1>1, <2>1 DEF BoundedSpec
  <2>5. c \in FeasibleOf(q)
    BY <1>8, <2>1, <2>3, <2>4 DEF Ids
  <2>6. PICK joined, written : joined = x.exposure.raw_join /\ written = x.exposure.raw_materialized
    OBVIOUS
  <2>7. joined \in Nat /\ written \in Nat
        /\ ~Exceeds(joined, policy.joined) /\ ~Exceeds(written, policy.materialized)
    BY <2>4, <2>6, FeasibleWithinLimits DEF ValidSpec
  <2>8. ASSUME policy.joined = 0, NEW g \in {"probe", "output"}, x.stages[g].state = "raw"
        PROVE  FALSE
    BY <2>4, <2>6, <2>7, <2>8, NoneIsNoName DEF ValidSpec, Exceeds
  <2>9. ASSUME x.stages["raw_written"].state = "raw",
               Exceeds(x.stages["raw_written"].rows, policy.materialized)
        PROVE  FALSE
    <3>1. PICK r : r = x.stages["raw_written"].rows
      OBVIOUS
    <3>2. r \in Nat /\ written >= r
      BY <2>4, <2>6, <2>9, <3>1 DEF ValidSpec, StageNames
    <3> QED BY <1>1, <2>7, <2>9, <3>1, <3>2 DEF Exceeds, ValidPolicy
  <2>10. ~Violates(x, policy)
    BY <2>8, <2>9 DEF Violates
  <2> QED BY <2>3, <2>5, <2>10
<1>11. None \notin ids
  BY <1>3, NoneIsNoName
<1>12. LegalAnswer(q, choice)
  <2> HIDE DEF ids, legal
  <2> QED BY <1>6, <1>9, <1>10, <1>11 DEF LegalAnswer
<1>13. choice.selected # None =>
         ~Violates(CHOOSE x \in specs : x.id = choice.selected, policy)
  <2> HIDE DEF ids, legal
  <2> QED BY <1>6, <1>10
<1> QED BY <1>1, <1>12, <1>13, Zenon

-----------------------------------------------------------------------------
\* Every decision is legal.

LEMMA CheckpointsAnswer ==
  ASSUME NEW q, q.selector = "checkpoint", ValidCheckpoint(q.statistics), ValidPolicy(q.policy),
         NEW m, ValidAnalytic(m),
         NEW choice, choice = RankCheckpoint(q.statistics, q.policy, m, q.strategy)
  PROVE  LegalAnswer(q, choice)
<1>1. PICK legal : legal = LegalPlacements(q.statistics, q.policy)
  OBVIOUS
<1>2. FeasibleOf(q) = legal /\ "policy_first" \in legal
  BY <1>1, FeasibleOfCheckpoint, PlacementsAreLegal
<1>3. PICK strategy, s, policy : strategy = q.strategy /\ s = q.statistics /\ policy = q.policy
  OBVIOUS
<1>4. \/ choice.selected = None /\ choice.reason = "raised"
      \/ choice.selected = "policy_first"
      \/ choice.selected \in Placements /\ legal = Placements
  BY <1>1, <1>3, CheckpointAnswer
<1>5. None \notin Placements /\ "policy_first" # None
  BY NoneIsNoName, NamesAreOrdered DEF Placements
<1> QED BY <1>2, <1>4, <1>5 DEF LegalAnswer

LEMMA GuardsAnswer ==
  ASSUME NEW q, q.selector = "guarded", ValidCheckpoint(q.statistics), ValidPolicy(q.policy),
         NEW g, ValidGuard(g), NEW choice, choice = RankGuarded(q.statistics, q.policy, g)
  PROVE  /\ LegalAnswer(q, choice)
         /\ choice.selected = "query_first" =>
              Predicted(CheckpointFeatures(q.statistics, "query_first"), g.base) + g.bound
                < Predicted(CheckpointFeatures(q.statistics, "policy_first"), g.base)
<1>1. PICK legal, s, policy : /\ legal = LegalPlacements(s, policy)
                              /\ s = q.statistics /\ policy = q.policy
  OBVIOUS
<1>2. FeasibleOf(q) = legal /\ legal \subseteq Placements
  BY <1>1, FeasibleOfCheckpoint, PlacementsAreLegal
<1>3. /\ \/ choice.selected = None /\ choice.reason = "raised"
         \/ choice.selected \in legal
      /\ choice.selected = "query_first" =>
           Predicted(CheckpointFeatures(s, "query_first"), g.base) + g.bound
             < Predicted(CheckpointFeatures(s, "policy_first"), g.base)
  BY <1>1, GuardedAnswer
<1>4. None \notin Placements
  BY NoneIsNoName, NamesAreOrdered DEF Placements
<1> QED BY <1>1, <1>2, <1>3, <1>4 DEF LegalAnswer

LEMMA PilotsAnswer ==
  ASSUME NEW q, q.selector = "adaptive", ValidPolicy(q.policy),
         NEW choice,
         choice = ChooseAdaptive(q.statistics, q.policy, q.blocks, q.interval, q.config)
  PROVE  LegalAnswer(q, choice)
<1>1. PICK legal, s, policy : /\ legal = LegalPlacements(s, policy)
                              /\ s = q.statistics /\ policy = q.policy
  OBVIOUS
<1>2. FeasibleOf(q) = legal /\ legal \subseteq Placements
  BY <1>1, FeasibleOfCheckpoint, PlacementsAreLegal
<1>3. \/ choice.selected = None /\ choice.reason = "raised"
      \/ choice.selected \in legal
  BY <1>1, AdaptiveAnswer
<1>4. None \notin Placements
  BY NoneIsNoName, NamesAreOrdered DEF Placements
<1> QED BY <1>2, <1>3, <1>4 DEF LegalAnswer

\* What DecidedIsLegal says of one decision, with the models it was made with.
PriceWith(q, c, m, ck) ==
  IF q.selector = "pipeline" THEN Predicted(WorkOf(q.statistics, c), m)
  ELSE Predicted(CheckpointFeatures(q.statistics, c),
                 IF q.selector = "guarded" THEN ck.guard.base ELSE ck.model)

Untouched(q, choice) ==
  choice.selected # None /\ q.selector = "specs" =>
    ~Violates(CHOOSE x \in q.specs : x.id = choice.selected, q.policy)

Near(q, choice, m, ck) ==
  choice.reason = "ranked" /\ q.selector = "pipeline" =>
    \A c \in FeasibleOf(q) :
      100 * PriceWith(q, choice.selected, m, ck) <= (100 + m.tie) * PriceWith(q, c, m, ck)

Guarded(q, choice, m, ck) ==
  q.selector = "guarded" /\ choice.selected = "query_first" =>
    PriceWith(q, "query_first", m, ck) + ck.guard.bound < PriceWith(q, "policy_first", m, ck)

DecidedWell(q, choice, m, ck) ==
  /\ LegalAnswer(q, choice) /\ Untouched(q, choice)
  /\ Near(q, choice, m, ck) /\ Guarded(q, choice, m, ck)

LEMMA DecidedWellIsLegal ==
  DecidedIsLegal <=>
    (last.what = "decided" =>
       DecidedWell(last.request, last.choice, files.model.content, checkpoint))
<1>1. \A q, c : PriceOf(q, c) = PriceWith(q, c, files.model.content, checkpoint)
  BY Zenon DEF PriceOf, PriceWith, WorkOf
<1> QED BY <1>1, Zenon DEF DecidedIsLegal, DecidedWell, LegalAnswer, Untouched, Near, Guarded

LEMMA DecidedStep == FilesInv /\ DecidedIsLegal /\ [Next]_vars => DecidedIsLegal'
<1> SUFFICES ASSUME FilesInv, DecidedIsLegal, [Next]_vars PROVE DecidedIsLegal'
  OBVIOUS
<1>0. (DecidedIsLegal <=>
         (last.what = "decided" =>
            DecidedWell(last.request, last.choice, files.model.content, checkpoint)))'
  BY DecidedWellIsLegal, PTL
<1>1. CASE UNCHANGED vars
  BY <1>0, <1>1, DecidedWellIsLegal DEF vars
<1>2. CASE last'.what # "decided"
  BY <1>0, <1>2
<1>3. CASE Next /\ last'.what = "decided"
  <2>1. PICK q \in Requests : Decide(q)
    BY <1>3, DecisionStep
  <2>2. PICK choice, m, ck : choice = Answer(q) /\ m = files.model.content /\ ck = checkpoint
    OBVIOUS
  <2>3. /\ last'.request = q /\ last'.choice = choice
        /\ files' = files /\ checkpoint' = checkpoint
        /\ q.selector = "pipeline" => ValidModel(m)
        /\ q.selector # "pipeline" => ValidAnalytic(ck.model) /\ ValidGuard(ck.guard)
    BY <2>1, <2>2, DecidedWith
  <2>4. SUFFICES DecidedWell(q, choice, m, ck)
    BY <1>0, <2>2, <2>3
  <2>5. CASE q.selector = "pipeline"
    <3>1. choice = OptimizePipeline(q.statistics, q.policy, m)
      BY <2>2, <2>5, Zenon DEF Answer
    <3>2. /\ LegalAnswer(q, choice)
          /\ choice.reason = "ranked" => NearLeast(q, choice, m)
      BY <2>1, <2>3, <2>5, <3>1, RequestsAreValid, PipelineIsLegal
    <3>3. \A c : PriceWith(q, c, m, ck) = Predicted(WorkOf(q.statistics, c), m)
      BY <2>5, Zenon DEF PriceWith
    <3>4. Near(q, choice, m, ck)
      BY <3>2, <3>3, Zenon DEF Near, NearLeast
    <3> QED BY <2>5, <3>2, <3>4 DEF DecidedWell, Untouched, Guarded
  <2>6. CASE q.selector = "checkpoint"
    <3>1. choice = RankCheckpoint(q.statistics, q.policy, ck.model, q.strategy)
      BY <2>2, <2>6 DEF Answer
    <3>2. PICK base : base = ck.model
      OBVIOUS
    <3>3. LegalAnswer(q, choice)
      BY <2>1, <2>3, <2>6, <3>1, <3>2, RequestsAreValid, CheckpointsAnswer
    <3> QED BY <2>6, <3>3 DEF DecidedWell, Untouched, Near, Guarded
  <2>7. CASE q.selector = "guarded"
    <3>1. PICK g : g = ck.guard
      OBVIOUS
    <3>2. choice = RankGuarded(q.statistics, q.policy, g)
      BY <2>2, <2>7, <3>1 DEF Answer
    <3>3. /\ LegalAnswer(q, choice)
          /\ choice.selected = "query_first" =>
               Predicted(CheckpointFeatures(q.statistics, "query_first"), g.base) + g.bound
                 < Predicted(CheckpointFeatures(q.statistics, "policy_first"), g.base)
      BY <2>1, <2>3, <2>7, <3>1, <3>2, RequestsAreValid, GuardsAnswer
    <3>4. \A c : PriceWith(q, c, m, ck) = Predicted(CheckpointFeatures(q.statistics, c), g.base)
      <4>1. q.selector # "pipeline"
        BY <2>7
      <4> QED BY <2>7, <3>1, <4>1, Zenon DEF PriceWith
    <3>5. Guarded(q, choice, m, ck)
      BY <3>1, <3>3, <3>4, Zenon DEF Guarded
    <3> QED BY <2>7, <3>3, <3>5 DEF DecidedWell, Untouched, Near
  <2>8. CASE q.selector = "adaptive"
    <3>1. choice = ChooseAdaptive(q.statistics, q.policy, q.blocks, q.interval, q.config)
      BY <2>2, <2>8 DEF Answer
    <3>2. LegalAnswer(q, choice)
      BY <2>1, <2>8, <3>1, RequestsAreValid, PilotsAnswer
    <3> QED BY <2>8, <3>2 DEF DecidedWell, Untouched, Near, Guarded
  <2>9. CASE q.selector = "specs"
    <3>1. choice = RankSpecs(q.specs, q.policy, q.model)
      BY <2>2, <2>9 DEF Answer
    <3>2. \A x \in q.specs : BoundedSpec(x)
      BY <2>1, <2>9, RequestsAreValid DEF BoundedSpec
    <3>3. /\ ValidPolicy(q.policy) /\ ValidAnalytic(q.model) /\ IsFiniteSet(q.specs)
      BY <2>1, <2>9, RequestsAreValid
    <3>4. /\ LegalAnswer(q, choice)
          /\ choice.selected # None =>
               ~Violates(CHOOSE x \in q.specs : x.id = choice.selected, q.policy)
      BY <2>9, <3>1, <3>2, <3>3, SpecsAnswer
    <3> QED BY <2>9, <3>4, Zenon DEF DecidedWell, Untouched, Near, Guarded
  <2> QED BY <2>1, <2>5, <2>6, <2>7, <2>8, <2>9, RequestsAreValid
<1> QED BY <1>1, <1>2, <1>3

(* Governance comes before cost in all five selectors, for every model,    *)
(* policy and candidate set that their constructors accept.                *)
THEOREM AlwaysDecidedLegally == Spec => []DecidedIsLegal
<1>1. Init => DecidedIsLegal
  BY DEF Init, DecidedIsLegal, Nothing
<1> QED BY <1>1, FilesInvariant, DecidedStep, PTL DEF Spec

-----------------------------------------------------------------------------
\* What an evaluation chooses is what the selector answers.

\* What _select_with_frozen_model takes for a group.
FrozenChoice(g, m) == ByModel(Costs(g, m), m)

LEMMA FrozenChoices ==
  ASSUME NEW groups, NEW m
  PROVE  SelectFrozen(groups, m) = [g \in groups |-> FrozenChoice(g, m)]
BY Zenon DEF SelectFrozen, FrozenChoice, ByModel

\* Policy first hides everything behind its checkpoint.
LEMMA MeasuredAreSome ==
  ASSUME NEW s, ValidStatistics(s)
  PROVE  Survivors(s, MeasurementPolicy) # {}
<1>1. PICK p \in PipelineProfiles(s) : p.exposure.checkpoint
  <2>1. PolicyFirst(s).exposure.checkpoint
    BY DEF PolicyFirst, Profile, Exposure
  <2>2. PolicyFirst(s) \in PipelineProfiles(s)
    BY DEF PipelineProfiles
  <2> QED BY <2>1, <2>2
<1>2. Feasible(p.exposure, MeasurementPolicy)
  <2>1. /\ MeasurementPolicy.joined = None /\ MeasurementPolicy.materialized = None
    BY DEF MeasurementPolicy
  <2> QED BY <1>1, <2>1, FeasibleWithinLimits DEF Exceeds
<1>3. p \in LegalProfiles(s, MeasurementPolicy)
  BY <1>2 DEF LegalProfiles, FeasibleCandidates
<1> QED BY <1>3, LegalOfPipeline

LEMMA FrozenRanks ==
  ASSUME NEW g, ValidStatistics(g.statistics), DOMAIN g.latency = LegalOf(g),
         NEW m, ValidModel(m),
         NEW S, S = Survivors(g.statistics, MeasurementPolicy)
  PROVE  /\ LegalOf(g) = S /\ S # {}
         /\ S \subseteq Ids(LegalProfiles(g.statistics, MeasurementPolicy))
         /\ S \subseteq {"fused", "policy_first", "query_first", "join_first"}
         /\ FrozenChoice(g, m) = Ranking(g.statistics, MeasurementPolicy, m)
         /\ FrozenChoice(g, m) \in S
<1>1. PICK s : s = g.statistics
  OBVIOUS
<1>2. S # {} /\ S \subseteq Ids(LegalProfiles(s, MeasurementPolicy))
        /\ S \subseteq Ids(PipelineProfiles(s))
  BY <1>1, MeasuredAreSome, SurvivorsAreLegal
<1>3. LegalOf(g) = S
  BY <1>1, PlannedSets, Zenon DEF LegalOf, PlanPipeline, Survivors, LegalProfiles
<1>4. PICK cost : cost = CostOf(s, S, m)
  OBVIOUS
<1>5. Costs(g, m) = cost
  BY <1>1, <1>3, <1>4 DEF Costs, CostOf, Work, WorkOf
<1>6. FrozenChoice(g, m) = Ranking(s, MeasurementPolicy, m)
  BY <1>1, <1>4, <1>5 DEF FrozenChoice, Ranking
<1>7. ByModel(cost, m) \in S
  <2>1. Prices(cost, DOMAIN cost) /\ DOMAIN cost = S
    BY <1>1, <1>2, <1>4, PipelinePrices
  <2>2. m.tie \in Nat
    BY DEF ValidModel
  <2> QED BY <2>1, <2>2, ByModelIsEquivalent, EquivalentIsNearLeast
<1>8. S \subseteq {"fused", "policy_first", "query_first", "join_first"}
  BY <1>1, <1>2, ProfilesOfPipeline
<1> QED BY <1>1, <1>2, <1>3, <1>5, <1>6, <1>7, <1>8 DEF FrozenChoice

LEMMA FrozenIsDeployed ==
  ASSUME NEW g, ValidStatistics(g.statistics), DOMAIN g.latency = LegalOf(g),
         NEW m, ValidModel(m), InSupport(g.statistics)
  PROVE  FrozenChoice(g, m) = OptimizePipeline(g.statistics, MeasurementPolicy, m).selected
<1>1. PICK s, S : s = g.statistics /\ S = Survivors(s, MeasurementPolicy)
  OBVIOUS
<1>2. PICK c : c = Ranking(s, MeasurementPolicy, m)
  OBVIOUS
<1>3. FrozenChoice(g, m) = c /\ c \in S /\ S \subseteq Ids(LegalProfiles(s, MeasurementPolicy))
  BY <1>1, <1>2, FrozenRanks
<1>4. PICK choice : choice = OptimizePipeline(s, MeasurementPolicy, m)
  OBVIOUS
<1>5. CASE Cardinality(S) # 1
  <2>1. choice.selected = c
    BY <1>1, <1>2, <1>3, <1>4, <1>5, OptimizedPipeline
  <2> QED BY <1>1, <1>3, <1>4, <2>1
<1>6. CASE Cardinality(S) = 1
  <2>1. choice.selected = FirstOf(PipelineOrder, S)
    BY <1>1, <1>2, <1>3, <1>4, <1>6, OptimizedPipeline
  <2>2. FirstOf(PipelineOrder, S) \in S
    BY <1>1, <1>3, FirstSurvivor
  <2>3. IsFiniteSet(S)
    <3>1. PICK four : four = {"fused", "policy_first", "query_first", "join_first"}
      OBVIOUS
    <3>2. IsFiniteSet(four) /\ S \subseteq four
      BY <1>1, <3>1, FrozenRanks, FourAreFinite
    <3> QED BY <3>2, FS_Subset
  <2>4. \A x, y \in S : x = y
    BY <1>6, <2>3, FS_Singleton
  <2> QED BY <1>1, <1>3, <1>4, <2>1, <2>2, <2>4
<1> QED BY <1>5, <1>6

\* What is scored without a selector of its own.
LEMMA FrozenEvaluation ==
  ASSUME FilesInv, NEW run \in Runs, NEW by \in {"holdout", "transfer"}, NEW admitted,
         EvaluateFrozen(by, run, admitted), last' # Raised
  PROVE  \E m, config, passed :
           /\ m = files.model.content /\ ValidModel(m)
           /\ last' = Evaluation(by, files, run, config, SelectFrozen(run.groups, m), passed)
           /\ passed => NotWorse(Scores(run.groups, SelectFrozen(run.groups, m), m.tie),
                                 BestFixed(run.groups, m.tie), config)
<1>1. Bound
  BY Zenon DEF EvaluateFrozen
<1>2. files.model \in Fitted
  BY <1>1, BoundIsRecorded
<1>3. ValidModel(files.model.content)
  BY <1>2, FrozenModelsAssumption DEF Fitted
<1> QED BY <1>3, Zenon DEF EvaluateFrozen

LEMMA CheckpointEvaluations ==
  ASSUME NEW run, EvaluateCheckpointHoldout(run) \/ EvaluateCheckpointTransfer(run),
         last' # Raised
  PROVE  last'.by \in {"checkpoint_holdout", "checkpoint_transfer"}
<1>1. CASE EvaluateCheckpointHoldout(run)
  <2>1. PICK config, choice, passed :
          last' = Evaluation("checkpoint_holdout", checkpoint, run, config, choice, passed)
    BY <1>1, Zenon DEF EvaluateCheckpointHoldout
  <2> QED BY <2>1 DEF Evaluation
<1>2. CASE EvaluateCheckpointTransfer(run)
  <2>1. PICK config, choice, passed :
          last' = Evaluation("checkpoint_transfer", GuardAlone, run, config, choice, passed)
    BY <1>2, Zenon DEF EvaluateCheckpointTransfer, GuardAlone
  <2> QED BY <2>1 DEF Evaluation
<1> QED BY <1>1, <1>2

LEMMA DeployedStep == FilesInv /\ EvaluatedIsDeployed /\ [Next]_vars => EvaluatedIsDeployed'
<1> SUFFICES ASSUME FilesInv, EvaluatedIsDeployed, [Next]_vars PROVE EvaluatedIsDeployed'
  OBVIOUS
<1> USE DEF Scored
<1>1. CASE Quiet
  BY <1>1 DEF Quiet, Nothing, Raised, EvaluatedIsDeployed
<1>2. ASSUME NEW run \in Runs, NEW by \in {"holdout", "transfer"}, NEW admitted,
             EvaluateFrozen(by, run, admitted)
      PROVE  EvaluatedIsDeployed'
  <2> SUFFICES ASSUME last' # Raised PROVE EvaluatedIsDeployed'
    BY <1>1 DEF Quiet
  <2>1. PICK m, config, passed :
          /\ m = files.model.content /\ ValidModel(m)
          /\ last' = Evaluation(by, files, run, config, SelectFrozen(run.groups, m), passed)
    BY <1>2, FrozenEvaluation
  <2>2. /\ last'.run = run /\ last'.choice = [g \in run.groups |-> FrozenChoice(g, m)]
        /\ last'.model.content = m
    BY <2>1, FrozenChoices DEF Evaluation
  <2>3. ASSUME NEW g \in run.groups, InSupport(g.statistics)
        PROVE  last'.choice[g] = OptimizePipeline(g.statistics, MeasurementPolicy, m).selected
    <3>1. ValidStatistics(g.statistics) /\ DOMAIN g.latency = LegalOf(g)
      BY MeasuredAssumption DEF ValidRun
    <3>2. FrozenChoice(g, m) = OptimizePipeline(g.statistics, MeasurementPolicy, m).selected
      BY <2>1, <2>3, <3>1, FrozenIsDeployed
    <3> QED BY <2>2, <3>2
  <2> QED BY <2>2, <2>3, Zenon DEF EvaluatedIsDeployed
<1>3. ASSUME NEW run \in Runs, EvaluateHoldout(run) \/ EvaluateTransfer(run)
      PROVE  EvaluatedIsDeployed'
  <2>1. \/ EvaluateFrozen("transfer", run, TRUE)
        \/ \E admitted : EvaluateFrozen("holdout", run, admitted)
    BY <1>3, Zenon DEF EvaluateHoldout, EvaluateTransfer
  <2> QED BY <1>2, <2>1
<1>4. ASSUME NEW run \in Runs, EvaluateStratified(run) PROVE EvaluatedIsDeployed'
  <2>1. PICK config, choice, passed : last' = Raised \/ last' = Evaluation("stratified", files, run, config, choice, passed)
    BY <1>4, Zenon DEF EvaluateStratified
  <2>2. last' # Raised => last'.by = "stratified"
    BY <2>1 DEF Evaluation
  <2> QED BY <1>1, <2>2 DEF Quiet, EvaluatedIsDeployed
<1>5. ASSUME NEW run \in CheckpointRuns,
             EvaluateCheckpointHoldout(run) \/ EvaluateCheckpointTransfer(run)
      PROVE  EvaluatedIsDeployed'
  <2>1. last' # Raised => last'.by \in {"checkpoint_holdout", "checkpoint_transfer"}
    BY <1>5, CheckpointEvaluations
  <2> QED BY <1>1, <2>1 DEF Quiet, EvaluatedIsDeployed
<1>6. ASSUME NEW q \in Requests, Decide(q) PROVE EvaluatedIsDeployed'
  BY <1>6 DEF Decide, EvaluatedIsDeployed
<1>7. CASE UNCHANGED vars
  BY <1>7 DEF vars, EvaluatedIsDeployed
<1> QED BY <1>1, <1>3, <1>4, <1>5, <1>6, <1>7, QuietSteps

(* For every model, run and statistics inside the support: what an         *)
(* evaluation credits is what optimize_governed_pipeline answers.          *)
THEOREM AlwaysDeployed == Spec => []EvaluatedIsDeployed
<1>1. Init => EvaluatedIsDeployed
  BY DEF Init, EvaluatedIsDeployed, Scored, Nothing
<1> QED BY <1>1, FilesInvariant, DeployedStep, PTL DEF Spec

-----------------------------------------------------------------------------
\* Scores: sums of regrets, and the fixed candidate that is best.

Timed(groups) ==
  /\ IsFiniteSet(groups) /\ groups # {} /\ Common(groups)
  /\ \A g \in groups : /\ DOMAIN g.latency \subseteq Names /\ DOMAIN g.latency # {}
                       /\ \A c \in DOMAIN g.latency : g.latency[c] \in Nat \ {0}

ChoosesMeasured(groups, choice) == \A g \in groups : choice[g] \in DOMAIN g.latency

Regrets(groups, choice) == [g \in groups |-> Regret(g.latency, choice[g])]

LEMMA QuotientIsNat == \A a \in Nat, b \in Nat \ {0} : a \div b \in Nat
OBVIOUS

LEMMA RegretIsNat ==
  ASSUME NEW latency, NEW c \in DOMAIN latency,
         \A d \in DOMAIN latency : latency[d] \in Nat \ {0}
  PROVE  Regret(latency, c) \in Nat
<1> DEFINE V == {latency[d] : d \in DOMAIN latency}
<1>1. V \in SUBSET Nat /\ V # {} /\ \A v \in V : v # 0
  OBVIOUS
<1>2. PICK l : l = Least(latency)
  OBVIOUS
<1>3. l \in V /\ l <= latency[c]
  <2>1. l = Lowest(V)
    BY <1>2 DEF Least
  <2>2. latency[c] \in V
    OBVIOUS
  <2> HIDE DEF V
  <2> QED BY <1>1, <2>1, <2>2, LowestIsLeast
<1>4. l \in Nat \ {0} /\ latency[c] \in Nat
  BY <1>1, <1>3
<1>5. PICK a : a = 1000 * (latency[c] - l)
  OBVIOUS
<1>6. a \in Nat
  BY <1>3, <1>4, <1>5, SMT
<1>7. a \div l \in Nat
  BY <1>4, <1>6, QuotientIsNat
<1> QED BY <1>2, <1>5, <1>7 DEF Regret

LEMMA RegretsAreNat ==
  ASSUME NEW groups, NEW choice, Timed(groups), ChoosesMeasured(groups, choice)
  PROVE  /\ Regrets(groups, choice) \in [groups -> Int]
         /\ \A g \in groups : Regrets(groups, choice)[g] \in Nat
<1>1. ASSUME NEW g \in groups PROVE Regret(g.latency, choice[g]) \in Nat
  <2>1. PICK latency, c : latency = g.latency /\ c = choice[g]
    OBVIOUS
  <2>2. c \in DOMAIN latency /\ \A d \in DOMAIN latency : latency[d] \in Nat \ {0}
    BY <2>1 DEF Timed, ChoosesMeasured
  <2> QED BY <2>1, <2>2, RegretIsNat
<1> QED BY <1>1 DEF Regrets

LEMMA TotalIsSum ==
  ASSUME NEW groups, IsFiniteSet(groups), NEW choice,
         Regrets(groups, choice) \in [groups -> Int]
  PROVE  \E h : Unfolds(h, Regrets(groups, choice), groups) /\ Total(groups, choice) = h[groups]
<1> DEFINE value(g) == Regret(g.latency, choice[g])
           D(k) == [s \in SUBSET groups |->
                      IF s = {} THEN 0
                      ELSE value(CHOOSE x \in s : TRUE) + k[s \ {CHOOSE x \in s : TRUE}]]
           iter == CHOOSE k : k = D(k)
<1>1. PICK h \in [SUBSET groups -> Int] : Unfolds(h, Regrets(groups, choice), groups)
  BY UnfoldsExists
<1>2. \A k : D(k) = [s \in SUBSET groups |->
                       IF s = {} THEN 0
                       ELSE Regrets(groups, choice)[Pick(s)] + k[s \ {Pick(s)}]]
  <2>1. \A g \in groups : value(g) = Regrets(groups, choice)[g]
    BY DEF Regrets
  <2>2. \A s \in SUBSET groups : s # {} => Pick(s) \in groups
    BY PickIn
  <2> HIDE DEF value
  <2> QED BY <2>1, <2>2 DEF Pick
<1>3. Total(groups, choice) = iter[groups]
  BY DEF Total, MapThenSumSet, MapThenFoldSet
<1>4. Unfolds(iter, Regrets(groups, choice), groups)
  <2>1. h = D(h)
    BY <1>1, <1>2 DEF Unfolds
  <2>2. iter = D(iter)
    <3> HIDE DEF D
    <3> QED BY <2>1
  <2> HIDE DEF D, iter
  <2> QED BY <1>2, <2>2 DEF Unfolds
<1> HIDE DEF iter
<1> QED BY <1>3, <1>4

P95Of(groups, f) ==
  Lowest({v \in {f[g] : g \in groups} :
            20 * Cardinality({g \in groups : f[g] <= v}) >= 19 * Cardinality(groups)})

LEMMA P95IsNat ==
  ASSUME NEW groups, IsFiniteSet(groups), groups # {}, NEW f, \A g \in groups : f[g] \in Nat
  PROVE  P95Of(groups, f) \in Nat
<1> DEFINE V == {v \in {f[g] : g \in groups} :
                   20 * Cardinality({g \in groups : f[g] <= v}) >= 19 * Cardinality(groups)}
<1>1. PICK g1 \in groups : \A g \in groups : f[g] <= f[g1]
  BY LargestValue
<1>2. {g \in groups : f[g] <= f[g1]} = groups
  BY <1>1
<1>3. PICK n \in Nat : n = Cardinality(groups)
  BY FS_CardinalityType
<1>4. 20 * n >= 19 * n
  BY <1>3
<1>5. f[g1] \in V
  BY <1>1, <1>2, <1>3, <1>4
<1>6. V \in SUBSET Nat /\ V # {}
  BY <1>5
<1>7. P95Of(groups, f) = Lowest(V)
  BY DEF P95Of
<1> HIDE DEF V
<1> QED BY <1>6, <1>7, LowestIsLeast

LEMMA ScoresAreSums ==
  ASSUME NEW groups, NEW choice, NEW tie, Timed(groups), ChoosesMeasured(groups, choice)
  PROVE  /\ Scores(groups, choice, tie).total = Total(groups, choice)
         /\ Total(groups, choice) \in Nat
         /\ Scores(groups, choice, tie).p95 \in Nat
<1>1. PICK f : f = Regrets(groups, choice)
  OBVIOUS
<1>2. f \in [groups -> Int] /\ \A g \in groups : f[g] \in Nat
  BY <1>1, RegretsAreNat
<1>3. IsFiniteSet(groups) /\ groups # {}
  BY DEF Timed
<1>4. Scores(groups, choice, tie).total = Total(groups, choice)
  BY DEF Scores, Total
<1>5. Total(groups, choice) \in Nat
  <2>1. PICK h : Unfolds(h, f, groups) /\ Total(groups, choice) = h[groups]
    BY <1>1, <1>2, <1>3, TotalIsSum
  <2> QED BY <1>2, <1>3, <2>1, SumIsNat
<1>6. Scores(groups, choice, tie).p95 = P95Of(groups, f)
  <2>1. \A g \in groups : f[g] = Regret(g.latency, choice[g])
    BY <1>1 DEF Regrets
  <2> QED BY <2>1 DEF Scores, P95, P95Of
<1>7. P95Of(groups, f) \in Nat
  BY <1>2, <1>3, P95IsNat
<1> QED BY <1>4, <1>5, <1>6, <1>7

\* Of the fixed candidates one is first by mean, 95th percentile and name.
FixedFirst(f, c, d) ==
  \/ f[c].total < f[d].total
  \/ f[c].total = f[d].total /\ f[c].p95 < f[d].p95
  \/ /\ f[c].total = f[d].total /\ f[c].p95 = f[d].p95
     /\ Alphabetical[c] <= Alphabetical[d]

LEMMA FirstOfFixed ==
  ASSUME NEW D \in SUBSET Names, D # {}, NEW f,
         \A c \in D : f[c].total \in Nat /\ f[c].p95 \in Nat
  PROVE  \E c \in D : \A d \in D : FixedFirst(f, c, d)
<1> DEFINE totals == {f[c].total : c \in D}
<1>1. PICK t \in totals : \A u \in totals : t <= u
  <2>1. totals \in SUBSET Nat /\ totals # {}
    OBVIOUS
  <2> HIDE DEF totals
  <2> QED BY <2>1, LeastNat
<1>2. PICK A : A = {c \in D : f[c].total = t}
  OBVIOUS
<1>3. A # {} /\ A \subseteq D /\ \A d \in D \ A : t < f[d].total
  <2>1. \A d \in D : t <= f[d].total
    BY <1>1
  <2> QED BY <1>1, <1>2, <2>1
<1> HIDE DEF totals
<1> DEFINE tails == {f[c].p95 : c \in A}
<1>4. PICK p \in tails : \A u \in tails : p <= u
  <2>1. tails \in SUBSET Nat /\ tails # {}
    BY <1>3
  <2> HIDE DEF tails
  <2> QED BY <2>1, LeastNat
<1>5. PICK B : B = {c \in A : f[c].p95 = p}
  OBVIOUS
<1>6. B # {} /\ B \subseteq A /\ \A d \in A \ B : p < f[d].p95
  <2>1. \A d \in A : p <= f[d].p95
    BY <1>4
  <2> QED BY <1>3, <1>4, <1>5, <2>1
<1> HIDE DEF tails
<1> DEFINE names == {Alphabetical[c] : c \in B}
<1>7. PICK n \in names : \A u \in names : n <= u
  <2>1. B \in SUBSET Names /\ B # {}
    BY <1>3, <1>6
  <2>2. \A c \in Names : Alphabetical[c] \in Nat
    BY NamesAreOrdered
  <2>3. names \in SUBSET Nat /\ names # {}
    BY <2>1, <2>2
  <2> HIDE DEF names
  <2> QED BY <2>3, LeastNat
<1>8. PICK c \in B : Alphabetical[c] = n
  BY <1>7
<1>9. ASSUME NEW d \in D PROVE FixedFirst(f, c, d)
  <2>1. f[c].total = t /\ f[c].p95 = p
    BY <1>2, <1>5, <1>6
  <2>2. CASE d \notin A
    BY <1>3, <2>1, <2>2 DEF FixedFirst
  <2>3. CASE d \in A /\ d \notin B
    BY <1>2, <1>6, <2>1, <2>3 DEF FixedFirst
  <2>4. CASE d \in B
    <3>1. Alphabetical[c] <= Alphabetical[d]
      BY <1>7, <1>8, <2>4
    <3>2. f[d].total = t /\ f[d].p95 = p
      BY <1>2, <1>5, <1>6, <2>4
    <3> QED BY <2>1, <3>1, <3>2 DEF FixedFirst
  <2> QED BY <2>2, <2>3, <2>4
<1> QED BY <1>3, <1>6, <1>9

\* The baseline is no worse on the mean than any fixed candidate.
LEMMA BestFixedIsLeast ==
  ASSUME NEW groups, Timed(groups), NEW tie, NEW g1 \in groups, NEW c \in DOMAIN g1.latency
  PROVE  /\ BestFixed(groups, tie).total \in Nat /\ Total(groups, Always(groups, c)) \in Nat
         /\ BestFixed(groups, tie).total <= Total(groups, Always(groups, c))
<1>1. PICK D : D = DOMAIN (CHOOSE g \in groups : TRUE).latency
  OBVIOUS
<1>2. \A g \in groups : DOMAIN g.latency = D
  BY <1>1 DEF Timed, Common
<1>3. D \in SUBSET Names /\ D # {} /\ c \in D
  BY <1>2 DEF Timed
<1>4. PICK fixed : fixed = [d \in D |-> FixedScores(groups, d, tie)]
  OBVIOUS
<1>5. ASSUME NEW d \in D
      PROVE  /\ fixed[d].total = Total(groups, Always(groups, d))
             /\ fixed[d].total \in Nat /\ fixed[d].p95 \in Nat
  <2>1. ChoosesMeasured(groups, Always(groups, d))
    BY <1>2 DEF ChoosesMeasured, Always
  <2>2. fixed[d] = Scores(groups, Always(groups, d), tie)
    BY <1>4 DEF FixedScores, Always
  <2> QED BY <2>1, <2>2, ScoresAreSums
<1>6. PICK b : b = CHOOSE x \in D : \A d \in D : FixedFirst(fixed, x, d)
  OBVIOUS
<1>7. b \in D /\ \A d \in D : FixedFirst(fixed, b, d)
  <2>1. \E x \in D : \A d \in D : FixedFirst(fixed, x, d)
    BY <1>3, <1>5, FirstOfFixed
  <2> QED BY <1>6, <2>1, Zenon
<1>8. BestFixed(groups, tie) = fixed[b]
  <2> DEFINE F == [d \in DOMAIN (CHOOSE g \in groups : TRUE).latency |-> FixedScores(groups, d, tie)]
  <2>1. BestFixed(groups, tie) = F[CHOOSE x \in DOMAIN F : \A d \in DOMAIN F : FixedFirst(F, x, d)]
    BY Zenon DEF BestFixed, FixedFirst
  <2>2. F = fixed
    BY <1>1, <1>4
  <2>3. DOMAIN fixed = D
    BY <1>4
  <2> HIDE DEF F
  <2> QED BY <1>6, <2>1, <2>2, <2>3
<1>9. fixed[b].total <= fixed[c].total
  <2>1. FixedFirst(fixed, b, c) /\ fixed[b].total \in Nat /\ fixed[c].total \in Nat
    BY <1>3, <1>5, <1>7
  <2> QED BY <2>1 DEF FixedFirst
<1> QED BY <1>3, <1>5, <1>7, <1>8, <1>9

-----------------------------------------------------------------------------
\* A passed evaluation beats every fixed choice.

LEMMA PassBeatsNext ==
  PassBeatsEveryFixed' <=>
    (last'.what = "evaluated" /\ last'.passed =>
       BeatsFixed(last'.by, last'.run, last'.config, last'.choice))
BY Zenon DEF PassBeatsEveryFixed

\* Against the best of them on the mean is against all of them.
LEMMA BestIsEvery ==
  ASSUME NEW config, NEW groups, Timed(groups), NEW choice, ChoosesMeasured(groups, choice),
         DOMAIN choice = groups, NEW tie, NEW by \in PipelineScorings, NEW run,
         "mean" \in config.requires =>
           /\ Scores(groups, choice, tie).total <= BestFixed(groups, tie).total
           /\ by = "stratified" =>
                Scores(groups, choice, tie).total < BestFixed(groups, tie).total
  PROVE  BeatsFixed(by, run, config, choice)
<1>1. Scores(groups, choice, tie).total = Total(groups, choice) /\ Total(groups, choice) \in Nat
  BY ScoresAreSums
<1>2. ASSUME "mean" \in config.requires, NEW g \in groups, NEW c \in DOMAIN g.latency
      PROVE  /\ Total(groups, choice) <= Total(groups, Always(groups, c))
             /\ by = "stratified" => Total(groups, choice) < Total(groups, Always(groups, c))
  <2>1. /\ BestFixed(groups, tie).total \in Nat /\ Total(groups, Always(groups, c)) \in Nat
        /\ BestFixed(groups, tie).total <= Total(groups, Always(groups, c))
    BY BestFixedIsLeast
  <2> QED BY <1>1, <1>2, <2>1
<1>3. "mean" \in config.requires =>
        \A c \in UNION {DOMAIN g.latency : g \in DOMAIN choice} :
          /\ Total(DOMAIN choice, choice) <= Total(DOMAIN choice, Always(DOMAIN choice, c))
          /\ by = "stratified" =>
               Total(DOMAIN choice, choice) < Total(DOMAIN choice, Always(DOMAIN choice, c))
  BY <1>2
<1>4. by \notin {"checkpoint_holdout", "checkpoint_transfer"}
  BY DEF PipelineScorings
<1> QED BY <1>3, <1>4 DEF BeatsFixed

\* Over no groups there is no candidate to beat.
LEMMA NothingToBeat ==
  ASSUME NEW by \in PipelineScorings, NEW run, NEW config, NEW choice, DOMAIN choice = {}
  PROVE  BeatsFixed(by, run, config, choice)
<1>1. UNION {DOMAIN g.latency : g \in DOMAIN choice} = {}
  OBVIOUS
<1>2. by \notin {"checkpoint_holdout", "checkpoint_transfer"}
  BY DEF PipelineScorings
<1> QED BY <1>1, <1>2 DEF BeatsFixed

\* The independent holdout and the transfer to real data.
LEMMA FrozenBeats ==
  ASSUME FilesInv, NEW run \in Runs, NEW by \in {"holdout", "transfer"}, NEW admitted,
         EvaluateFrozen(by, run, admitted), last' # Raised, last'.passed
  PROVE  BeatsFixed(last'.by, last'.run, last'.config, last'.choice)
<1>1. PICK m, config, passed :
        /\ m = files.model.content /\ ValidModel(m)
        /\ last' = Evaluation(by, files, run, config, SelectFrozen(run.groups, m), passed)
        /\ passed => NotWorse(Scores(run.groups, SelectFrozen(run.groups, m), m.tie),
                              BestFixed(run.groups, m.tie), config)
  BY FrozenEvaluation
<1>2. PICK groups, choice : groups = run.groups /\ choice = SelectFrozen(run.groups, m)
  OBVIOUS
<1>3. choice = [g \in groups |-> FrozenChoice(g, m)]
  BY <1>2, FrozenChoices
<1>4. /\ last'.by = by /\ last'.run = run /\ last'.choice = choice /\ last'.passed = passed
      /\ last'.config = config
  BY <1>1, <1>2 DEF Evaluation
<1>5. "mean" \in config.requires =>
        Scores(groups, choice, m.tie).total <= BestFixed(groups, m.tie).total
  BY <1>1, <1>2, <1>4 DEF NotWorse
<1>6. by \in PipelineScorings /\ by # "stratified"
  BY DEF PipelineScorings
<1>7. CASE groups = {}
  BY <1>3, <1>4, <1>6, <1>7, NothingToBeat
<1>8. CASE groups # {}
  <2>1. ValidRun(run)
    BY MeasuredAssumption
  <2>2. ASSUME NEW g \in groups
        PROVE  /\ DOMAIN g.latency \subseteq Names /\ DOMAIN g.latency # {}
               /\ choice[g] \in DOMAIN g.latency
    <3>1. PICK S : S = Survivors(g.statistics, MeasurementPolicy)
      OBVIOUS
    <3>2. ValidStatistics(g.statistics) /\ DOMAIN g.latency = LegalOf(g)
      BY <1>2, <2>1 DEF ValidRun
    <3>3. /\ LegalOf(g) = S /\ S # {} /\ FrozenChoice(g, m) \in S
          /\ S \subseteq {"fused", "policy_first", "query_first", "join_first"}
      BY <1>1, <3>1, <3>2, FrozenRanks
    <3> QED BY <1>3, <3>2, <3>3, NamesAreOrdered
  <2>3. Timed(groups)
    BY <1>2, <1>8, <2>1, <2>2 DEF Timed, ValidRun
  <2>4. ChoosesMeasured(groups, choice)
    BY <2>2 DEF ChoosesMeasured
  <2> QED BY <1>3, <1>4, <1>5, <1>6, <2>3, <2>4, BestIsEvery
<1> QED BY <1>7, <1>8

-----------------------------------------------------------------------------
\* The stratified holdout scores the candidates the primary regime permits.

\* What is selected is one of what the answer calls legal.
LEMMA SelectedSurvives ==
  ASSUME NEW s, ValidStatistics(s), NEW policy, NEW m, ValidModel(m),
         NEW choice, choice = OptimizePipeline(s, policy, m), choice.selected # None
  PROVE  choice.selected \in choice.legal
<1>1. PICK S : S = Survivors(s, policy)
  OBVIOUS
<1>2. choice.legal = S
  BY <1>1, PipelineAnswer
<1>3. CASE choice.selected = Ranking(s, policy, m) /\ S # {}
  <2>1. S \in SUBSET Ids(PipelineProfiles(s))
    BY <1>1, SurvivorsAreLegal
  <2>2. PICK cost : cost = CostOf(s, S, m)
    OBVIOUS
  <2>3. Prices(cost, DOMAIN cost) /\ DOMAIN cost = S
    BY <1>3, <2>1, <2>2, PipelinePrices
  <2>4. m.tie \in Nat
    BY DEF ValidModel
  <2>5. ByModel(cost, m) \in S
    BY <1>3, <2>3, <2>4, ByModelIsEquivalent, EquivalentIsNearLeast
  <2> QED BY <1>1, <1>2, <1>3, <2>2, <2>5 DEF Ranking
<1> QED BY <1>1, <1>2, <1>3, PipelineAnswer

LEMMA LegallyIs ==
  ASSUME NEW g, DOMAIN g = {"scenario", "seed", "statistics", "latency"}, NEW regime, NEW m
  PROVE  /\ Legally(g, regime, m).statistics = g.statistics
         /\ Legally(g, regime, m).latency =
              [c \in DOMAIN g.latency \cap Decided(g, regime, m).legal |-> g.latency[c]]
         /\ Decided(Legally(g, regime, m), regime, m) = Decided(g, regime, m)
<1>1. PICK legal : legal = Decided(g, regime, m).legal
  OBVIOUS
<1>2. PICK latency : latency = [c \in DOMAIN g.latency \cap legal |-> g.latency[c]]
  OBVIOUS
<1>3. Legally(g, regime, m) = [g EXCEPT !.latency = latency]
  BY <1>1, <1>2 DEF Legally
<1>4. Legally(g, regime, m).statistics = g.statistics /\ Legally(g, regime, m).latency = latency
  BY <1>3
<1> QED BY <1>1, <1>2, <1>4 DEF Decided

\* What is scored in a regime, and what is chosen there.
Scoring(groups, regime, m) == {Legally(g, regime, m) : g \in groups}

ChoiceIn(groups, regime, m) == [g \in groups |-> Decided(g, regime, m).selected]

LEMMA ImageIsFinite ==
  ASSUME NEW f, NEW S, IsFiniteSet(S), S = DOMAIN f, f = [x \in S |-> f[x]]
  PROVE  IsFiniteSet({f[x] : x \in S})
<1>1. PICK T : T = {f[x] : x \in S}
  OBVIOUS
<1>2. f \in Surjection(S, T)
  BY <1>1 DEF Surjection
<1> QED BY <1>1, <1>2, FS_Surjection

LEMMA StratifiedIsTimed ==
  ASSUME NEW run \in Runs, run.groups # {}, NEW m, ValidModel(m), AsExpected(run, m),
         NEW regime \in Regimes,
         NEW groups, groups = Scoring(run.groups, regime, m)
  PROVE  Timed(groups) /\ ChoosesMeasured(groups, ChoiceIn(groups, regime, m))
<1>1. ValidRun(run)
  BY MeasuredAssumption
<1>2. ASSUME NEW g \in run.groups, NEW h, h = Legally(g, regime, m)
      PROVE  /\ DOMAIN h.latency \subseteq DOMAIN g.latency
             /\ \A c \in DOMAIN h.latency : h.latency[c] \in Nat \ {0}
             /\ DOMAIN h.latency \subseteq Names
             /\ Decided(h, regime, m).selected \in DOMAIN h.latency
  <2>1. PICK s, S, choice : /\ s = g.statistics /\ S = Survivors(s, MeasurementPolicy)
                            /\ choice = Decided(g, regime, m)
    OBVIOUS
  <2>2. /\ DOMAIN g = {"scenario", "seed", "statistics", "latency"}
        /\ ValidStatistics(s) /\ DOMAIN g.latency = LegalOf(g)
        /\ \A c \in DOMAIN g.latency : g.latency[c] \in Nat \ {0}
    BY <1>1, <2>1 DEF ValidRun
  <2>3. /\ h.latency = [c \in DOMAIN g.latency \cap choice.legal |-> g.latency[c]]
        /\ Decided(h, regime, m) = choice
    BY <1>2, <2>1, <2>2, LegallyIs
  <2>4. DOMAIN g.latency \subseteq Names
    <3>1. LegalOf(g) \subseteq {"fused", "policy_first", "query_first", "join_first"}
      BY <2>1, <2>2, FrozenRanks
    <3> QED BY <2>2, <3>1, NamesAreOrdered
  <2>5. choice.selected \in DOMAIN g.latency
    BY <2>1 DEF AsExpected
  <2>6. choice.selected \in choice.legal
    <3>1. choice.selected # None
      BY <2>4, <2>5, NoneIsNoName
    <3>2. choice = OptimizePipeline(s, regime.policy, m)
      BY <2>1 DEF Decided
    <3> QED BY <2>2, <3>1, <3>2, SelectedSurvives
  <2> QED BY <2>2, <2>3, <2>4, <2>5, <2>6
<1>3. IsFiniteSet(groups) /\ groups # {}
  <2>1. IsFiniteSet(run.groups)
    BY <1>1 DEF ValidRun
  <2>2. PICK f : f = [g \in run.groups |-> Legally(g, regime, m)]
    OBVIOUS
  <2>3. DOMAIN f = run.groups /\ groups = {f[g] : g \in run.groups}
        /\ f = [g \in run.groups |-> f[g]]
    BY <2>2 DEF Scoring
  <2>4. IsFiniteSet(groups)
    BY <2>1, <2>3, ImageIsFinite
  <2> QED BY <2>3, <2>4
<1>4. Common(groups)
  <2>1. PICK g \in run.groups : TRUE
    OBVIOUS
  <2> QED BY <2>1 DEF AsExpected, Scoring
<1>5. ASSUME NEW h \in groups
      PROVE  /\ DOMAIN h.latency \subseteq Names /\ Decided(h, regime, m).selected \in DOMAIN h.latency
             /\ \A c \in DOMAIN h.latency : h.latency[c] \in Nat \ {0}
  <2>1. PICK g \in run.groups : h = Legally(g, regime, m)
    BY DEF Scoring
  <2> QED BY <1>2, <2>1
<1>6. Timed(groups)
  BY <1>3, <1>4, <1>5 DEF Timed
<1> QED BY <1>5, <1>6 DEF ChoosesMeasured, ChoiceIn

LEMMA PrimaryIsRegime == RegimeOf(Primary) \in Regimes
BY FrozenModelsAssumption DEF RegimeOf

LEMMA StratifiedBeats ==
  ASSUME FilesInv, NEW run \in Runs, EvaluateStratified(run), last' # Raised, last'.passed
  PROVE  BeatsFixed(last'.by, last'.run, last'.config, last'.choice)
<1>1. Bound /\ AsExpected(run, files.model.content)
  BY Zenon DEF EvaluateStratified
<1>2. PICK m, regime : m = files.model.content /\ regime = RegimeOf(Primary)
  OBVIOUS
<1>3. ValidModel(m) /\ AsExpected(run, m) /\ regime \in Regimes
  BY <1>1, <1>2, BoundIsRecorded, PrimaryIsRegime, FrozenModelsAssumption DEF Fitted
<1>4. PICK groups, choice : /\ groups = Scoring(run.groups, regime, m)
                            /\ choice = ChoiceIn(groups, regime, m)
  OBVIOUS
<1>5. PICK config, passed :
        /\ last' = Evaluation("stratified", files, run, config, choice, passed)
        /\ passed => Better95(Scores(groups, choice, m.tie), BestFixed(groups, m.tie), config)
  BY <1>2, <1>4, Zenon DEF EvaluateStratified, Scoring, ChoiceIn
<1>6. /\ last'.by = "stratified" /\ last'.run = run /\ last'.choice = choice
      /\ last'.passed = passed /\ last'.config = config
  BY <1>5 DEF Evaluation
<1>7. "mean" \in config.requires =>
        Scores(groups, choice, m.tie).total < BestFixed(groups, m.tie).total
  BY <1>5, <1>6 DEF Better95
<1>8. DOMAIN choice = groups /\ "stratified" \in PipelineScorings
  BY <1>4 DEF ChoiceIn, PipelineScorings
<1>9. CASE groups = {}
  BY <1>6, <1>8, <1>9, NothingToBeat
<1>10. CASE groups # {}
  <2>1. run.groups # {}
    BY <1>4, <1>10 DEF Scoring
  <2>2. Timed(groups) /\ ChoosesMeasured(groups, choice)
    BY <1>3, <1>4, <2>1, StratifiedIsTimed
  <2>3. "mean" \in config.requires =>
          Scores(groups, choice, m.tie).total <= BestFixed(groups, m.tie).total
    <3>1. Scores(groups, choice, m.tie).total \in Nat
      BY <2>2, ScoresAreSums
    <3>2. PICK g \in groups : TRUE
      BY <1>10
    <3>3. PICK c \in DOMAIN g.latency : TRUE
      BY <2>2 DEF Timed
    <3>4. BestFixed(groups, m.tie).total \in Nat
      BY <2>2, <3>2, <3>3, BestFixedIsLeast
    <3> QED BY <1>7, <3>1, <3>4
  <2> QED BY <1>6, <1>7, <1>8, <2>2, <2>3, BestIsEvery
<1> QED BY <1>9, <1>10

-----------------------------------------------------------------------------
\* The checkpoint evaluations count families.

\* The families of which the picked seed is right.
PickedHits(run, choice, pick) ==
  {s \in Decisive(run) : choice[pick[s]] \in OracleOf(run, s)}

LEMMA MoreThan ==
  ASSUME NEW h \in Nat, NEW f \in Nat, NEW i \in Nat \ {0}, NEW d \in Nat \ {0},
         100 * (h - f) >= i * d
  PROVE  f < h
<1>1. \A a, b \in Nat \ {0} : a * b >= 1
  OBVIOUS
<1>2. i * d >= 1
  BY <1>1
<1>3. PICK p \in Int : p = i * d
  OBVIOUS
<1> QED BY <1>2, <1>3

LEMMA ScenariosAreFinite ==
  ASSUME NEW groups, IsFiniteSet(groups)
  PROVE  IsFiniteSet(Scenarios(groups))
<1>1. PICK f : f = [g \in groups |-> g.scenario]
  OBVIOUS
<1>2. DOMAIN f = groups /\ Scenarios(groups) = {f[g] : g \in groups} /\ f = [g \in groups |-> f[g]]
  BY <1>1 DEF Scenarios
<1> QED BY <1>2, ImageIsFinite

LEMMA DecisiveIsFinite ==
  ASSUME NEW run, IsFiniteSet(run.groups)
  PROVE  IsFiniteSet(Decisive(run)) /\ Decisive(run) \subseteq Scenarios(run.groups)
<1>1. IsFiniteSet(Scenarios(run.groups))
  BY ScenariosAreFinite
<1>2. Decisive(run) \subseteq Scenarios(run.groups)
  BY DEF Decisive, Singletons
<1> QED BY <1>1, <1>2, FS_Subset

\* The picked seed is one of its family.
LEMMA PickedIsSome ==
  ASSUME NEW run, NEW choice, NEW pick \in [Decisive(run) -> run.groups],
         \A s \in Decisive(run) : pick[s].scenario = s
  PROVE  PickedHits(run, choice, pick) \subseteq SomeHits(run, choice)
<1>1. \A s \in Decisive(run) : pick[s] \in Family(run, s)
  BY DEF Family
<1> QED BY <1>1 DEF PickedHits, SomeHits

\* Where a family has one selection, a seed that is right is every seed.
LEMMA PickedIsSure ==
  ASSUME NEW run, IsFiniteSet(run.groups), NEW choice,
         choice = [g \in run.groups |-> choice[g]],
         \A s \in Scenarios(run.groups) : Cardinality({choice[g] : g \in Family(run, s)}) = 1,
         NEW pick \in [Decisive(run) -> run.groups], \A s \in Decisive(run) : pick[s].scenario = s
  PROVE  PickedHits(run, choice, pick) \subseteq SureHits(run, choice)
<1> SUFFICES ASSUME NEW s \in PickedHits(run, choice, pick) PROVE s \in SureHits(run, choice)
  OBVIOUS
<1>1. s \in Decisive(run) /\ choice[pick[s]] \in OracleOf(run, s)
  BY DEF PickedHits
<1>2. s \in Scenarios(run.groups)
  BY <1>1, DecisiveIsFinite
<1>3. PICK F, T : F = Family(run, s) /\ T = {choice[g] : g \in F}
  OBVIOUS
<1>4. pick[s] \in F /\ F \subseteq run.groups
  BY <1>1, <1>3 DEF Family
<1>5. IsFiniteSet(T)
  <2>1. PICK f : f = [g \in F |-> choice[g]]
    OBVIOUS
  <2>2. DOMAIN f = F /\ T = {f[g] : g \in F} /\ f = [g \in F |-> f[g]]
    BY <1>3, <2>1
  <2>3. IsFiniteSet(F)
    BY <1>4, FS_Subset
  <2> QED BY <2>2, <2>3, ImageIsFinite
<1>6. Cardinality(T) = 1
  BY <1>2, <1>3
<1>7. PICK x : T = {x}
  BY <1>5, <1>6, FS_Singleton
<1>8. \A g \in F : choice[g] = choice[pick[s]]
  <2>1. \A g \in F : choice[g] \in T
    BY <1>3
  <2> QED BY <1>4, <1>7, <2>1
<1> QED BY <1>1, <1>3, <1>8 DEF SureHits

\* More picked hits than any fixed choice has, if an improvement is asked.
LEMMA PickedBeats ==
  ASSUME NEW run, IsFiniteSet(run.groups), NEW improvement \in Nat, improvement > 0,
         NEW hits \in Nat, NEW c \in Placements,
         AtLeast(hits - Cardinality(Singletons(run, c)), improvement, Cardinality(Decisive(run)))
  PROVE  Cardinality(Singletons(run, c)) \in Nat /\ Cardinality(Singletons(run, c)) < hits
<1>1. Singletons(run, c) \subseteq Decisive(run)
  BY DEF Decisive
<1>2. IsFiniteSet(Decisive(run))
  BY DecisiveIsFinite
<1>3. PICK fixed, all \in Nat : fixed = Cardinality(Singletons(run, c)) /\ all = Cardinality(Decisive(run))
  BY <1>1, <1>2, FS_Subset, FS_CardinalityType
<1>4. all # 0 /\ 100 * (hits - fixed) >= improvement * all
  BY <1>3 DEF AtLeast
<1>5. fixed < hits
  <2>1. improvement \in Nat \ {0} /\ all \in Nat \ {0}
    BY <1>4
  <2> QED BY <1>3, <1>4, <2>1, MoreThan
<1> QED BY <1>3, <1>5

LEMMA TransferBeats ==
  ASSUME NEW run \in CheckpointRuns, EvaluateCheckpointTransfer(run), last' # Raised, last'.passed
  PROVE  BeatsFixed(last'.by, last'.run, last'.config, last'.choice)
<1>1. PICK config, choice, pick, passed :
        /\ config \in Configurations
        /\ choice = [g \in run.groups |->
                       Ranked("checkpoint_transfer", g, Permissive).selected]
        /\ pick \in [Decisive(run) -> run.groups]
        /\ \A s \in Decisive(run) : pick[s].scenario = s
        /\ last' = Evaluation("checkpoint_transfer", GuardAlone, run, config, choice, passed)
        /\ passed => /\ CheckpointGates(run, config, choice, "checkpoint_transfer")
                     /\ \A c \in Placements :
                          AtLeast(Cardinality(PickedHits(run, choice, pick))
                                    - Cardinality(Singletons(run, c)),
                                  config.improvement, Cardinality(Decisive(run)))
  <2> DEFINE choice == [g \in run.groups |->
                          Ranked("checkpoint_transfer", g, Permissive).selected]
  <2>1. PICK config \in Configurations, pick \in [Decisive(run) -> run.groups] :
          /\ \A s \in Decisive(run) : pick[s].scenario = s
          /\ last' = Evaluation("checkpoint_transfer", GuardAlone, run, config, choice,
                /\ CheckpointGates(run, config, choice, "checkpoint_transfer")
                /\ AtLeast(Cardinality(PickedHits(run, choice, pick)), config.hit,
                           Cardinality(Decisive(run)))
                /\ \A c \in Placements :
                     AtLeast(Cardinality(PickedHits(run, choice, pick))
                               - Cardinality(Singletons(run, c)),
                             config.improvement, Cardinality(Decisive(run))))
    BY Zenon DEF EvaluateCheckpointTransfer, PickedHits, GuardAlone
  <2> QED BY <2>1, Zenon
<1>2. /\ last'.by = "checkpoint_transfer" /\ last'.run = run /\ last'.choice = choice
      /\ last'.passed = passed /\ last'.config = config
  BY <1>1 DEF Evaluation
<1>3. IsFiniteSet(run.groups)
  BY MeasuredAssumption
<1>4. pick \in [Decisive(run) -> run.groups] /\ \A s \in Decisive(run) : pick[s].scenario = s
  BY <1>1, Zenon
<1>5. PickedHits(run, choice, pick) \subseteq SomeHits(run, choice)
  BY <1>4, PickedIsSome
<1>6. "seeds" \in config.requires => PickedHits(run, choice, pick) \subseteq SureHits(run, choice)
  <2>1. "seeds" \in config.requires =>
          \A s \in Scenarios(run.groups) : Cardinality({choice[g] : g \in Family(run, s)}) = 1
    BY <1>1, <1>2, Zenon DEF CheckpointGates
  <2>2. choice = [g \in run.groups |-> choice[g]]
    BY <1>1
  <2> QED BY <1>3, <1>4, <2>1, <2>2, PickedIsSure
<1>7. ASSUME NEW H, H \subseteq Decisive(run), PickedHits(run, choice, pick) \subseteq H,
             config.improvement > 0, NEW c \in Placements
      PROVE  Cardinality(H) > Cardinality(Singletons(run, c))
  <2>1. IsFiniteSet(H) /\ IsFiniteSet(PickedHits(run, choice, pick))
    BY <1>3, <1>7, DecisiveIsFinite, FS_Subset
  <2>2. PICK hits, more \in Nat : /\ hits = Cardinality(PickedHits(run, choice, pick))
                                 /\ more = Cardinality(H) /\ hits <= more
    BY <1>7, <2>1, FS_Subset, FS_CardinalityType
  <2>3. config.improvement \in Nat
    <3>1. config \in Configurations
      BY <1>1
    <3> QED BY <3>1, ConfigurationsAssumption
  <2>4. AtLeast(hits - Cardinality(Singletons(run, c)), config.improvement,
                Cardinality(Decisive(run)))
    BY <1>1, <1>2, <2>2
  <2>5. Cardinality(Singletons(run, c)) \in Nat /\ Cardinality(Singletons(run, c)) < hits
    BY <1>3, <1>7, <2>3, <2>4, PickedBeats
  <2> QED BY <2>2, <2>5
<1>8. SomeHits(run, choice) \subseteq Decisive(run) /\ SureHits(run, choice) \subseteq Decisive(run)
  BY DEF SomeHits, SureHits
<1>9. config.improvement > 0 =>
        \A c \in Placements :
          /\ Cardinality(SomeHits(run, choice)) > Cardinality(Singletons(run, c))
          /\ "seeds" \in config.requires =>
               Cardinality(SureHits(run, choice)) > Cardinality(Singletons(run, c))
  BY <1>5, <1>6, <1>7, <1>8
<1>10. "checkpoint_transfer" \notin PipelineScorings
  BY DEF PipelineScorings
<1> QED BY <1>2, <1>9, <1>10 DEF BeatsFixed

LEMMA HoldoutBeats ==
  ASSUME NEW run, EvaluateCheckpointHoldout(run), last' # Raised, last'.passed
  PROVE  BeatsFixed(last'.by, last'.run, last'.config, last'.choice)
<1>1. PICK config, choice, passed :
        /\ last' = Evaluation("checkpoint_holdout", checkpoint, run, config, choice, passed)
        /\ passed => ("both" \in config.requires =>
                        \A c \in Placements : HitsOf(run, choice) > FixedHits(run, c))
  BY Zenon DEF EvaluateCheckpointHoldout
<1>2. /\ last'.by = "checkpoint_holdout" /\ last'.run = run /\ last'.choice = choice
      /\ last'.passed = passed /\ last'.config = config
  BY <1>1 DEF Evaluation
<1>3. "checkpoint_holdout" \notin PipelineScorings
  BY DEF PipelineScorings
<1> QED BY <1>1, <1>2, <1>3 DEF BeatsFixed

LEMMA BeatStep == FilesInv /\ PassBeatsEveryFixed /\ [Next]_vars => PassBeatsEveryFixed'
<1> SUFFICES ASSUME FilesInv, PassBeatsEveryFixed, [Next]_vars PROVE PassBeatsEveryFixed'
  OBVIOUS
<1>1. CASE Quiet
  <2>1. last'.what # "evaluated"
    BY <1>1 DEF Quiet, Nothing, Raised
  <2> QED BY <2>1, PassBeatsNext
<1>2. ASSUME last' # Raised => (last'.passed => BeatsFixed(last'.by, last'.run, last'.config, last'.choice))
      PROVE  PassBeatsEveryFixed'
  BY <1>1, <1>2, PassBeatsNext DEF Quiet
<1>3. ASSUME NEW run \in Runs,
             EvaluateHoldout(run) \/ EvaluateTransfer(run) \/ EvaluateStratified(run)
      PROVE  PassBeatsEveryFixed'
  <2>1. \/ EvaluateFrozen("transfer", run, TRUE)
        \/ \E admitted : EvaluateFrozen("holdout", run, admitted)
        \/ EvaluateStratified(run)
    BY <1>3, Zenon DEF EvaluateHoldout, EvaluateTransfer
  <2> QED BY <1>2, <2>1, FrozenBeats, StratifiedBeats
<1>4. ASSUME NEW run \in CheckpointRuns,
             EvaluateCheckpointHoldout(run) \/ EvaluateCheckpointTransfer(run)
      PROVE  PassBeatsEveryFixed'
  BY <1>2, <1>4, HoldoutBeats, TransferBeats
<1>5. ASSUME NEW q \in Requests, Decide(q) PROVE PassBeatsEveryFixed'
  <2>1. last'.what # "evaluated"
    BY <1>5, Zenon DEF Decide
  <2> QED BY <2>1, PassBeatsNext
<1>6. CASE UNCHANGED vars
  <2>1. last' = last
    BY <1>6 DEF vars
  <2> QED BY <2>1, PassBeatsNext DEF PassBeatsEveryFixed
<1> QED BY <1>1, <1>3, <1>4, <1>5, <1>6, QuietSteps

(* For every model, every measured run and every gate: an evaluation that  *)
(* passes beats, in what its configuration requires a comparison of, every *)
(* way of always choosing the same candidate, and not only the baseline it *)
(* was compared with (the pass conditions of the five evaluate functions). *)
THEOREM AlwaysBeatsFixed == Spec => []PassBeatsEveryFixed
<1>1. Init => PassBeatsEveryFixed
  BY DEF Init, PassBeatsEveryFixed, Nothing
<1> QED BY <1>1, FilesInvariant, BeatStep, PTL DEF Spec
=============================================================================
