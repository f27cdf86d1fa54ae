----------------------------- MODULE FiniteLemmas -----------------------------
(***************************************************************************)
(* Lemmas that the proofs of several components rest on: a set of naturals *)
(* has a least element, a bounded one a largest; what holds of a subset of *)
(* a finite set when it holds of the smaller ones holds of all; and sums   *)
(* of a function over a finite set.                                        *)
(***************************************************************************)
EXTENDS Integers, FiniteSets, FiniteSetTheorems, WellFoundedInduction, TLAPS

\* A nonempty set of naturals has a least element.
LEMMA LeastNat ==
  ASSUME NEW S \in SUBSET Nat, S # {}
  PROVE  \E m \in S : \A n \in S : m <= n
<1>1. \A m, n \in Nat : n < m => <<n, m>> \in OpToRel(<, Nat)
  BY Zenon DEF OpToRel
<1>2. PICK m \in S : \A n \in S : <<n, m>> \notin OpToRel(<, Nat)
  BY NatLessThanWellFounded, WFMin, Zenon
<1>3. PICK i \in S : \A n \in S : ~(n < i)
  BY <1>1, <1>2, Zenon
<1>4. \A n \in S : i <= n
  BY <1>3
<1> QED BY <1>4

(* The largest element of a bounded set is at the least distance from the  *)
(* bound.                                                                  *)
LEMMA LargestNat ==
  ASSUME NEW N \in Nat, NEW S \in SUBSET (0 .. N), S # {}
  PROVE  \E m \in S : \A n \in S : n <= m
<1> DEFINE Distances == {N - n : n \in S}
<1>1. Distances \subseteq Nat /\ Distances # {}
  <2>1. \A n \in S : N - n \in Nat
    OBVIOUS
  <2> QED BY <2>1
<1>2. \A n \in S : N - n \in Distances
  OBVIOUS
<1>3. \A d \in Distances : \E n \in S : d = N - n
  OBVIOUS
<1> HIDE DEF Distances
<1>4. PICK d \in Distances : \A e \in Distances : d <= e
  BY <1>1, LeastNat
<1>5. PICK m \in S : d = N - m
  BY <1>3
<1>6. ASSUME NEW n \in S PROVE n <= m
  BY <1>2, <1>4, <1>5
<1> QED BY <1>6

\* Induction over the subsets of a finite set, P being those of which it holds.
LEMMA SubsetInduction ==
  ASSUME NEW S, IsFiniteSet(S), NEW P,
         \A t \in SUBSET S : (\A u \in SUBSET t : u # t => u \in P) => t \in P
  PROVE  \A t \in SUBSET S : t \in P
<1> DEFINE bad == {t \in SUBSET S : t \notin P}
<1> SUFFICES ASSUME bad # {} PROVE FALSE
  OBVIOUS
<1>1. bad \subseteq FiniteSubsetsOf(S)
  BY FS_Subset DEF FiniteSubsetsOf
<1>2. PICK t \in bad : \A u \in bad : <<u, t>> \notin StrictSubsetOrdering(S)
  <2> HIDE DEF bad
  <2> QED BY <1>1, WFMin, FS_StrictSubsetOrderingWellFounded
<1>3. \A u \in SUBSET t : u # t => u \in P
  BY <1>2 DEF StrictSubsetOrdering
<1> QED BY <1>2, <1>3

StrictOrder(R, S) ==
  /\ \A x \in S : <<x, x>> \notin R
  /\ \A x, y, z \in S : <<x, y>> \in R /\ <<y, z>> \in R => <<x, z>> \in R

HasTop(x, R, S) ==
  \E y \in S : (y = x \/ <<y, x>> \in R) /\ \A z \in S : <<z, y>> \notin R

(* In a finite set with a strict order, given as its pairs, something is   *)
(* above each element that nothing is above.                               *)
LEMMA TopAbove ==
  ASSUME NEW S, IsFiniteSet(S), NEW R, StrictOrder(R, S)
  PROVE  \A x \in S : HasTop(x, R, S)
<1>0. /\ \A x \in S : <<x, x>> \notin R
      /\ \A x, y, z \in S : <<x, y>> \in R /\ <<y, z>> \in R => <<x, z>> \in R
  BY DEF StrictOrder
<1> DEFINE Above(x) == {z \in S : <<z, x>> \in R}
           Topped(x) == HasTop(x, R, S)
           P == {t \in SUBSET S : \A x \in S : Above(x) = t => Topped(x)}
<1>1. \A t \in SUBSET S : (\A u \in SUBSET t : u # t => u \in P) => t \in P
  <2> SUFFICES ASSUME NEW t \in SUBSET S, \A u \in SUBSET t : u # t => u \in P,
                      NEW x \in S, Above(x) = t
               PROVE  Topped(x)
    OBVIOUS
  <2>1. CASE t = {}
    BY <2>1 DEF HasTop
  <2>2. CASE t # {}
    <3>1. PICK z \in t : TRUE
      BY <2>2
    <3>2. z \in S /\ <<z, x>> \in R
      BY <3>1
    <3>3. Above(z) \in SUBSET t /\ Above(z) # t
      BY <1>0, <3>1, <3>2
    <3>4. Topped(z)
      BY <3>2, <3>3
    <3> QED BY <1>0, <3>2, <3>4 DEF HasTop
  <2> QED BY <2>1, <2>2
<1> HIDE DEF P
<1>2. \A t \in SUBSET S : t \in P
  BY <1>1, SubsetInduction
<1>3. SUFFICES ASSUME NEW x \in S PROVE Topped(x)
  OBVIOUS
<1>4. Above(x) \in P
  BY <1>2
<1> QED BY <1>4 DEF P

Pick(s) == CHOOSE x \in s : TRUE

\* h is the table of the partial sums of f over the subsets of S.
Unfolds(h, f, S) ==
  h = [s \in SUBSET S |-> IF s = {} THEN 0 ELSE f[Pick(s)] + h[s \ {Pick(s)}]]

LEMMA PickIn == \A s : s # {} => Pick(s) \in s
BY DEF Pick

\* One step of a table.
LEMMA UnfoldOnce ==
  ASSUME NEW S, NEW f, NEW h, Unfolds(h, f, S), NEW t \in SUBSET S
  PROVE  h[t] = IF t = {} THEN 0 ELSE f[Pick(t)] + h[t \ {Pick(t)}]
<1> DEFINE D == [s \in SUBSET S |-> IF s = {} THEN 0 ELSE f[Pick(s)] + h[s \ {Pick(s)}]]
<1>1. h = D
  BY DEF Unfolds
<1>2. D[t] = IF t = {} THEN 0 ELSE f[Pick(t)] + h[t \ {Pick(t)}]
  OBVIOUS
<1> HIDE DEF D
<1> QED BY <1>1, <1>2

\* Two tables of one function agree on the subsets that both have.
LEMMA UnfoldsAgree ==
  ASSUME NEW S, IsFiniteSet(S), NEW T \in SUBSET S, NEW f, NEW g, NEW h,
         Unfolds(g, f, S), Unfolds(h, f, T)
  PROVE  \A t \in SUBSET T : g[t] = h[t]
<1> DEFINE P == {t \in SUBSET T : g[t] = h[t]}
<1>1. \A t \in SUBSET T : (\A u \in SUBSET t : u # t => u \in P) => t \in P
  <2> SUFFICES ASSUME NEW t \in SUBSET T, \A u \in SUBSET t : u # t => g[u] = h[u]
               PROVE  g[t] = h[t]
    OBVIOUS
  <2>1. CASE t = {}
    BY <2>1, UnfoldOnce, t \in SUBSET S
  <2>2. CASE t # {}
    <3>1. t \ {Pick(t)} \in SUBSET t /\ t \ {Pick(t)} # t
      BY <2>2, PickIn
    <3>2. g[t \ {Pick(t)}] = h[t \ {Pick(t)}]
      BY <3>1
    <3> QED BY <2>2, <3>2, UnfoldOnce, t \in SUBSET S
  <2> QED BY <2>1, <2>2
<1>2. IsFiniteSet(T)
  BY FS_Subset
<1> HIDE DEF P
<1>3. \A t \in SUBSET T : t \in P
  BY <1>1, <1>2, SubsetInduction
<1> QED BY <1>3 DEF P

\* Every function on a finite set has such a table.
LEMMA UnfoldsExists ==
  ASSUME NEW S, IsFiniteSet(S), NEW f \in [S -> Int]
  PROVE  \E h \in [SUBSET S -> Int] : Unfolds(h, f, S)
<1> DEFINE P == {t \in SUBSET S : \E h \in [SUBSET t -> Int] : Unfolds(h, f, t)}
<1>1. \A t \in SUBSET S : (\A u \in SUBSET t : u # t => u \in P) => t \in P
  <2> SUFFICES ASSUME NEW t \in SUBSET S, \A u \in SUBSET t : u # t => u \in P
               PROVE  t \in P
    OBVIOUS
  <2> DEFINE table == [u \in SUBSET t |-> CHOOSE k \in [SUBSET u -> Int] : Unfolds(k, f, u)]
             value(u) == table[u][u]
             h == [s \in SUBSET t |-> IF s = {} THEN 0 ELSE f[Pick(s)] + value(s \ {Pick(s)})]
  <2>1. \A u \in SUBSET t : u # t =>
          table[u] \in [SUBSET u -> Int] /\ Unfolds(table[u], f, u)
    <3> SUFFICES ASSUME NEW u \in SUBSET t, u # t
                 PROVE  table[u] \in [SUBSET u -> Int] /\ Unfolds(table[u], f, u)
      OBVIOUS
    <3>1. \E k \in [SUBSET u -> Int] : Unfolds(k, f, u)
      OBVIOUS
    <3> QED BY <3>1
  <2> HIDE DEF table, P
  <2>2. \A u \in SUBSET t : u # t => value(u) \in Int
    BY <2>1
  <2>3. \A s \in SUBSET t : s # {} => s \ {Pick(s)} \in SUBSET t /\ s \ {Pick(s)} # t /\ f[Pick(s)] \in Int
    BY PickIn
  <2>4. \A u \in SUBSET t : u # t => h[u] = value(u)
    <3> SUFFICES ASSUME NEW u \in SUBSET t, u # t PROVE h[u] = value(u)
      OBVIOUS
    <3>1. PICK k : k = table[u]
      OBVIOUS
    <3>2. Unfolds(k, f, u) /\ IsFiniteSet(u) /\ u \in SUBSET u
      BY <2>1, <3>1, FS_Subset
    <3>3. k[u] = IF u = {} THEN 0 ELSE f[Pick(u)] + k[u \ {Pick(u)}]
      BY <3>2, UnfoldOnce
    <3>4. CASE u = {}
      BY <3>1, <3>3, <3>4
    <3>5. CASE u # {}
      <4>1. PICK v : v = u \ {Pick(u)}
        OBVIOUS
      <4>2. v \in SUBSET t /\ v \in SUBSET u /\ v # t
        BY <3>5, <4>1, PickIn
      <4>3. PICK l : l = table[v]
        OBVIOUS
      <4>4. Unfolds(l, f, v)
        BY <2>1, <4>2, <4>3
      <4>5. k[v] = l[v]
        BY <3>2, <4>2, <4>4, UnfoldsAgree, v \in SUBSET v
      <4>6. h[u] = f[Pick(u)] + value(v)
        BY <3>5, <4>1
      <4> QED BY <3>1, <3>3, <3>5, <4>1, <4>3, <4>5, <4>6
    <3> QED BY <3>4, <3>5
  <2>5. h \in [SUBSET t -> Int]
    BY <2>2, <2>3
  <2>6. Unfolds(h, f, t)
    BY <2>3, <2>4 DEF Unfolds
  <2> QED BY <2>5, <2>6 DEF P
<1> HIDE DEF P
<1>2. \A t \in SUBSET S : t \in P
  BY <1>1, SubsetInduction
<1> QED BY <1>2 DEF P

SumTable(h, f, S) ==
  /\ f \in [S -> Int] /\ h \in [SUBSET S -> Int]
  /\ Unfolds(h, f, S)

\* f exceeds g in one place, by d at most.
GrowsAt(f, g, S, x, d) ==
  d \in Nat /\ \A y \in S : f[y] <= g[y] + (IF y = x THEN d ELSE 0)

\* Then so do their sums.
LEMMA SumGrowsBy ==
  ASSUME NEW S, IsFiniteSet(S), NEW f, NEW g, NEW h, NEW k, NEW x, NEW d,
         SumTable(h, f, S), SumTable(k, g, S), GrowsAt(f, g, S, x, d)
  PROVE  h[S] <= k[S] + d
<1>0. /\ f \in [S -> Int] /\ h \in [SUBSET S -> Int] /\ Unfolds(h, f, S)
      /\ g \in [S -> Int] /\ k \in [SUBSET S -> Int] /\ Unfolds(k, g, S)
      /\ d \in Nat /\ \A y \in S : f[y] <= g[y] + (IF y = x THEN d ELSE 0)
  BY DEF SumTable, GrowsAt
<1> DEFINE P == {t \in SUBSET S : h[t] <= k[t] + (IF x \in t THEN d ELSE 0)}
<1>1. \A t \in SUBSET S : (\A u \in SUBSET t : u # t => u \in P) => t \in P
  <2> SUFFICES ASSUME NEW t \in SUBSET S, \A u \in SUBSET t : u # t => u \in P
               PROVE  h[t] <= k[t] + (IF x \in t THEN d ELSE 0)
    OBVIOUS
  <2>1. h[t] = IF t = {} THEN 0 ELSE f[Pick(t)] + h[t \ {Pick(t)}]
    <3> HIDE DEF P
    <3> QED BY <1>0, UnfoldOnce
  <2>2. k[t] = IF t = {} THEN 0 ELSE g[Pick(t)] + k[t \ {Pick(t)}]
    <3> HIDE DEF P
    <3> QED BY <1>0, UnfoldOnce
  <2>3. CASE t = {}
    BY <1>0, <2>1, <2>2, <2>3
  <2>4. CASE t # {}
    <3>1. PICK y, u : y = Pick(t) /\ u = t \ {y}
      OBVIOUS
    <3>2. y \in t /\ y \in S /\ u \in SUBSET t /\ u # t /\ u \in SUBSET S /\ y \notin u
      BY <2>4, <3>1, PickIn
    <3>3. h[u] <= k[u] + (IF x \in u THEN d ELSE 0)
      BY <3>2
    <3>4. h[t] = f[y] + h[u] /\ k[t] = g[y] + k[u]
      BY <2>1, <2>2, <2>4, <3>1
    <3>5. f[y] \in Int /\ g[y] \in Int /\ h[u] \in Int /\ k[u] \in Int /\ d \in Nat
      BY <1>0, <3>2
    <3>6. f[y] <= g[y] + (IF y = x THEN d ELSE 0)
      BY <1>0, <3>2
    <3>7. x \in t <=> x \in u \/ x = y
      BY <3>1, <3>2
    <3>8. x = y => x \notin u
      BY <3>2
    <3> HIDE DEF P
    <3> QED BY <3>3, <3>4, <3>5, <3>6, <3>7, <3>8
  <2> QED BY <2>3, <2>4
<1> HIDE DEF P
<1>2. S \in P
  BY <1>1, SubsetInduction, S \in SUBSET S
<1>3. h[S] \in Int /\ k[S] \in Int /\ d \in Nat
  BY <1>0, S \in SUBSET S
<1> QED BY <1>2, <1>3 DEF P

LEMMA EveryTableUnfolds ==
  ASSUME NEW S, NEW e, NEW q, Unfolds(q, e, S)
  PROVE  /\ q[{}] = 0
         /\ \A t \in SUBSET S : t # {} => q[t] = e[Pick(t)] + q[t \ {Pick(t)}]
BY UnfoldOnce, {} \in SUBSET S

\* What holds of the terms of four sums, taken two and two, holds of the sums.
LEMMA SumsCompare ==
  ASSUME NEW S, IsFiniteSet(S), NEW f, NEW g, NEW i, NEW j, NEW h, NEW k, NEW l, NEW o,
         SumTable(h, f, S), SumTable(k, g, S), SumTable(l, i, S), SumTable(o, j, S),
         \A y \in S : f[y] + g[y] <= i[y] + j[y]
  PROVE  h[S] + k[S] <= l[S] + o[S]
<1>0. /\ f \in [S -> Int] /\ h \in [SUBSET S -> Int] /\ Unfolds(h, f, S)
      /\ g \in [S -> Int] /\ k \in [SUBSET S -> Int] /\ Unfolds(k, g, S)
      /\ i \in [S -> Int] /\ l \in [SUBSET S -> Int] /\ Unfolds(l, i, S)
      /\ j \in [S -> Int] /\ o \in [SUBSET S -> Int] /\ Unfolds(o, j, S)
  BY DEF SumTable
<1>01. /\ h[{}] = 0 /\ \A t \in SUBSET S : t # {} => h[t] = f[Pick(t)] + h[t \ {Pick(t)}]
       /\ k[{}] = 0 /\ \A t \in SUBSET S : t # {} => k[t] = g[Pick(t)] + k[t \ {Pick(t)}]
       /\ l[{}] = 0 /\ \A t \in SUBSET S : t # {} => l[t] = i[Pick(t)] + l[t \ {Pick(t)}]
       /\ o[{}] = 0 /\ \A t \in SUBSET S : t # {} => o[t] = j[Pick(t)] + o[t \ {Pick(t)}]
  <2>1. h[{}] = 0 /\ \A t \in SUBSET S : t # {} => h[t] = f[Pick(t)] + h[t \ {Pick(t)}]
    BY <1>0, EveryTableUnfolds
  <2>2. k[{}] = 0 /\ \A t \in SUBSET S : t # {} => k[t] = g[Pick(t)] + k[t \ {Pick(t)}]
    BY <1>0, EveryTableUnfolds
  <2>3. l[{}] = 0 /\ \A t \in SUBSET S : t # {} => l[t] = i[Pick(t)] + l[t \ {Pick(t)}]
    BY <1>0, EveryTableUnfolds
  <2>4. o[{}] = 0 /\ \A t \in SUBSET S : t # {} => o[t] = j[Pick(t)] + o[t \ {Pick(t)}]
    BY <1>0, EveryTableUnfolds
  <2> QED BY <2>1, <2>2, <2>3, <2>4
<1> DEFINE P == {t \in SUBSET S : h[t] + k[t] <= l[t] + o[t]}
<1>1. \A t \in SUBSET S : (\A u \in SUBSET t : u # t => u \in P) => t \in P
  <2> SUFFICES ASSUME NEW t \in SUBSET S, \A u \in SUBSET t : u # t => u \in P
               PROVE  h[t] + k[t] <= l[t] + o[t]
    OBVIOUS
  <2>1. CASE t = {}
    BY <1>01, <2>1
  <2>2. CASE t # {}
    <3>1. PICK y, u : y = Pick(t) /\ u = t \ {y}
      OBVIOUS
    <3>2. y \in S /\ u \in SUBSET t /\ u # t /\ u \in SUBSET S
      BY <2>2, <3>1, PickIn
    <3>3. h[u] + k[u] <= l[u] + o[u]
      BY <3>2
    <3>4. /\ h[t] = f[y] + h[u] /\ k[t] = g[y] + k[u]
          /\ l[t] = i[y] + l[u] /\ o[t] = j[y] + o[u]
      BY <1>01, <2>2, <3>1
    <3>5. /\ f[y] \in Int /\ g[y] \in Int /\ i[y] \in Int /\ j[y] \in Int
          /\ f[y] + g[y] <= i[y] + j[y]
          /\ h[u] \in Int /\ k[u] \in Int /\ l[u] \in Int /\ o[u] \in Int
      BY <1>0, <3>2
    <3> HIDE DEF P
    <3>6. \A a, b, c, d, p, q, r, z \in Int :
            a + b <= c + d /\ p + q <= r + z => a + p + (b + q) <= c + r + (d + z)
      BY SMT
    <3>7. f[y] + h[u] + (g[y] + k[u]) <= i[y] + l[u] + (j[y] + o[u])
      BY <3>3, <3>5, <3>6, Zenon
    <3> QED BY <3>4, <3>7, Zenon
  <2> QED BY <2>1, <2>2
<1> HIDE DEF P
<1>2. S \in P
  BY <1>1, SubsetInduction, S \in SUBSET S
<1> QED BY <1>2 DEF P

\* The sum of zeros.
LEMMA SumOfZeros ==
  ASSUME NEW S, IsFiniteSet(S), NEW f, \A y \in S : f[y] = 0, NEW h, Unfolds(h, f, S)
  PROVE  h[S] = 0
<1> DEFINE P == {t \in SUBSET S : h[t] = 0}
<1>1. \A t \in SUBSET S : (\A u \in SUBSET t : u # t => u \in P) => t \in P
  <2> SUFFICES ASSUME NEW t \in SUBSET S, \A u \in SUBSET t : u # t => u \in P
               PROVE  h[t] = 0
    OBVIOUS
  <2>1. h[t] = IF t = {} THEN 0 ELSE f[Pick(t)] + h[t \ {Pick(t)}]
    <3> HIDE DEF P
    <3> QED BY UnfoldOnce
  <2>2. t # {} => Pick(t) \in S /\ t \ {Pick(t)} \in SUBSET t /\ t \ {Pick(t)} # t
    BY PickIn
  <2> QED BY <2>1, <2>2
<1> HIDE DEF P
<1>2. S \in P
  BY <1>1, SubsetInduction, S \in SUBSET S
<1> QED BY <1>2 DEF P

\* The sum of naturals is one.
LEMMA SumIsNat ==
  ASSUME NEW S, IsFiniteSet(S), NEW f, \A y \in S : f[y] \in Nat, NEW h, Unfolds(h, f, S)
  PROVE  h[S] \in Nat
<1> DEFINE P == {t \in SUBSET S : h[t] \in Nat}
<1>1. \A t \in SUBSET S : (\A u \in SUBSET t : u # t => u \in P) => t \in P
  <2> SUFFICES ASSUME NEW t \in SUBSET S, \A u \in SUBSET t : u # t => u \in P
               PROVE  h[t] \in Nat
    OBVIOUS
  <2>1. h[t] = IF t = {} THEN 0 ELSE f[Pick(t)] + h[t \ {Pick(t)}]
    <3> HIDE DEF P
    <3> QED BY UnfoldOnce
  <2>2. t # {} => Pick(t) \in S /\ t \ {Pick(t)} \in SUBSET t /\ t \ {Pick(t)} # t
    BY PickIn
  <2>3. t # {} => f[Pick(t)] \in Nat /\ h[t \ {Pick(t)}] \in Nat
    BY <2>2
  <2> HIDE DEF P
  <2> QED BY <2>1, <2>3
<1> HIDE DEF P
<1>2. S \in P
  BY <1>1, SubsetInduction, S \in SUBSET S
<1> QED BY <1>2 DEF P

\* Of finitely many naturals one is largest.
LEMMA LargestValue ==
  ASSUME NEW S, IsFiniteSet(S), S # {}, NEW f, \A y \in S : f[y] \in Nat
  PROVE  \E x \in S : \A y \in S : f[y] <= f[x]
<1> DEFINE Tops(t) == {x \in t : \A y \in t : f[y] <= f[x]}
           P == {t \in SUBSET S : t # {} => Tops(t) # {}}
<1>1. \A t \in SUBSET S : (\A u \in SUBSET t : u # t => u \in P) => t \in P
  <2> SUFFICES ASSUME NEW t \in SUBSET S, \A u \in SUBSET t : u # t => u \in P, t # {}
               PROVE  Tops(t) # {}
    OBVIOUS
  <2>1. PICK a \in t : TRUE
    OBVIOUS
  <2>2. PICK u : u = t \ {a}
    OBVIOUS
  <2>3. u \in SUBSET t /\ u # t
    BY <2>1, <2>2
  <2>4. CASE u = {}
    <3>1. a \in Tops(t)
      BY <2>1, <2>2, <2>4
    <3> QED BY <3>1
  <2>5. CASE u # {}
    <3>1. PICK b \in u : \A y \in u : f[y] <= f[b]
      BY <2>3, <2>5
    <3>2. CASE f[a] <= f[b]
      <4>1. b \in Tops(t)
        BY <2>2, <3>1, <3>2
      <4> QED BY <4>1
    <3>3. CASE ~(f[a] <= f[b])
      <4>1. f[a] \in Nat /\ f[b] \in Nat
        BY <2>1, <2>2
      <4>2. \A y \in u : f[y] \in Nat
        BY <2>2
      <4>3. a \in Tops(t)
        BY <2>1, <2>2, <3>1, <3>3, <4>1, <4>2
      <4> QED BY <4>3
    <3> QED BY <3>2, <3>3
  <2> QED BY <2>4, <2>5
<1> HIDE DEF P
<1>2. S \in P
  BY <1>1, SubsetInduction, S \in SUBSET S
<1> QED BY <1>2 DEF P

-----------------------------------------------------------------------------
(* SumFunction, the sum of a function over its domain.                     *)

LEMMA SumFunctionIs ==
  ASSUME NEW S, IsFiniteSet(S), NEW f \in [S -> Int]
  PROVE  \E h : SumTable(h, f, S) /\ SumFunction(f) = h[S]
<1> DEFINE D(k) == [s \in SUBSET S |->
                      IF s = {} THEN 0
                      ELSE f[CHOOSE x \in s : TRUE] + k[s \ {CHOOSE x \in s : TRUE}]]
           iter == CHOOSE k : k = D(k)
<1>1. PICK h \in [SUBSET S -> Int] : Unfolds(h, f, S)
  BY UnfoldsExists
<1>2. \A k : D(k) = [s \in SUBSET S |-> IF s = {} THEN 0 ELSE f[Pick(s)] + k[s \ {Pick(s)}]]
  BY DEF Pick
<1>3. SumFunction(f) = iter[S]
  <2>1. DOMAIN f = S
    OBVIOUS
  <2> QED BY <2>1 DEF SumFunction, SumFunctionOnSet, FoldFunctionOnSet, MapThenFoldSet
<1>4. Unfolds(iter, f, S)
  <2>1. h = D(h)
    BY <1>1, <1>2 DEF Unfolds
  <2>2. iter = D(iter)
    <3> HIDE DEF D
    <3> QED BY <2>1
  <2> HIDE DEF D, iter
  <2> QED BY <1>2, <2>2 DEF Unfolds
<1> HIDE DEF iter
<1>5. iter[S] = h[S]
  BY <1>1, <1>4, UnfoldsAgree, S \in SUBSET S
<1> QED BY <1>1, <1>3, <1>5 DEF SumTable

\* The terms of a sum may be added in any order.
LEMMA SumTakesAny ==
  ASSUME NEW S, IsFiniteSet(S), NEW f, NEW h, SumTable(h, f, S), NEW t \in SUBSET S, NEW x \in t
  PROVE  h[t] = f[x] + h[t \ {x}]
<1>0. f \in [S -> Int] /\ h \in [SUBSET S -> Int] /\ Unfolds(h, f, S)
  BY DEF SumTable
<1>01. h[{}] = 0 /\ \A q \in SUBSET S : q # {} => h[q] = f[Pick(q)] + h[q \ {Pick(q)}]
  BY <1>0, EveryTableUnfolds
<1> DEFINE P == {r \in SUBSET S : \A y \in r : h[r] = f[y] + h[r \ {y}]}
<1>1. \A r \in SUBSET S : (\A u \in SUBSET r : u # r => u \in P) => r \in P
  <2> SUFFICES ASSUME NEW r \in SUBSET S, \A u \in SUBSET r : u # r => u \in P, NEW y \in r
               PROVE  h[r] = f[y] + h[r \ {y}]
    OBVIOUS
  <2>1. PICK p \in r : p = Pick(r)
    BY PickIn
  <2>2. h[r] = f[p] + h[r \ {p}]
    BY <1>01, <2>1
  <2>3. CASE y = p
    BY <2>2, <2>3
  <2>4. CASE y # p
    <3>1. PICK u, v, w \in SUBSET S : u = r \ {p} /\ v = r \ {y} /\ w = u \ {y}
      OBVIOUS
    <3>2. u \in P /\ v \in P /\ y \in u /\ p \in v /\ w = v \ {p}
      BY <2>4, <3>1
    <3>3. h[u] = f[y] + h[w]
      BY <3>1, <3>2
    <3>4. h[v] = f[p] + h[w]
      BY <3>2
    <3>5. h[w] \in Int /\ f[y] \in Int /\ f[p] \in Int
      BY <1>0
    <3> QED BY <2>2, <3>1, <3>3, <3>4, <3>5
  <2> QED BY <2>3, <2>4
<1> HIDE DEF P
<1>2. \A r \in SUBSET S : r \in P
  BY <1>1, SubsetInduction
<1> QED BY <1>2 DEF P

\* A sum does not depend on the names of its terms.
LEMMA SumRenamed ==
  ASSUME NEW S, IsFiniteSet(S), NEW T, NEW to \in Bijection(S, T), NEW f \in [T -> Int]
  PROVE  SumFunction([x \in S |-> f[to[x]]]) = SumFunction(f)
<1>1. IsFiniteSet(T)
  <2>1. ExistsBijection(S, T)
    BY DEF ExistsBijection
  <2> QED BY <2>1, FS_Bijection
<1>2. /\ to \in [S -> T] /\ \A x, y \in S : to[x] = to[y] => x = y
      /\ \A y \in T : \E x \in S : to[x] = y
  BY DEF Bijection, Injection, Surjection, IsInjective
<1>3. PICK g \in [S -> Int] : g = [x \in S |-> f[to[x]]]
  BY <1>2
<1>4. PICK h : SumTable(h, g, S) /\ SumFunction(g) = h[S]
  BY SumFunctionIs
<1>5. PICK k : SumTable(k, f, T) /\ SumFunction(f) = k[T]
  BY <1>1, SumFunctionIs
<1>51. ASSUME NEW t \in SUBSET T, NEW y \in t
       PROVE  k[t] = f[y] + k[t \ {y}]
  BY <1>1, <1>5, SumTakesAny
<1> DEFINE Image(t) == {to[x] : x \in t}
           P == {t \in SUBSET S : h[t] = k[Image(t)]}
<1>6. \A t \in SUBSET S : (\A u \in SUBSET t : u # t => u \in P) => t \in P
  <2> SUFFICES ASSUME NEW t \in SUBSET S, \A u \in SUBSET t : u # t => u \in P
               PROVE  h[t] = k[Image(t)]
    OBVIOUS
  <2>1. CASE t = {}
    <3>1. h[{}] = 0 /\ k[{}] = 0
      BY <1>4, <1>5, EveryTableUnfolds DEF SumTable
    <3> QED BY <2>1, <3>1
  <2>2. CASE t # {}
    <3>1. PICK x \in t : TRUE
      BY <2>2
    <3>2. h[t] = g[x] + h[t \ {x}]
      BY <1>4, SumTakesAny
    <3>3. Image(t) \in SUBSET T /\ to[x] \in Image(t)
      BY <1>2
    <3>4. k[Image(t)] = f[to[x]] + k[Image(t) \ {to[x]}]
      <4> HIDE DEF Image
      <4> QED BY <1>51, <3>3
    <3>5. Image(t) \ {to[x]} = Image(t \ {x})
      BY <1>2
    <3>6. h[t \ {x}] = k[Image(t \ {x})]
      BY DEF P
    <3> QED BY <1>3, <3>2, <3>4, <3>5, <3>6
  <2> QED BY <2>1, <2>2
<1>7. S \in P
  <2> HIDE DEF P
  <2> QED BY <1>6, SubsetInduction, S \in SUBSET S
<1>8. Image(S) = T
  BY <1>2
<1> QED BY <1>3, <1>4, <1>5, <1>7, <1>8

\* Where each term is one, the sum counts them.
LEMMA SumCounts ==
  ASSUME NEW S, IsFiniteSet(S)
  PROVE  SumFunction([x \in S |-> 1]) = Cardinality(S)
<1>1. PICK f : f = [x \in S |-> 1] /\ f \in [S -> Int]
  <2>1. [x \in S |-> 1] \in [S -> Int]
    OBVIOUS
  <2> QED BY <2>1
<1>2. PICK h : SumTable(h, f, S) /\ SumFunction(f) = h[S]
  BY <1>1, SumFunctionIs
<1>21. ASSUME NEW t \in SUBSET S, NEW x \in t
       PROVE  h[t] = f[x] + h[t \ {x}]
  BY <1>2, SumTakesAny
<1> DEFINE P == {t \in SUBSET S : h[t] = Cardinality(t)}
<1>3. \A t \in SUBSET S : (\A u \in SUBSET t : u # t => u \in P) => t \in P
  <2> SUFFICES ASSUME NEW t \in SUBSET S, \A u \in SUBSET t : u # t => u \in P
               PROVE  h[t] = Cardinality(t)
    OBVIOUS
  <2>1. CASE t = {}
    <3>1. h[{}] = 0
      BY <1>2, EveryTableUnfolds DEF SumTable
    <3> QED BY <2>1, <3>1, FS_EmptySet
  <2>2. CASE t # {}
    <3>1. PICK x \in t : TRUE
      BY <2>2
    <3>2. h[t] = f[x] + h[t \ {x}]
      BY <1>21
    <3>3. h[t \ {x}] = Cardinality(t \ {x})
      BY DEF P
    <3>4. IsFiniteSet(t)
      BY FS_Subset
    <3>5. Cardinality(t \ {x}) = Cardinality(t) - 1 /\ Cardinality(t) \in Nat
      BY <3>4, FS_RemoveElement, FS_CardinalityType
    <3>6. f[x] = 1
      BY <1>1
    <3> QED BY <3>2, <3>3, <3>5, <3>6
  <2> QED BY <2>1, <2>2
<1> HIDE DEF P
<1>4. \A t \in SUBSET S : t \in P
  BY <1>3, SubsetInduction
<1> QED BY <1>1, <1>2, <1>4, S \in SUBSET S DEF P

\* A sum of one or two terms.
LEMMA SumOfTwo ==
  ASSUME NEW a, NEW b, NEW f \in [{a, b} -> Int]
  PROVE  SumFunction(f) = IF a = b THEN f[b] ELSE f[a] + f[b]
<1>1. PICK S : S = {a, b} /\ IsFiniteSet(S)
  <2>1. IsFiniteSet({b})
    BY FS_Singleton
  <2>2. IsFiniteSet({b} \cup {a})
    BY <2>1, FS_AddElement
  <2>3. {b} \cup {a} = {a, b}
    OBVIOUS
  <2> QED BY <2>2, <2>3
<1>2. PICK h : SumTable(h, f, S) /\ SumFunction(f) = h[S]
  BY <1>1, SumFunctionIs
<1>3. ASSUME NEW t \in SUBSET S, NEW x \in t
      PROVE  h[t] = f[x] + h[t \ {x}]
  BY <1>1, <1>2, SumTakesAny
<1>4. h[{}] = 0
  BY <1>2, EveryTableUnfolds DEF SumTable
<1>5. f[a] \in Int /\ f[b] \in Int
  OBVIOUS
<1>6. CASE a = b
  <2>1. S \in SUBSET S /\ b \in S /\ S \ {b} = {}
    BY <1>1, <1>6
  <2>2. h[S] = f[b] + h[{}]
    BY <1>3, <2>1
  <2> QED BY <1>2, <1>4, <1>5, <1>6, <2>2
<1>7. CASE a # b
  <2>1. S \in SUBSET S /\ a \in S /\ S \ {a} = {b}
    BY <1>1, <1>7
  <2>2. {b} \in SUBSET S /\ b \in {b} /\ {b} \ {b} = {}
    BY <1>1
  <2>3. h[S] = f[a] + h[{b}]
    BY <1>3, <2>1
  <2>4. h[{b}] = f[b] + h[{}]
    BY <1>3, <2>2
  <2> QED BY <1>2, <1>4, <1>5, <1>7, <2>3, <2>4
<1> QED BY <1>6, <1>7
=============================================================================
