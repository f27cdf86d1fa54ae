-------------------------- MODULE MeasurementOrders --------------------------
(***************************************************************************)
(* The orders in which the experiments measure their candidates, block by  *)
(* block.  A block executes every candidate once; a design is a sequence   *)
(* of orders.  The seeded shuffles of the code are parameters: what the    *)
(* designs promise holds for every shuffle.                                *)
(***************************************************************************)
EXTENDS Integers, Sequences, FiniteSetsExt, SequencesExt

\* _ORDER_BARRIER: a query that takes a period and is not measured.
Barrier == "barrier"

\* balanced_candidate_orders, _variant_orders: cyclic rotations.
Rotations(symbols, rounds, offset) ==
  LET n == Len(symbols)
  IN  [round \in 1 .. rounds |->
         [i \in 1 .. n |-> symbols[1 + ((offset + round + i - 2) % n)]]]

Arrangements(S) ==
  {order \in [1 .. Cardinality(S) -> S] : \A i, j \in DOMAIN order :
     order[i] = order[j] => i = j}

\* checkpoint_orders and the other complete designs, in one of their shuffles.
AllPermutations(S) == SetToSeq(Arrangements(S))

\* _balanced_carryover_orders: the directed terrace 0, 1, n-1, 2, n-2, ...
Column(n, k) == IF k % 2 = 1 THEN (k + 1) \div 2 ELSE (n - k \div 2) % n

Even(symbols) ==
  IF Len(symbols) % 2 = 1 THEN Append(symbols, Barrier) ELSE symbols

\* One cycle of the Williams design: every offset of the terrace.
Williams(symbols) ==
  LET all == Even(symbols)
      n == Len(all)
  IN  [offset \in 1 .. n |->
         [k \in 1 .. n |-> all[1 + ((Column(n, k - 1) + offset - 1) % n)]]]

\* Blocks that have x at position p.
At(orders, x, p) == Cardinality({b \in DOMAIN orders : orders[b][p] = x})

\* Places where y follows x directly.
Follows(orders, x, y) ==
  Cardinality({place \in (DOMAIN orders) \X (1 .. Len(orders[1]) - 1) :
                 LET order == orders[place[1]]
                     p == place[2]
                 IN  order[p] = x /\ order[p + 1] = y})

\* How unevenly the members of S are spread over the positions.
Imbalance(orders, S) ==
  LET counts(x) == {At(orders, x, p) : p \in 1 .. Len(orders[1])}
  IN  Max({Max(counts(x)) - Min(counts(x)) : x \in S})

\* balanced_layer_orders: of the orders left, one whose choice spreads least.
Greedy(S, rounds) ==
  LET spread(orders, o) == Imbalance(Append(orders, o), S)
      best(orders) ==
        CHOOSE o \in Arrangements(S) :
          \A other \in Arrangements(S) : spread(orders, o) <= spread(orders, other)
  IN  FoldLeft(LAMBDA orders, round : Append(orders, best(orders)), <<>>,
               [round \in 1 .. rounds |-> round])
=============================================================================
