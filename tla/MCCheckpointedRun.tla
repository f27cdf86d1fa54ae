-------------------------- MODULE MCCheckpointedRun --------------------------
(* Every resumable experiment with two units, one changed result and two   *)
(* crashes; the user resumes with another configuration or commit.         *)
EXTENDS CheckpointedRun, ExperimentRunners

Trees ==
  {[config |-> "frozen", commit |-> "c1"], [config |-> "frozen", commit |-> "c2"],
   [config |-> "edited", commit |-> "c1"]}

\* Nothing, one candidate's result, or every result changes.
SomeDrifts == {{}, {"fused", "policy_first"}, Members(Three) \cup Pair}

Predecessors(orders, S) ==
  {Follows(orders, x, y) : <<x, y>> \in {pair \in S \X S : pair[1] # pair[2]}}

(* However often a run was interrupted, its candidates were measured       *)
(* equally often at every position of a block (one apart where the blocks  *)
(* do not divide), and in the designs that promise it equally often right  *)
(* after each other.                                                       *)
DesignBalanced ==
  summary # None =>
    \A orders \in MeasuredOrders(summary) :
      LET S == Candidates(orders[1])
      IN  /\ Imbalance(orders, S) <= (IF Len(orders) % Len(orders[1]) = 0 THEN 0 ELSE 1)
          /\ runner.protocol.orders \in {Williams(Three), AllPermutations(Members(Three)),
                                         AllPermutations(Pair)} =>
               Cardinality(Predecessors(orders, S)) = 1
=============================================================================
