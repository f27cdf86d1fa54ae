-------------------------- MODULE ExperimentRunners --------------------------
(***************************************************************************)
(* The resumable experiments of src/trustaero/experiments, as runners of   *)
(* module CheckpointedRun: for each its run_* function (what is written,   *)
(* read and compared when a run is opened and resumed) and its _run_unit   *)
(* (orders and comparisons).  Progress, log and failure files are written  *)
(* beside these and never read.                                            *)
(***************************************************************************)
EXTENDS MeasurementOrders

CONSTANT UnitCount   \* units of a run, where a unit is not one block

Three == <<"fused", "filter_early", "materialized">>
Pair == {"policy_first", "query_first"}
Members(seq) == {seq[i] : i \in DOMAIN seq}

Protocol(orders, reference) ==
  [orders |-> orders, reference |-> reference, block_units |-> FALSE]

Phase2CUnit == Protocol(Rotations(Three, 3, 1), "unit")
ExecutionFlowUnit == Protocol(Williams(Three), "end")
ReversalUnit == Protocol(AllPermutations(Pair), "block")
CheckpointTransferUnit == Protocol(AllPermutations(Pair), "block")
ScalabilityUnit == Protocol(Greedy(Members(Three), 4), "block")
AdmissionUnit == Protocol(AllPermutations(Members(Three)), "block")
PipelineTransferUnit == Protocol(AllPermutations(Members(Three)), "block")
PilotUnit == Protocol(Rotations(<<"fused">>, 2, 0), "unit")
CandidatePilotUnit == Protocol(AllPermutations(Members(Three)), "unit")

\* TPC-H: the block is the unit, and the design spans the whole run.
TpchBlock ==
  [Protocol(AllPermutations(Members(Three)), "process") EXCEPT !.block_units = TRUE]

\* A list of completed units, and a commit that must not change.
WithCheckpoint(protocol) ==
  [opening |-> <<"config", "environment", "checkpoint", "latest">>, reopening |-> <<>>,
   needed |-> {"checkpoint", "environment"}, compared |-> {"checkpoint", "environment"},
   sequences |-> "lists",
   summarising |-> {}, completion |-> "checkpoint", units |-> UnitCount, protocol |-> protocol]

\* Unit files say what is done.
WithUnitFiles(reopening, needed, compared, protocol) ==
  [opening |-> <<"config", "environment", "latest">>, reopening |-> reopening,
   needed |-> needed, compared |-> compared, sequences |-> "lists",
   summarising |-> {}, completion |-> "units", units |-> UnitCount, protocol |-> protocol]

run_phase2c == WithCheckpoint(Phase2CUnit)
run_execution_flow_audit == WithCheckpoint(ExecutionFlowUnit)
run_governed_checkpoint_reversal == WithCheckpoint(ReversalUnit)
run_real_governed_checkpoint_transfer == WithCheckpoint(CheckpointTransferUnit)

run_system_scalability ==
  WithUnitFiles(<<>>, {"config", "environment"}, {"config", "environment"}, ScalabilityUnit)

run_governed_pipeline_admission ==
  WithUnitFiles(<<>>, {"config"}, {"config"}, AdmissionUnit)

run_real_governed_pipeline_transfer ==
  [WithUnitFiles(<<>>, {"config"}, {"config"}, PipelineTransferUnit)
     EXCEPT !.summarising = {"environment"}]

run_real_data_pilot ==
  WithUnitFiles(<<"config", "environment">>, {}, {"config"}, PilotUnit)

run_real_data_candidate_pilot ==
  WithUnitFiles(<<"config", "environment">>, {}, {"config"}, CandidatePilotUnit)

\* Compared with asdict, which keeps the tuple carryover_candidate_ids a tuple.
run_tpch_q1_formal ==
  [WithUnitFiles(<<"environment">>, {"config", "environment"}, {"config", "environment"},
                 TpchBlock)
     EXCEPT !.units = Len(TpchBlock.orders), !.sequences = "tuples"]

\* The same course with the other query, written out a second time.
run_tpch_q6_formal == run_tpch_q1_formal

AllRunners ==
  {run_phase2c, run_execution_flow_audit, run_governed_checkpoint_reversal,
   run_real_governed_checkpoint_transfer, run_system_scalability,
   run_governed_pipeline_admission, run_real_governed_pipeline_transfer,
   run_real_data_pilot, run_real_data_candidate_pilot,
   run_tpch_q1_formal, run_tpch_q6_formal}
=============================================================================
