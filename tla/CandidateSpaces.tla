---------------------------- MODULE CandidateSpaces ----------------------------
(***************************************************************************)
(* The physical candidates of each governed query shape, with the work and *)
(* the exposure that cardinality estimates give them:                      *)
(* governed_pipeline_space.py, governed_checkpoint_hierarchy.py,           *)
(* governed_aggregate_space.py and lineage_checkpoint_space.py of          *)
(* src/trustaero/optimizer.  HierarchicalPlanner then decides.             *)
(***************************************************************************)
EXTENDS HierarchicalPlanner

Profile(id, equivalence, exposure, work) ==
  [id |-> id, equivalence |-> equivalence, exposure |-> exposure, work |-> work]

Exposure(joined, materialized, masked, checkpoint) ==
  [raw_join |-> joined, raw_materialized |-> materialized,
   masked_materialized |-> masked, checkpoint |-> checkpoint]

------------------------------------------------------------------------------
\* Policy, Query, Join and Mask of one pipeline, in four orders.

\* The estimates every order of the pipeline shares are consistent.
ValidStatistics(s) ==
  /\ {s.input, s.width} \subseteq Nat \ {0}
  /\ {s.policy, s.query, s.governed, s.queryJoin, s.result} \subseteq 0 .. s.input
  /\ s.governed <= s.policy /\ s.governed <= s.query
  /\ s.queryJoin <= s.query
  /\ s.result <= s.governed /\ s.result <= s.queryJoin

Width == [masked |-> 64, ids |-> 16, joined |-> 24]

\* The common measures of one order: what it writes, probes, masks and hashes.
Metrics(s, rows, payload, probe, mask, hash, breakers) ==
  [checkpoint_bytes |-> payload, checkpoint_rows |-> rows, join_probe |-> probe,
   lineage_edges |-> 2 * s.result, lineage_rows |-> s.result,
   mask_bytes |-> mask * s.width, mask_rows |-> mask, breakers |-> breakers,
   hash_bytes |-> hash * s.width, hash_rows |-> hash]

Fused(s) ==
  Profile("fused", "pipeline", Exposure(0, 0, 0, FALSE),
          Metrics(s, 0, 0, s.governed, s.result, s.input, 0))

PolicyFirst(s) ==
  Profile("policy_first", "pipeline", Exposure(0, 0, s.policy, TRUE),
          Metrics(s, s.policy, s.policy * Width.masked, s.governed, s.policy, s.input, 1))

QueryFirst(s) ==
  Profile("query_first", "pipeline", Exposure(0, s.query, s.governed, TRUE),
          Metrics(s, s.query + s.governed,
                  s.query * (Width.ids + s.width) + s.governed * Width.masked,
                  s.governed, s.governed, s.query, 2))

\* Mutant of JoinFirst: the rows that survive the join are the exposed ones.
JoinFirstUnderstated(s) ==
  Profile("join_first", "pipeline", Exposure(s.queryJoin, s.queryJoin, s.result, TRUE),
          Metrics(s, s.queryJoin + s.result,
                  s.queryJoin * (Width.joined + s.width) + s.result * Width.masked,
                  s.query, s.result, s.queryJoin, 2))

JoinFirst(s) ==
  Profile("join_first", "pipeline", Exposure(s.query, s.queryJoin, s.result, TRUE),
          Metrics(s, s.queryJoin + s.result,
                  s.queryJoin * (Width.joined + s.width) + s.result * Width.masked,
                  s.query, s.result, s.queryJoin, 2))

PipelineProfiles(s) == {Fused(s), PolicyFirst(s), QueryFirst(s), JoinFirst(s)}

\* Where no checkpoint is required the fused plan is the conservative one.
PipelineFallback(policy) == IF policy.checkpoint THEN "policy_first" ELSE "fused"

PlanPipeline(s, policy) ==
  PlanCandidates(PipelineProfiles(s), policy, PipelineFallback(policy))

------------------------------------------------------------------------------
\* The governance checkpoint in front of a join.

ValidCheckpoint(s) ==
  /\ {s.input, s.width} \subseteq Nat \ {0}
  /\ {s.policy, s.query, s.result} \subseteq 0 .. s.input
  /\ s.result <= s.policy /\ s.result <= s.query

CheckpointWork(s, payload, rows, hash, breakers) ==
  [checkpoint_bytes |-> payload, checkpoint_rows |-> rows, breakers |-> breakers,
   hash_bytes |-> hash * s.width, hash_rows |-> hash]

(* The narrow checkpoint holds two keys and a bucket, the raw one two keys *)
(* and the value that the policy still has to see.                         *)
CheckpointProfiles(s) ==
  {Profile("fused", "checkpoint", Exposure(0, 0, 0, FALSE),
           CheckpointWork(s, 0, 0, s.input, 0)),
   Profile("policy_first", "checkpoint", Exposure(0, 0, 0, TRUE),
           CheckpointWork(s, s.policy * 24, s.policy, s.input, 1)),
   Profile("query_first", "checkpoint", Exposure(0, s.query, 0, TRUE),
           CheckpointWork(s, s.query * (Width.ids + s.width), s.query, s.query, 1))}

PlanCheckpoint(s, policy) ==
  PlanCandidates(CheckpointProfiles(s), policy, PipelineFallback(policy))

------------------------------------------------------------------------------
\* An aggregate before or after the join.

ValidAggregate(s) == s.rows > 0 /\ s.width > 0 /\ s.keys \in 1 .. s.rows

AggregateWork(s, input, payload, probe, breakers) ==
  [aggregate_rows |-> input, checkpoint_bytes |-> payload, checkpoint_rows |-> input,
   join_probe |-> probe, lineage_rows |-> s.rows, breakers |-> breakers]

\* Aggregating first joins one row per key and writes the partial groups too.
AggregateProfiles(s) ==
  LET written == s.rows * (Width.ids + s.width)
      exposure == Exposure(0, 0, s.rows, TRUE)
  IN  {Profile("join_then_aggregate", "aggregate", exposure,
               AggregateWork(s, s.rows, written, s.rows, 1)),
       Profile("partial_then_join", "aggregate", exposure,
               AggregateWork(s, s.rows + s.keys, written + s.keys * 24, s.keys, 2))}

NoRawJoin == [id |-> "no_raw_join", joined |-> 0, materialized |-> 0, checkpoint |-> TRUE]

PlanAggregate(s) ==
  PlanCandidates(AggregateProfiles(s), NoRawJoin, "join_then_aggregate")

------------------------------------------------------------------------------
\* Record lineage captured per query, per policy or once per snapshot.

ValidBatch(s) ==
  /\ s.input > 0 /\ s.queries > 0
  /\ s.policies \in 1 .. s.queries

LineageProfile(id, s, written, hashed, scanned, reread, breakers, checkpoint) ==
  Profile(id, "lineage", Exposure(0, 0, written, checkpoint),
          [checkpoint_bytes |-> written * 32, checkpoint_rows |-> written,
           checkpoint_scan |-> reread, hash_rows |-> hashed,
           output_edges |-> s.result, breakers |-> breakers, scan_rows |-> scanned])

LineageProfiles(s) ==
  {LineageProfile("late_per_query", s, 0, s.result, s.input * s.queries, 0, 0, FALSE),
   LineageProfile("policy_checkpoint", s, s.policyRows, s.policyRows,
                  s.input * s.policies, s.policyRows * s.queries, s.policies, TRUE),
   LineageProfile("snapshot_checkpoint", s, s.input, s.input, s.input,
                  s.input * s.queries, 1, TRUE)}
=============================================================================
