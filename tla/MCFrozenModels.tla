---------------------------- MODULE MCFrozenModels ----------------------------
(* Units of a thousand hundred rows whose three orders are fastest in turn; *)
(* two models that rank them, one by hashing and writing, one by hashing    *)
(* and probing with a large constant, so that its ties are close; and the   *)
(* requests that reach every reason a selector gives.                       *)
EXTENDS FrozenModels

Pipeline(rows, policy, query, governed, joined, result) ==
  [input |-> rows, policy |-> policy, query |-> query, governed |-> governed,
   queryJoin |-> joined, result |-> result, width |-> 128]

Even == Pipeline(1000, 400, 700, 280, 490, 196)
Selective == Pipeline(1000, 200, 800, 160, 560, 112)
Unselective == Pipeline(1000, 150, 900, 135, 810, 122)
Broad == Pipeline(1000, 600, 500, 300, 250, 150)
Large == Pipeline(2000, 800, 1400, 560, 980, 392)

Latency(policy, query, joined) ==
  [policy_first |-> policy, query_first |-> query, join_first |-> joined]

Group(scenario, seed, statistics, latency) ==
  [scenario |-> scenario, seed |-> seed, statistics |-> statistics, latency |-> latency]

\* One configuration: every fit has its tie and its preference.
Hashing == [intercept |-> 0, tie |-> 3, preferred |-> "join_first",
            rates |-> [hash_rows |-> 2, checkpoint_rows |-> 1]]

Probing == [intercept |-> 14000, tie |-> 3, preferred |-> "join_first",
            rates |-> [hash_rows |-> 1, join_probe |-> 2]]

MCModels == {Hashing, Probing}

Measured(role, groups) ==
  [role |-> role, status |-> "passed", clean |-> TRUE, carryover |-> TRUE,
   complete |-> TRUE, groups |-> groups]

Learned == {Group("a", 1, Even, Latency(110, 120, 100)),
            Group("b", 1, Selective, Latency(105, 130, 100)),
            Group("c", 1, Unselective, Latency(100, 110, 120)),
            Group("d", 1, Unselective, Latency(100, 112, 125))}

Development == Measured("development", Learned)

\* As fast in any order, or faster in the one no model would take.
Flat == {Group("a", 1, Even, Latency(100, 120, 101)),
         Group("b", 1, Selective, Latency(100, 130, 101)),
         Group("c", 1, Unselective, Latency(100, 110, 120))}

Seen == {Group("a", 1, Even, Latency(110, 120, 100)),
         Group("c", 1, Unselective, Latency(100, 110, 120)),
         Group("e", 1, Broad, Latency(120, 115, 100))}

RealGroups == {Group("c", 1, Unselective, Latency(100, 120, 101)),
               Group("e", 1, Broad, Latency(120, 100, 104))}

MCRuns ==
  {Development, [Development EXCEPT !.status = "failed"],
   Measured("holdout", Seen), Measured("holdout", Flat),
   [Measured("holdout", Seen) EXCEPT !.carryover = FALSE],
   [Measured("holdout", Seen) EXCEPT !.complete = FALSE],
   Measured("real", RealGroups), Measured("real", Seen),
   Measured("real", RealGroups \cup {Group("f", 1, Large, Latency(100, 110, 120))})}

Limits(joined, materialized, required) ==
  [id |-> "limits", joined |-> joined, materialized |-> materialized, checkpoint |-> required]

Regime(id, policy, legal) == [id |-> id, policy |-> policy, legal |-> legal]

MCRegimes == {Regime("strict", Limits(0, 0, TRUE), 1),
              Regime("no_raw_join", Limits(0, None, TRUE), 2),
              Regime("permissive", Limits(None, None, TRUE), 3)}

MCPrimary == "no_raw_join"

\* Everything is required, or nothing but an improvement.
Demanding == [hit |-> 75, mean |-> 20, p95 |-> 50, worst |-> 100, selected |-> 2,
              fallback |-> 10, singletons |-> 1, improvement |-> 10, requires |-> Requirements]

Lenient == [Demanding EXCEPT !.mean = 40, !.p95 = 100, !.requires = {}]

MCConfigurations == {Demanding, Lenient}

------------------------------------------------------------------------------
Filter(query, width) == [input |-> 1000, policy |-> 400, query |-> query, result |-> 100,
                         width |-> width]

Both(policy, query) == [policy_first |-> policy, query_first |-> query]

Features == {"narrow", "rows", "raw", "result", "hash"}

Bytes == [intercept |-> 0, tie |-> 5, preferred |-> "policy_first",
          order |-> <<"policy_first", "query_first">>,
          rates |-> [f \in Features |-> 1], bounds |-> [f \in Features |-> <<0, 300000>>]]

Unrated == [Bytes EXCEPT !.rates = [f \in Features \ {"raw"} |-> 1],
                         !.bounds = [f \in Features \ {"raw"} |-> <<0, 300000>>]]

Guard == [base |-> Bytes, bound |-> 40000, coverage |-> 95, families |-> 4]

Files(model, record, intact) == [model |-> model, guard |-> Guard, record |-> record, intact |-> intact]

Recording(model, passed, clean) == [model |-> model, passed |-> passed, clean |-> clean]

MCCheckpoints ==
  {Files(Bytes, Recording(Bytes, TRUE, TRUE), TRUE),
   Files(Bytes, Recording(Unrated, TRUE, TRUE), TRUE),
   Files(Unrated, Recording(Unrated, TRUE, TRUE), TRUE),
   Files(Bytes, Recording(Bytes, FALSE, TRUE), TRUE),
   Files(Bytes, Recording(Bytes, TRUE, TRUE), FALSE)}

Few == Both(110, 100)
Many == Both(100, 120)

CheckpointRun(role, groups, conclusions) ==
  [role |-> role, clean |-> TRUE, complete |-> TRUE, groups |-> groups, conclusions |-> conclusions]

Families(second) ==
  {Group("few", 1, Filter(250, 128), Few), Group("few", 2, Filter(second, 128), Few),
   Group("many", 1, Filter(700, 128), Many), Group("tied", 1, Filter(500, 128), Both(100, 101))}

Conclusions == [few |-> "left_slower", many |-> "left_faster", tied |-> "no_dominance"]

MCCheckpointRuns ==
  {CheckpointRun(role, Families(second), Conclusions) :
     role \in {"holdout", "real"}, second \in {260, 500}}
  \cup {CheckpointRun("real", {Group("many", 1, Filter(700, 1024), Many)},
                      [many |-> "left_faster"])}

------------------------------------------------------------------------------
PipelineRequest(statistics, policy) ==
  [selector |-> "pipeline", statistics |-> statistics, policy |-> policy]

CheckpointRequest(selector, statistics, policy, strategy) ==
  [selector |-> selector, statistics |-> statistics, policy |-> policy, strategy |-> strategy]

Adaptive == [minimum |-> 2, tie |-> 5, threshold |-> 50]

AdaptiveRequest(statistics, policy, blocks, interval) ==
  [selector |-> "adaptive", statistics |-> statistics, policy |-> policy,
   blocks |-> blocks, interval |-> interval, config |-> Adaptive]

Stage(rows, width, state) == [rows |-> rows, width |-> width, state |-> state]

Absent == Stage(0, 0, "plain")

\* Masks before a checkpoint and the join, or after both.
Early ==
  [id |-> "early", exposure |-> Exposure(0, 0, 100, TRUE), breakers |-> {"checkpoint"},
   modes |-> [mask |-> "streaming", aggregate |-> "none", sort |-> "none"],
   lineage |-> [rows |-> 50, edges |-> 100],
   stages |-> [g \in StageNames |->
     CASE g = "mask" -> Stage(100, 32, "raw") [] g = "masked_written" -> Stage(100, 64, "masked")
       [] g = "probe" -> Stage(100, 80, "masked") [] g = "output" -> Stage(50, 80, "masked")
       [] g = "result" -> Stage(50, 80, "masked") [] g = "scan" -> Stage(100, 48, "raw")
       [] OTHER -> Absent]]

Late ==
  [id |-> "late", exposure |-> Exposure(1, 100, 0, TRUE), breakers |-> {"checkpoint"},
   modes |-> [mask |-> "streaming", aggregate |-> "none", sort |-> "materialized"],
   lineage |-> [rows |-> 50, edges |-> 100],
   stages |-> [g \in StageNames |->
     CASE g = "mask" -> Stage(50, 32, "raw") [] g = "raw_written" -> Stage(100, 48, "raw")
       [] g = "probe" -> Stage(100, 48, "raw") [] g = "output" -> Stage(50, 48, "raw")
       [] g = "sort" -> Stage(50, 8, "plain")
       [] g = "result" -> Stage(50, 80, "masked") [] g = "scan" -> Stage(100, 48, "raw")
       [] OTHER -> Absent]]

Named == WorkNames(Early) \cup WorkNames(Late)

PerUnit == [intercept |-> 0, tie |-> 2, preferred |-> "early", order |-> <<"early">>,
            rates |-> [n \in Named |-> 1], bounds |-> [n \in Named |-> <<0, 100000>>]]

SpecRequest(specs, policy, model) ==
  [selector |-> "specs", specs |-> specs, policy |-> policy, model |-> model]

Required == Limits(None, None, TRUE)

MCRequests ==
  {PipelineRequest(s, p) :
     s \in {Even, Broad, Large}, p \in {Required, Limits(None, 500, TRUE)}}
  \cup {PipelineRequest(Even, p) : p \in {Limits(0, None, TRUE), Limits(None, None, FALSE)}}
  \cup {CheckpointRequest(selector, Filter(query, width), p, strategy) :
          selector \in {"checkpoint", "guarded"}, query \in {250, 400, 500},
          width \in {128, 1024}, p \in {Required, Limits(None, 0, TRUE)},
          strategy \in {"policy_first_fallback", "minimum_analytic_cost"}}
  \cup {AdaptiveRequest(Filter(query, 128), p, blocks, interval) :
          query \in {250, 700}, p \in {Required, Limits(None, 0, TRUE)},
          blocks \in {<<>>, <<1, 2>>, <<1, 1>>},
          interval \in {<<800, 900>>, <<1100, 1200>>, <<950, 1050>>}}
  \cup {SpecRequest(specs, p, m) :
          specs \in {{Early, Late}, {Late}},
          p \in {Required, Limits(0, None, TRUE), Limits(None, 60, TRUE)},
          m \in {PerUnit, [PerUnit EXCEPT !.bounds = [n \in Named |-> <<0, 100>>]],
                 [PerUnit EXCEPT !.rates = [n \in Named \ {<<"scan", "payload">>} |-> 1],
                                 !.bounds = [n \in Named \ {<<"scan", "payload">>} |-> <<0, 9>>]]}}

------------------------------------------------------------------------------
ASSUME ValidCheckpointUnits ==
  \A run \in MCCheckpointRuns : \A g \in run.groups : ValidCheckpoint(g.statistics)
=============================================================================
