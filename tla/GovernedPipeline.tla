---------------------------- MODULE GovernedPipeline ----------------------------
(***************************************************************************)
(* One unit of the experiments that execute governed candidates: the SQL   *)
(* phases of every candidate run again and again on one DuckDB connection, *)
(* through temporary tables known by name.  Sources in src/trustaero/      *)
(* experiments: governed_pipeline_execution.py, governed_pipeline_         *)
(* admission.py, real_governed_pipeline_transfer.py ("pipeline" units) and *)
(* governed_checkpoint_reversal.py, real_governed_checkpoint_transfer.py   *)
(* ("checkpoint" units).                                                   *)
(*                                                                         *)
(* A table is a set of rows, a row a record of its columns; rows of a      *)
(* dimension with one key differ in their marker.  The engine is outside   *)
(* the code: whether EXPLAIN, or EXPLAIN ANALYZE, of a CREATE TABLE leaves *)
(* the table differs across versions and is fixed for a connection.        *)
(***************************************************************************)
EXTENDS CandidateSpaces, Sequences, SequencesExt

CONSTANTS
  Units,      \* [kind, native, events, lines, policy, query, width, declared, coverage]
  KeyDomain,  \* how many join keys are generated (the code has 10,000)
  MaxBlocks   \* measured blocks of a unit (the code has at least 30)

\* Events are numbered and name a key; a key of the dimension has a marker.
EventColumns == {"row_id", "sensitive_value", "join_key", "query_bucket"}

ASSUME UnitAssumption ==
  /\ KeyDomain \in Nat
  /\ \A u \in Units :
       /\ {"kind", "native", "events", "lines", "declared", "policy", "query"} \subseteq DOMAIN u
       /\ u.kind \in {"pipeline", "checkpoint"} /\ u.declared.match \in Nat
       /\ IsFiniteSet(u.events)
       /\ \A e \in u.events : e = [n \in EventColumns |-> e[n]] /\ e.row_id \in Int
       /\ \A e, f \in u.events : e.row_id = f.row_id => e = f
       /\ IsFiniteSet(u.lines) /\ u.lines \subseteq [dimension_key : Int, marker : Int]

VARIABLES
  unit,       \* the unit that runs
  engine,     \* [explain, analyze]: does it leave the table it explains?
  tables,     \* the temporary tables of the connection, by name
  stage,      \* "planned", "observe", "warmup", "measure", "written" or "raised"
  order,      \* the candidates that are left in the block
  block,      \* the evidence of the block that runs
  measured,   \* the measurements of the finished blocks
  done,       \* how many blocks are finished
  error       \* what was raised

unitVars == <<unit, engine, tables, stage, order, block, measured, done, error>>

Candidates(u) == IF u.kind = "pipeline" THEN <<"policy_first", "query_first", "join_first">>
                 ELSE <<"policy_first", "query_first">>

------------------------------------------------------------------------------
\* The relational operators of the SQL texts.

Columns(rows, names) == {[n \in names |-> r[n]] : r \in rows}

Permitted(rows) == {r \in rows : r.sensitive_value \in unit.policy}

Wanted(rows) == {r \in rows : r.query_bucket < unit.query}

\* The columns of two rows side by side.
Beside(r, s) == [n \in DOMAIN r \cup DOMAIN s |-> IF n \in DOMAIN r THEN r[n] ELSE s[n]]

Joined(rows, dimension) ==
  {Beside(pair[1], pair[2]) : pair \in {x \in rows \X dimension : x[1].join_key = x[2].dimension_key}}

Masked(rows) == {Beside(r, [masked_value |-> <<"md5", r.sensitive_value>>]) : r \in rows}

OutputColumns == {"row_id", "dimension_key", "marker", "masked_value"}

------------------------------------------------------------------------------
\* The phases of a candidate: what each table is created from.

Setup(u, c) ==
  CASE u.kind = "checkpoint" -> <<"governance_checkpoint">>
    [] u.kind = "pipeline" /\ c = "policy_first" -> <<"pipeline_checkpoint">>
    [] u.kind = "pipeline" /\ c = "query_first" ->
         <<"raw_query_checkpoint", "pipeline_checkpoint">>
    [] u.kind = "pipeline" /\ c = "join_first" ->
         <<"raw_join_checkpoint", "pipeline_checkpoint">>

\* The rows whose sensitive value the policy hashes.
PolicyInput(c, db) ==
  CASE c = "policy_first" -> unit.events
    [] c = "query_first" /\ unit.kind = "pipeline" -> db["raw_query_checkpoint"]
    [] c = "query_first" /\ unit.kind = "checkpoint" -> db["governance_checkpoint"]
    [] c = "join_first" -> db["raw_join_checkpoint"]

\* The rows that probe the dimension.
JoinInput(c, db) ==
  CASE c = "join_first" -> Wanted(unit.events)
    [] c = "policy_first" /\ unit.kind = "pipeline" -> Wanted(db["pipeline_checkpoint"])
    [] c = "query_first" /\ unit.kind = "pipeline" -> db["pipeline_checkpoint"]
    [] unit.kind = "checkpoint" -> db["governance_checkpoint"]

\* The columns a pipeline checkpoint keeps for what its candidate does next.
Kept(c) ==
  CASE c = "policy_first" -> {"row_id", "join_key", "query_bucket", "masked_value"}
    [] c = "query_first" -> {"row_id", "join_key", "masked_value"}
    [] c = "join_first" -> OutputColumns

\* The one row of counts and sums a checkpoint unit compares.
Sums(rows) ==
  [rows |-> Cardinality(rows),
   ids |-> SumFunction([r \in rows |-> r.row_id]),
   markers |-> SumFunction([r \in rows |-> r.marker])]

\* Mutant of Remaining: the narrow checkpoint's query predicate is forgotten.
RemainingPolicy(c, rows) == IF c = "policy_first" THEN rows ELSE Permitted(rows)

\* The predicate a checkpoint candidate left to the output query.
Remaining(c, rows) == IF c = "policy_first" THEN Wanted(rows) ELSE Permitted(rows)

Rows(c, table, db) ==
  CASE table = "raw_query_checkpoint" ->
         Columns(Wanted(unit.events), {"row_id", "join_key", "sensitive_value"})
    [] table = "raw_join_checkpoint" ->
         Columns(Joined(JoinInput(c, db), unit.dimension),
                 {"row_id", "dimension_key", "marker", "sensitive_value"})
    [] table = "pipeline_checkpoint" ->
         Columns(Masked(Permitted(PolicyInput(c, db))), Kept(c))
    [] table = "governance_checkpoint" /\ c = "policy_first" ->
         Columns(Permitted(PolicyInput(c, db)), {"row_id", "join_key", "query_bucket"})
    [] table = "governance_checkpoint" /\ c = "query_first" ->
         Columns(Wanted(unit.events), {"row_id", "join_key", "sensitive_value"})
    [] table = "governed_output" /\ unit.kind = "checkpoint" ->
         {Sums(Remaining(c, Joined(JoinInput(c, db), unit.dimension)))}
    [] table = "governed_output" /\ c = "join_first" ->
         Columns(db["pipeline_checkpoint"], OutputColumns)
    [] table = "governed_output" /\ unit.kind = "pipeline" /\ c # "join_first" ->
         Columns(Joined(JoinInput(c, db), unit.dimension), OutputColumns)

\* The temporary table a statement reads, events and dimension apart.
Reads(u, c, table) ==
  IF table = "governed_output" THEN {Last(Setup(u, c))}
  ELSE IF table # Last(Setup(u, c)) THEN {}
  ELSE {Setup(u, c)[i] : i \in 1 .. Len(Setup(u, c)) - 1}

------------------------------------------------------------------------------
\* Statements, run one after another until one raises.

Session == [db |-> tables, error |-> "none"]

Drop(s, names) ==
  IF s.error # "none" THEN s
  ELSE [s EXCEPT !.db = [t \in DOMAIN s.db \ names |-> s.db[t]]]

Failure(s, c, table) ==
  IF table \in DOMAIN s.db THEN "exists"
  ELSE IF ~(Reads(unit, c, table) \subseteq DOMAIN s.db) THEN "missing"
  ELSE "none"

Create(s, c, table) ==
  IF s.error # "none" THEN s
  ELSE IF Failure(s, c, table) # "none" THEN [s EXCEPT !.error = Failure(s, c, table)]
  ELSE [s EXCEPT !.db = [t \in DOMAIN s.db \cup {table} |->
                           IF t = table THEN Rows(c, table, s.db) ELSE s.db[t]]]

\* Explaining fails as the statement would and may leave its table behind.
Explain(s, c, table, leaves) ==
  LET run == Create(s, c, table)
  IN  IF leaves THEN run ELSE [s EXCEPT !.error = run.error]

CreateAll(s, c, names) ==
  LET after[n \in 0 .. Len(names)] ==
        IF n = 0 THEN s ELSE Create(after[n - 1], c, names[n])
  IN  after[Len(names)]

------------------------------------------------------------------------------
\* The three ways a candidate is run, and what each leaves of the tables.

Own(c) == ToSet(Setup(unit, c))

Everything == {"governed_output", "pipeline_checkpoint", "raw_query_checkpoint",
               "raw_join_checkpoint", "governance_checkpoint"}

\* Mutant of Leftovers: the list misses a table that one candidate creates.
LeftoversOfOthers == IF unit.kind = "pipeline"
                     THEN Everything \ {"governance_checkpoint", "raw_join_checkpoint"}
                     ELSE {"governed_output", "governance_checkpoint"}

\* The tables a run drops before it starts, so as not to meet its predecessor's.
Leftovers == IF unit.kind = "pipeline" THEN Everything \ {"governance_checkpoint"}
             ELSE {"governed_output", "governance_checkpoint"}

\* A pipeline phase is explained, its target dropped, and then run for the next.
Phase(s, c, table) ==
  Create(Drop(Explain(s, c, table, engine.explain), {table}), c, table)

ObservedPipeline(c) ==
  LET after[n \in 0 .. Len(Setup(unit, c))] ==
        IF n = 0 THEN Drop(Session, Own(c)) ELSE Phase(after[n - 1], c, Setup(unit, c)[n])
  IN  Drop(after[Len(Setup(unit, c))], Own(c))

(* A checkpoint candidate is profiled: its output phase reads the table    *)
(* that explaining the first one left.                                     *)
ProfiledCheckpoint(c) ==
  LET first == Explain(Drop(Session, Leftovers), c, "governance_checkpoint", engine.analyze)
  IN  Explain(first, c, "governed_output", engine.analyze)

Observed(c) == IF unit.kind = "pipeline" THEN ObservedPipeline(c) ELSE ProfiledCheckpoint(c)

\* Warm runs of a pipeline fetch the output query and drop only their tables.
Executed(c) ==
  IF unit.kind = "pipeline" /\ stage = "warmup"
  THEN CreateAll(Drop(Session, Own(c)), c, Setup(unit, c))
  ELSE CreateAll(Drop(Session, Leftovers), c, Append(Setup(unit, c), "governed_output"))

\* What the next run finds; a checkpoint unit leaves both its tables.
Left(s, c) ==
  IF s.error # "none" THEN tables
  ELSE IF unit.kind = "checkpoint" THEN s.db
  ELSE IF stage = "warmup" THEN Drop(s, Own(c)).db
  ELSE Drop(s, Leftovers).db

\* The answer as it is digested: ordered by row and key, free where both tie.
InOrder(answer) ==
  \A i, j \in 1 .. Len(answer) : i < j =>
    \/ answer[i].row_id < answer[j].row_id
    \/ /\ answer[i].row_id = answer[j].row_id
       /\ answer[i].dimension_key <= answer[j].dimension_key

Answers(rows) ==
  IF unit.kind = "checkpoint" THEN {SetToSeq(rows)}
  ELSE {answer \in SetToSeqs(rows) : InOrder(answer)}

With(rows, column) == {r \in rows : column \in DOMAIN r}

\* The rows of the tables a run created that still have a column.
Stored(s, c, column) ==
  SumFunction([t \in Own(c) |-> Cardinality(With(s.db[t], column))])

\* What the run did to the data, in the measures its profile declares.
Work(s, c) ==
  [raw_join |-> Cardinality(With(JoinInput(c, s.db), "sensitive_value")),
   raw_materialized |-> Stored(s, c, "sensitive_value"),
   masked_materialized |-> Stored(s, c, "masked_value"),
   checkpoint_rows |-> SumFunction([t \in Own(c) |-> Cardinality(s.db[t])]),
   join_probe |-> Cardinality(JoinInput(c, s.db)),
   hash_rows |-> Cardinality(PolicyInput(c, s.db))]

------------------------------------------------------------------------------
\* The data of a unit and what is counted of them.

Smaller(a, b) == IF a < b THEN a ELSE b

Larger(a, b) == IF a < b THEN b ELSE a

\* Rounding to the nearest, and to the even of two.
Round(n, d) ==
  LET q == n \div d
      r == n % d
  IN  IF 2 * r > d \/ (2 * r = d /\ q % 2 = 1) THEN q + 1 ELSE q

\* A generated dimension has the matching keys, at least one, each once.
GeneratedDimension(u) ==
  LET domain == Smaller(Cardinality(u.events), KeyDomain)
      matching == Larger(1, Round(domain * u.declared.match, 10))
  IN  {[dimension_key |-> k, marker |-> k % 97] : k \in 0 .. matching - 1}

(* A real pipeline unit keeps whole keys of its native dimension, in the   *)
(* order of a hash, until the events that have them reach the coverage.    *)
Selected(u, keys) ==
  LET target == Round(Cardinality(u.events) * u.coverage, 10)
      before(i) == {e \in u.events : e.join_key \in ToSet(SubSeq(keys, 1, i - 1))}
  IN  {keys[i] : i \in {j \in 1 .. Len(keys) : Cardinality(before(j)) < target}}

Dimensions(u) ==
  IF ~u.native THEN {GeneratedDimension(u)}
  ELSE IF u.kind = "checkpoint" THEN {u.lines}
  ELSE {{d \in u.lines : d.dimension_key \in Selected(u, keys)} :
          keys \in SetToSeqs({e.join_key : e \in u.events})}

Keys(u) == {d.dimension_key : d \in u.dimension}

Matches(u, e) == {d \in u.dimension : d.dimension_key = e.join_key}

(* A real checkpoint unit counts the rows of a left join: an event as      *)
(* often as its key is in the dimension, and once where it is not.         *)
Multiplicity(u, e) ==
  IF u.kind = "checkpoint" /\ u.native /\ Matches(u, e) # {} THEN Cardinality(Matches(u, e)) ELSE 1

Counted(u, rows) == SumFunction([e \in rows |-> Multiplicity(u, e)])

Statistics(u) ==
  LET policy == {e \in u.events : e.sensitive_value \in u.policy}
      query == {e \in u.events : e.query_bucket < u.query}
      joining == {e \in u.events : e.join_key \in Keys(u)}
  IN  [input |-> Cardinality(u.events), policy |-> Counted(u, policy), query |-> Counted(u, query),
       governed |-> Counted(u, policy \cap query), queryJoin |-> Counted(u, query \cap joining),
       result |-> Counted(u, policy \cap query \cap joining), width |-> u.width]

CheckpointRequired ==
  [id |-> "checkpoint_required", joined |-> None, materialized |-> None, checkpoint |-> TRUE]

AllSurvive(u, s) ==
  PlanPipeline(s, CheckpointRequired).nondominated = ToSet(Candidates(u))

\* The counts that the declared tenths of policy, query and match amount to.
DeclaredStatistics(u) ==
  LET n == Cardinality(u.events)
      d == u.declared
  IN  [input |-> n, policy |-> Round(n * d.policy, 10), query |-> Round(n * d.query, 10),
       governed |-> Round(n * d.policy * d.query, 100),
       queryJoin |-> Round(n * d.query * d.match, 100),
       result |-> Round(n * d.policy * d.query * d.match, 1000), width |-> u.width]

\* A real pipeline unit must join between half and nine tenths of its rows.
RateSupported(s) ==
  LET rows == IF s.query = 0 THEN 1 ELSE s.query
  IN  10 * s.queryJoin \in 5 * rows .. 9 * rows

\* The strict policy must leave policy-first alone, the permissive one both.
CheckpointDistinguished(s) ==
  LET exposed == {p \in CheckpointProfiles(s) : p.id # "fused"}
      strict == [CheckpointRequired EXCEPT !.materialized = 0]
  IN  /\ Ids(FeasibleCandidates(exposed, CheckpointRequired)) = Ids(exposed)
      /\ Ids(FeasibleCandidates(exposed, strict)) = {"policy_first"}

Acceptable(u, s) ==
  IF u.kind = "checkpoint" THEN CheckpointDistinguished(s)
  ELSE /\ IF u.native THEN RateSupported(s) ELSE AllSurvive(u, DeclaredStatistics(u))
       /\ ValidStatistics(s)
       /\ AllSurvive(u, s)

------------------------------------------------------------------------------
\* A unit: data, plan, then observation, warm blocks and measured blocks.

UnitInit ==
  /\ \E u \in Units : \E dimension \in Dimensions(u) :
       unit = [f \in DOMAIN u \cup {"dimension"} |-> IF f = "dimension" THEN dimension ELSE u[f]]
  /\ engine \in [explain : BOOLEAN, analyze : BOOLEAN]
  /\ tables = <<>> /\ stage = "planned" /\ order = <<>>
  /\ block = <<>> /\ measured = {} /\ done = 0 /\ error = "none"

Raise(reason) ==
  /\ stage' = "raised" /\ error' = reason
  /\ UNCHANGED <<unit, engine, tables, order, block, measured, done>>

\* Plan the unit; a candidate space that collapsed is not timed.
PlanUnit ==
  /\ stage = "planned" /\ Acceptable(unit, Statistics(unit))
  /\ stage' = "observe" /\ order' = Candidates(unit)
  /\ UNCHANGED <<unit, engine, tables, block, measured, done, error>>

Reject ==
  /\ stage = "planned" /\ ~Acceptable(unit, Statistics(unit))
  /\ Raise("rejected")

\* Each plan is observed once, in the order of the configuration.
Observe ==
  /\ stage = "observe" /\ order # <<>>
  /\ LET s == Observed(Head(order))
     IN  IF s.error # "none" THEN Raise(s.error)
         ELSE /\ tables' = s.db /\ order' = Tail(order)
              /\ UNCHANGED <<unit, engine, stage, block, measured, done, error>>

\* Run the next candidate of the block and keep its answer.
Run ==
  /\ stage \in {"warmup", "measure"} /\ order # <<>>
  /\ LET c == Head(order)
         s == Executed(c)
     IN  IF s.error # "none" THEN Raise(s.error)
         ELSE \E answer \in Answers(Rows(c, "governed_output", s.db)) :
                /\ block' = Append(block, [candidate |-> c, answer |-> answer, work |-> Work(s, c)])
                /\ tables' = Left(s, c) /\ order' = Tail(order)
                /\ UNCHANGED <<unit, engine, stage, measured, done, error>>

\* A statement may fail at any time: memory is bounded.  The unit is lost.
StatementFails ==
  /\ stage \in {"observe", "warmup", "measure"} /\ order # <<>>
  /\ Raise("statement")

Answered == {e.answer : e \in ToSet(block)}

\* Only the warm runs of a checkpoint unit are not compared.
Agreed ==
  \/ Cardinality(Answered) = 1
  \/ unit.kind = "checkpoint" /\ stage = "warmup"

\* The next block, in any order of the candidates.
StartBlock(next) ==
  /\ order' \in SetToSeqs(ToSet(Candidates(unit)))
  /\ stage' = next /\ block' = <<>>
  /\ UNCHANGED <<unit, engine, tables, error>>

\* The observed plans differ, or the unit is given up.
EndObservation ==
  /\ stage = "observe" /\ order = <<>>
  /\ \/ StartBlock("warmup") /\ UNCHANGED <<measured, done>>
     \/ Raise("plans")

EndWarmup ==
  /\ stage = "warmup" /\ order = <<>>
  /\ IF Agreed THEN StartBlock("measure") /\ UNCHANGED <<measured, done>>
     ELSE Raise("mismatch")

EndBlock ==
  /\ stage = "measure" /\ order = <<>>
  /\ IF ~Agreed THEN Raise("mismatch")
     ELSE /\ measured' = measured \cup ToSet(block) /\ done' = done + 1
          /\ IF done + 1 < MaxBlocks THEN StartBlock("measure")
             ELSE /\ stage' = "written"
                  /\ UNCHANGED <<unit, engine, tables, order, block, error>>

UnitNext == \/ PlanUnit \/ Reject \/ Observe \/ Run \/ StatementFails
            \/ EndObservation \/ EndWarmup \/ EndBlock

UnitSpec == UnitInit /\ [][UnitNext]_unitVars

------------------------------------------------------------------------------
UniqueKeys == Cardinality(Keys(unit)) = Cardinality(unit.dimension)

\* The governed query itself: the rows policy and query admit, joined, masked.
Governed ==
  {[row_id |-> x[1].row_id, dimension_key |-> x[2].dimension_key, marker |-> x[2].marker,
    masked_value |-> <<"md5", x[1].sensitive_value>>] :
     x \in {y \in unit.events \X unit.dimension :
              /\ y[1].sensitive_value \in unit.policy /\ y[1].query_bucket < unit.query
              /\ y[1].join_key = y[2].dimension_key}}

(* No run meets a table of the one before it or misses one of its own,     *)
(* whichever candidates ran, in whichever order, and whatever explaining   *)
(* left: _drop_tables, _drop_execution_tables and the drops of             *)
(* observe_governed_pipeline_plan.  A checkpoint unit asks more of the     *)
(* engine: EXPLAIN ANALYZE has to leave the table it explains.             *)
NoStatementFails ==
  error \in {"exists", "missing"} => unit.kind = "checkpoint" /\ ~engine.analyze

(* Candidates are equivalent: a dimension with unique keys never fails the *)
(* comparison of result digests, and what a unit writes is the governed    *)
(* answer, for every candidate (build_executable_governed_pipeline,        *)
(* _candidate_sql, the digests compared in _run_unit).                     *)
SameAnswer ==
  /\ UniqueKeys => error # "mismatch"
  /\ stage = "written" => \A e \in measured :
       IF unit.kind = "pipeline" THEN ToSet(e.answer) = Governed
       ELSE e.answer = <<Sums(Governed)>>

(* What the planner decided from is what execution did: the exposure and   *)
(* the row counts declared for a candidate from the counted cardinalities  *)
(* (build_governed_pipeline_candidates, _feasibility) are those of the     *)
(* tables its SQL really wrote, joined and hashed.                         *)
WorkAsDeclared ==
  \A e \in ToSet(block) : UniqueKeys =>
    LET s == Statistics(unit)
        profiles == IF unit.kind = "pipeline" THEN PipelineProfiles(s) ELSE CheckpointProfiles(s)
        p == CHOOSE x \in profiles : x.id = e.candidate
    IN  /\ \A m \in {"raw_materialized", "masked_materialized"} : e.work[m] = p.exposure[m]
        /\ unit.kind = "pipeline" => e.work.raw_join = p.exposure.raw_join
        /\ \A m \in {"checkpoint_rows", "join_probe", "hash_rows"} :
             m \in DOMAIN p.work => e.work[m] = p.work[m]
=============================================================================
