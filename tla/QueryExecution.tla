--------------------------- MODULE QueryExecution ---------------------------
(***************************************************************************)
(* From a validated plan to its rows: candidates are generated, one is     *)
(* compiled to SQL (src/trustaero/execution/compiler.py) and DuckDB runs   *)
(* it.  The SQL of an operator is modelled by the rows it returns and by   *)
(* where its `?` stand: Marks in the text, Parameters in the tuple that is *)
(* bound to them.                                                          *)
(*                                                                         *)
(* A row maps fields to cells, a cell is a sequence: << >> is NULL, <<v>>  *)
(* a value.  DuckDB keeps the order of rows that no operator orders.  A    *)
(* filter keeps the values in keys, a join of method "left" keeps the left *)
(* rows that match nothing, a sort has one field.  Aggregates, locations   *)
(* and spatial joins have no rows here.                                    *)
(***************************************************************************)
EXTENDS PhysicalPlanner

CONSTANTS Plans,        \* the logical plans asked for
          Tables,       \* dataset -> its rows
          Rank(_),      \* the place of a cell in the order of cells
          MaxRank

VARIABLES pc,           \* "validated", "planned", "compiled", "executed" or "refused"
          plan,         \* the validated logical plan
          candidates,   \* the physical plans approved for it
          query,        \* the plan that was compiled
          rows          \* what the query returned

vars == <<pc, plan, candidates, query, rows>>

Fused == [mode |-> "fused", target |-> NoOperator, order |-> <<>>,
          mask |-> NoOperator, after |-> NoOperator]

Null == <<>>
-----------------------------------------------------------------------------
Masked(cell, method) ==
  CASE method = "redact" -> <<"[REDACTED]">>
    [] method = "null" -> Null
    [] method = "hash" -> IF cell = Null THEN Null ELSE <<"sha256">> \o cell

Keep(row, fields) == FoldSet(LAMBDA f, kept : (f :> row[f]) @@ kept, <<>>, fields)

MaskRow(row, op) == [f \in op.fields |-> Masked(row[f], op.method)] @@ row

InOrder(in, f) ==
  FlattenSeq([r \in 1 .. MaxRank |-> SelectSeq(in, LAMBDA row : Rank(row[f]) = r)])

\* NULL keys match nothing; a left join pads with NULL.
JoinRows(op, left, right, rightFields) ==
  LET Matches(row) == SelectSeq(right, LAMBDA other : /\ row[op.keys[1]] # Null
                                                      /\ row[op.keys[1]] = other[op.keys[2]])
      Joined(row) == [m \in DOMAIN Matches(row) |-> row @@ Matches(row)[m]]
      Padded == [f \in rightFields |-> Null]
  IN FlattenSeq([i \in DOMAIN left |->
       IF op.method = "left" /\ Matches(left[i]) = <<>> THEN <<left[i] @@ Padded>>
       ELSE Joined(left[i])])

RowsOf(tables, op, left, right, rightFields) ==
  CASE op.type = "ScanSource" -> tables[op.dataset]
    [] op.type = "Project" -> [i \in DOMAIN left |-> Keep(left[i], op.fields)]
    [] op.type = "Filter" ->
         SelectSeq(left, LAMBDA row : \A f \in op.fields :
                                        \E k \in DOMAIN op.keys : row[f] = <<op.keys[k]>>)
    [] op.type = "Sort" -> InOrder(left, CHOOSE f \in op.fields : TRUE)
    [] op.type = "Limit" -> SubSeq(left, 1, Min({op.amount, Len(left)}))
    [] op.type = "Join" -> JoinRows(op, left, right, rightFields)
    [] op.type = "Mask" -> [i \in DOMAIN left |-> MaskRow(left[i], op)]
    [] OTHER -> left

ResultOver(tables, p) ==
  LET schemas == Schemas(p)
      out[o \in Ids(p)] ==
        LET op == OperatorOf(p, o)
        IN RowsOf(tables, op, out[Head(op.inputs)], out[Last(op.inputs)],
                  IF op.type = "Join" THEN Names(schemas[op.inputs[2]]) ELSE {})
  IN out[p.output]

Result(p) == ResultOver(Tables, p)
-----------------------------------------------------------------------------
\* The `?` an operator's own SQL adds, one label for each.
Own(op) ==
  CASE op.type = "Filter" -> [k \in DOMAIN op.keys |-> <<op.id, k>>]
    [] op.type \in {"Limit"} -> <<<<op.id, 1>>>>
    [] op.type \in {"TemporalFilter", "SpatialJoin"} -> <<<<op.id, 1>>, <<op.id, 2>>>>
    [] op.type = "SpatialFilter" -> [k \in 1 .. 4 |-> <<op.id, k>>]
    [] op.type = "GeneralizeLocation" -> [k \in 1 .. 6 |-> <<op.id, k>>]
    [] op.type = "Mask" /\ op.method = "redact" ->
         [k \in 1 .. Cardinality(op.fields) |-> <<op.id, k>>]
    [] OTHER -> <<>>

\* Operators whose own `?` stand in the select list, before the input's text.
SelectListTypes == {"Mask", "GeneralizeLocation"}

(* In the text of the statement, and in the tuple of values.               *)
Placeholders(p, First(_)) ==
  LET marks[o \in Ids(p)] ==
        LET op  == OperatorOf(p, o)
            ins == FlattenSeq([j \in DOMAIN op.inputs |-> marks[op.inputs[j]]])
        IN IF First(op) THEN Own(op) \o ins ELSE ins \o Own(op)
  IN marks[p.output]

Marks(p) == Placeholders(p, LAMBDA op : op.type \in SelectListTypes)

Parameters(p) == Placeholders(p, LAMBDA op : FALSE)
-----------------------------------------------------------------------------
OfTypes(p, types) == {op.id : op \in {o \in Range(p.operators) : o.type \in types}}

Orders(ids) ==
  {order \in UNION {[1 .. n -> ids] : n \in 2 .. Cardinality(ids)} : IsInjective(order)}

\* Every strategy that PhysicalStrategySpec can be built with, but for fused.
Strategies(p) ==
  {[Fused EXCEPT !.mode = "materialized", !.target = o] : o \in Ids(p)}
  \cup {[Fused EXCEPT !.mode = "ordered_materialized", !.order = order] :
           order \in Orders(OfTypes(p, FilterTypes))}
  \cup {[Fused EXCEPT !.mode = mode, !.mask = m, !.after = a] :
           mode \in PlacementModes, m \in OfTypes(p, {"Mask"}),
           a \in OfTypes(p, {"Project", "Sort"})}

Init ==
  /\ pc = "validated"
  /\ plan \in {p \in Plans : ValidGraph(p) /\ TypeChecks(p, {})}
  /\ candidates = {}
  /\ query = plan
  /\ rows = <<>>

(* generate_duckdb_candidates: fused is always asked for, and one strategy *)
(* that is refused takes the others with it.                               *)
Generate(wanted) ==
  /\ pc = "validated"
  /\ IF \A s \in wanted \cup {Fused} : Approves(plan, s)
       THEN pc' = "planned" /\ candidates' = {Physical(plan, s) : s \in wanted \cup {Fused}}
       ELSE pc' = "refused" /\ UNCHANGED candidates
  /\ UNCHANGED <<plan, query, rows>>

Compile(physical) ==
  /\ pc = "planned"
  /\ IF Compiles(plan, physical)
       THEN pc' = "compiled" /\ query' = RunPlan(plan, physical)
       ELSE pc' = "refused" /\ UNCHANGED query
  /\ UNCHANGED <<plan, candidates, rows>>

Execute ==
  /\ pc = "compiled"
  /\ pc' = "executed"
  /\ rows' = Result(query)
  /\ UNCHANGED <<plan, candidates, query>>

Next ==
  \/ \E s \in Strategies(plan) : Generate({s})
  \/ Generate(Strategies(plan))
  \/ \E physical \in candidates : Compile(physical)
  \/ Execute

Spec == Init /\ [][Next]_vars
-----------------------------------------------------------------------------
\* A redacting mask taken below a left join, on the side that the join pads.
BelowPadding(p, s) ==
  /\ s.mode \in PlacementModes /\ OperatorOf(p, s.mask).method = "redact"
  /\ \E join \in OfTypes(p, {"Join"}) :
       LET right == OperatorOf(p, join).inputs[2]
       IN /\ OperatorOf(p, join).method = "left" /\ join \in Dag!Ancestors(DagOf(p), s.mask)
          /\ s.after \in {right} \cup Dag!Ancestors(DagOf(p), right)

\* The rows of the plan, but NULL for what a mask below the padding does not redact.
SameRows(p, s, result) ==
  \/ result = Result(p)
  \/ /\ BelowPadding(p, s) /\ Len(result) = Len(Result(p))
     /\ \A i \in DOMAIN result :
          /\ DOMAIN result[i] = DOMAIN Result(p)[i]
          /\ \A f \in DOMAIN result[i] :
               \/ result[i][f] = Result(p)[i][f]
               \/ f \in OperatorOf(p, s.mask).fields /\ result[i][f] = Null

(* However the physical planner reorders filters or moves a mask, the      *)
(* approved graph returns the rows of the validated plan, in their order.  *)
(* Where a redacting mask was moved below a left join that pads its field  *)
(* (physical.py:234), the padded cells may be NULL instead, and nothing    *)
(* else may differ.                                                        *)
CandidatesAgree ==
  pc = "planned" =>
    \A physical \in candidates :
      Dag!ValidPhysicalPlanDag(DagOf(physical.graph)) =>
        SameRows(plan, physical.strategy, Result(physical.graph))

(* The rows of an approved candidate are exactly the plan's; in no run,    *)
(* for the moves _placed_mask_specs permits leave padded cells NULL.       *)
CandidatesAgreeExactly ==
  pc = "planned" =>
    \A physical \in candidates :
      Dag!ValidPhysicalPlanDag(DagOf(physical.graph)) => Result(physical.graph) = Result(plan)

(* What is compiled and run has every governance operator of the validated *)
(* plan: a mask that planning left without a reader is never executed past,*)
(* and the rows are the plan's, but for the padded cells of a placement.   *)
ExecutedAsValidated ==
  pc = "executed" =>
    \E physical \in candidates :
      query = RunPlan(plan, physical) /\ SameRows(plan, physical.strategy, rows)

(* The values the driver binds are the values the text of the statement    *)
(* means: the n-th `?` is the n-th parameter.                              *)
BoundAsWritten == pc = "compiled" => Marks(query) = Parameters(query)
=============================================================================
