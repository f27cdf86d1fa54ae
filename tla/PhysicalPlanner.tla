--------------------------- MODULE PhysicalPlanner ---------------------------
(***************************************************************************)
(* Physical planning of a validated logical plan for DuckDB                *)
(* (src/trustaero/planner/physical.py and candidates.py) and the schema    *)
(* and shape checks of the compiler (src/trustaero/execution/compiler.py). *)
(*                                                                         *)
(* A physical operator stands for one logical operator under a prefixed    *)
(* id, so a physical plan is written with the logical ids: a plan whose    *)
(* operators may have other inputs, and its strategy.  A strategy is       *)
(* [mode, target, order, mask, after]; what a mode does not use is left at *)
(* NoOperator or << >>.                                                    *)
(***************************************************************************)
EXTENDS TypeChecker, FiniteSets

CONSTANT NoOperator     \* no operator id

FilterTypes == {"Filter", "SpatialFilter", "TemporalFilter"}

PlacementModes == {"governance_placed", "governance_placed_materialized"}

\* Where an operator's output is read: operator index and input position.
Uses(plan, o) ==
  {use \in (DOMAIN plan.operators) \X {1, 2} :
     use[2] \in DOMAIN plan.operators[use[1]].inputs
       /\ plan.operators[use[1]].inputs[use[2]] = o}

Reader(plan, use) == plan.operators[use[1]].id

\* The plan with each operator's inputs replaced.
Rewired(plan, NewInputs(_)) ==
  [plan EXCEPT !.operators =
     [k \in DOMAIN plan.operators |->
        [plan.operators[k] EXCEPT !.inputs = NewInputs(plan.operators[k])]]]

Replace(inputs, old, new) == [j \in DOMAIN inputs |-> IF inputs[j] = old THEN new ELSE inputs[j]]
-----------------------------------------------------------------------------
\* Selected filters that no selected filter reads.
Tails(plan, selected) ==
  {o \in selected : \A use \in Uses(plan, o) : Reader(plan, use) \notin selected}

Heads(plan, selected) == {o \in selected : OperatorOf(plan, o).inputs[1] \notin selected}

Outside(plan, selected) ==
  {use \in UNION {Uses(plan, o) : o \in selected} : Reader(plan, use) \notin selected}

(* The order names one complete, unbranched chain of filters, read by one  *)
(* operator, with no filter directly above or below it.                    *)
OneFilterChain(plan, order) ==
  LET selected == ToSet(order)
  IN /\ selected \subseteq Ids(plan)
     /\ \A o \in selected : OperatorOf(plan, o).type \in FilterTypes
     /\ Cardinality(Heads(plan, selected)) = 1
     /\ Cardinality(Outside(plan, selected)) = 1
     /\ Cardinality(Tails(plan, selected)) = 1
     /\ \A o \in selected :
          Cardinality({use \in Uses(plan, o) : Reader(plan, use) \in selected}) <= 1
     /\ \A use \in Outside(plan, selected) : plan.operators[use[1]].type \notin FilterTypes
     /\ \A o \in Heads(plan, selected) :
          OperatorOf(plan, OperatorOf(plan, o).inputs[1]).type \notin FilterTypes

(* The chain in the order given; whoever read its old last filter reads    *)
(* its new one.                                                            *)
OrderedFilters(plan, order) ==
  LET selected == ToSet(order)
      root == OperatorOf(plan, CHOOSE o \in Heads(plan, selected) : TRUE).inputs[1]
      out  == CHOOSE use \in Outside(plan, selected) : TRUE
      tail == plan.operators[out[1]].inputs[out[2]]
      Before(o) == CHOOSE k \in DOMAIN order : order[k] = o
      NewInputs(op) ==
        IF op.id \in selected
          THEN <<IF Before(op.id) = 1 THEN root ELSE order[Before(op.id) - 1]>>
          ELSE Replace(op.inputs, tail, Last(order))
  IN Rewired(plan, NewInputs)
-----------------------------------------------------------------------------
\* The only reader of o, or o itself when it has none or several.
OnlyReader(plan, o) ==
  IF Cardinality(Uses(plan, o)) = 1
    THEN Reader(plan, CHOOSE use \in Uses(plan, o) : TRUE)
    ELSE o

(* From o downstream while the output of the operator is read exactly      *)
(* once.                                                                   *)
WalkDown(plan, o) ==
  LET down[n \in 0 .. Len(plan.operators)] ==
        IF n = 0 THEN o ELSE OnlyReader(plan, down[n - 1])
  IN down

\* The operators strictly between the target and the mask on that walk.
Crossed(plan, mask, after) ==
  LET down == WalkDown(plan, after)
      stop == CHOOSE n \in DOMAIN down : down[n] = mask /\ \A m \in 0 .. n - 1 : down[m] # mask
  IN {OperatorOf(plan, down[m]) : m \in 1 .. stop - 1}

\* Mutant of MayCross: a join may be crossed whatever its keys are.
MayCrossAnyJoin(op, fields) ==
  \/ op.type = "Project" /\ fields \subseteq op.fields
  \/ op.type = "Join"
  \/ op.type = "Sort" /\ fields \cap op.fields = {}

MayCross(op, fields) ==
  \/ op.type = "Project" /\ fields \subseteq op.fields
  \/ op.type = "Join" /\ fields \cap ToSet(op.keys) = {}
  \/ op.type = "Sort" /\ fields \cap op.fields = {}

MaskMayMove(plan, mask, after) ==
  /\ {mask, after} \subseteq Ids(plan)
  /\ OperatorOf(plan, mask).type = "Mask"
  /\ OperatorOf(plan, after).type = "Project"
  /\ OperatorOf(plan, mask).fields \subseteq OperatorOf(plan, after).fields
  /\ mask \in Range(WalkDown(plan, after))
  /\ \A op \in Crossed(plan, mask, after) : MayCross(op, OperatorOf(plan, mask).fields)
  /\ Cardinality(Uses(plan, mask)) <= 1

(* The mask right after its target; the reader of the target reads the     *)
(* mask, and the reader of the mask, or the plan's output, takes what the  *)
(* mask used to read.                                                      *)
PlacedMask(plan, mask, after) ==
  LET original == OperatorOf(plan, mask).inputs[1]
      readers(o) == {Reader(plan, use) : use \in Uses(plan, o)}
      NewInputs(op) ==
        CASE op.id = mask -> <<after>>
          [] op.id # mask /\ op.id \in readers(after) -> Replace(op.inputs, after, mask)
          [] op.id # mask /\ op.id \notin readers(after) /\ op.id \in readers(mask) ->
               Replace(op.inputs, mask, original)
          [] OTHER -> op.inputs
  IN [Rewired(plan, NewInputs) EXCEPT
        !.output = IF plan.output = mask THEN original ELSE plan.output]
-----------------------------------------------------------------------------
\* Operators with no DuckDB implementation: guards, and record lineage.
Unimplemented(plan) ==
  {op \in Range(plan.operators) :
     op.type = "MinGroupSize" \/ (op.type = "LineageCapture" /\ op.amount # 1)}

(* plan_physical_execution and generate_duckdb_candidates let the strategy *)
(* through.                                                                *)
Approves(plan, s) ==
  /\ s.mode = "materialized" => s.target \in Ids(plan) \ {plan.output}
  /\ s.mode = "ordered_materialized" => OneFilterChain(plan, s.order)
  /\ s.mode \in PlacementModes => MaskMayMove(plan, s.mask, s.after)
  /\ Unimplemented(plan) = {}

PhysicalGraph(plan, s) ==
  CASE s.mode = "ordered_materialized" -> OrderedFilters(plan, s.order)
    [] s.mode \in PlacementModes -> PlacedMask(plan, s.mask, s.after)
    [] OTHER -> plan
-----------------------------------------------------------------------------
NoScan == "no scan"

(* _single_scan_ancestor.  An input for which there is no single scan is   *)
(* left out, as if it had none.                                            *)
SingleScan(plan) ==
  LET single[o \in Ids(plan)] ==
        LET op    == OperatorOf(plan, o)
            scans == {single[op.inputs[j]] : j \in DOMAIN op.inputs} \ {NoScan}
        IN IF op.type = "ScanSource" THEN op.dataset
           ELSE IF Cardinality(scans) = 1 THEN CHOOSE scan \in scans : TRUE ELSE NoScan
  IN single

\* What _compile_operator refuses although it type checks.
Lowers(plan, schemas, op) ==
  /\ op.type = "SpatialFilter" =>
       /\ SingleScan(plan)[op.id] # NoScan
       /\ Catalog[SingleScan(plan)[op.id]].spatial # {}
  /\ op.type = "GeneralizeLocation" => op.fields \in schemas[op.inputs[1]].spatial
  /\ op.type = "LineageCapture" => op.amount = 1
  /\ op.type # "MinGroupSize"

\* An approved physical plan: a strategy and the graph planned for it.
Physical(plan, s) == [strategy |-> s, graph |-> PhysicalGraph(plan, s)]

RunPlan(plan, physical) ==
  IF physical.strategy.mode \in PlacementModes THEN physical.graph ELSE plan

Lowered(run) ==
  LET schemas == Schemas(run)
  IN /\ TypeChecks(run, {})
     /\ \A op \in Range(run.operators) : Lowers(run, schemas, op)

\* Mutant of Compiles: the structural check is left out.
CompilesUnchecked(plan, physical) ==
  /\ physical.strategy.mode # "ordered_materialized"
  /\ physical.strategy.mode \in PlacementModes =>
       physical = Physical(plan, physical.strategy)
  /\ Lowered(RunPlan(plan, physical))

(* compile_approved_physical_plan accepts: the structural check, no        *)
(* ordered filters, a placement that planning again gives again, and the   *)
(* schemas derived again.                                                  *)
Compiles(plan, physical) ==
  /\ physical.strategy.mode # "ordered_materialized"
  /\ Dag!ValidPhysicalPlanDag(DagOf(physical.graph))
  /\ physical.strategy.mode \in PlacementModes =>
       physical = Physical(plan, physical.strategy)
  /\ Lowered(RunPlan(plan, physical))
=============================================================================
