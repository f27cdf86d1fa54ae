----------------------------- MODULE TypeChecker -----------------------------
(***************************************************************************)
(* Schema inference over a logical plan (src/trustaero/validator/          *)
(* type_checker.py).  A schema is [ok, fields, spatial]: fields maps names *)
(* to [kind, roles, state, precision], spatial holds the coordinate pairs  *)
(* that survive.  Left out: repeated names in a field list, coordinate     *)
(* reference systems, time ranges, literals of the wrong type, decimals    *)
(* and aggregates of products; an Aggregate has one expression.            *)
(***************************************************************************)
EXTENDS LogicalPlan

CONSTANTS Catalog,     \* dataset -> [versions, default, fields, spatial]
          NoSnapshot,  \* a scan that asks for no particular version
          NoField      \* the input of count(*)

Failed == [ok |-> FALSE, fields |-> <<>>, spatial |-> {}]

Schema(fields, spatial) == [ok |-> TRUE, fields |-> fields, spatial |-> spatial]

Names(s) == DOMAIN s.fields

\* Mutant of Raw: masked fields are not told apart.
Present(s, f) == f \in Names(s)

\* Present and not masked: usable for its value (_raw_value_required).
Raw(s, f) == f \in Names(s) /\ s.fields[f].state = "raw"

Project(s, kept) ==
  Schema([f \in kept |-> s.fields[f]], {pair \in s.spatial : pair \subseteq kept})

Merge(l, r) ==
  Schema([f \in Names(l) \cup Names(r) |->
            IF f \in Names(l) THEN l.fields[f] ELSE r.fields[f]],
         l.spatial \cup r.spatial)

Numeric == {"integer", "float"}

Count == [kind |-> "integer", roles |-> {}, state |-> "raw", precision |-> 0]

(* What an aggregate function makes of a field: a new raw field.           *)
AggregateKind(function, s, input) ==
  IF function = "count" THEN "integer"
  ELSE IF function = "avg" THEN "float"
  ELSE IF s.fields[input].kind = "float" THEN "float" ELSE "integer"

AcceptsAggregate(op, s) ==
  LET input == op.keys[1]
      alias == op.keys[2]
  IN /\ alias \notin op.fields
     /\ \A f \in op.fields : Raw(s, f)
     /\ IF input = NoField THEN op.method = "count"
        ELSE /\ Raw(s, input)
             /\ op.method \in {"sum", "avg"} => s.fields[input].kind \in Numeric
             /\ op.method \in {"min", "max"} =>
                  s.fields[input].kind \in Numeric \cup {"datetime"}

MaskState(method) ==
  CASE method = "redact" -> "redacted"
    [] method = "hash" -> "hashed"
    [] method = "null" -> "nullified"

MaskField(info, method) ==
  [kind |-> IF method = "null" THEN info.kind ELSE "string",
   roles |-> {}, state |-> MaskState(method), precision |-> 0]

AcceptsJoin(op, l, r) ==
  /\ Raw(l, op.keys[1]) /\ Raw(r, op.keys[2])
  /\ l.fields[op.keys[1]].kind = r.fields[op.keys[2]].kind
  /\ Names(l) \cap Names(r) = {}

AcceptsSpatialJoin(op, l, r) ==
  /\ \E pair \in l.spatial, other \in r.spatial : op.fields = pair \cup other
  /\ Names(l) \cap Names(r) = {}

\* A whole coordinate pair is generalized, and nothing that is not a coordinate.
AcceptsGeneralize(op, s) ==
  /\ op.fields \subseteq Names(s)
  /\ \E pair \in s.spatial : pair \subseteq op.fields
  /\ \A f \in op.fields : "spatial" \in s.fields[f].roles

AcceptsMask(op, s) ==
  /\ op.fields \subseteq Names(s)
  /\ op.method = "hash" => \A f \in op.fields : s.fields[f].kind = "string"

Grouped(op, s) ==
  LET groups == Project(s, op.fields)
      result == [Count EXCEPT !.kind = AggregateKind(op.method, s, op.keys[1])]
  IN Schema([f \in Names(groups) \cup {op.keys[2]} |->
               IF f \in Names(groups) THEN groups.fields[f] ELSE result],
            groups.spatial)

\* The operator's precision replaces the field's, finer or coarser.
WithPrecision(op, s) ==
  Schema([f \in Names(s) |->
            IF f \in op.fields THEN [s.fields[f] EXCEPT !.precision = op.amount]
            ELSE s.fields[f]],
         s.spatial)

\* A pair that lost a coordinate to a mask is no longer spatial.
WithMask(op, s) ==
  Schema([f \in Names(s) |->
            IF f \in op.fields THEN MaskField(s.fields[f], op.method) ELSE s.fields[f]],
         {pair \in s.spatial : pair \cap op.fields = {}})

OperatorType ==
  {"ScanSource", "Project", "Sort", "Filter", "SpatialFilter", "TemporalFilter", "Join",
   "SpatialJoin", "Aggregate", "GeneralizeLocation", "Mask", "Limit", "MinGroupSize",
   "LineageCapture"}

\* The transfer rule of op takes input schemas ins (ins[2] only for joins).
Accepts(op, ins) ==
  CASE op.type = "ScanSource" ->
         /\ op.dataset \in DOMAIN Catalog
         /\ op.snapshot \in Catalog[op.dataset].versions \cup {NoSnapshot}
    [] op.type = "Project" -> op.fields \subseteq Names(ins[1])
    [] op.type \in {"Sort", "Filter"} -> \A f \in op.fields : Raw(ins[1], f)
    [] op.type = "SpatialFilter" -> ins[1].spatial # {}
    [] op.type = "TemporalFilter" ->
         \A f \in op.fields : /\ f \in Names(ins[1])
                              /\ ins[1].fields[f].kind = "datetime"
                              /\ "temporal" \in ins[1].fields[f].roles
    [] op.type = "Join" -> AcceptsJoin(op, ins[1], ins[2])
    [] op.type = "SpatialJoin" -> AcceptsSpatialJoin(op, ins[1], ins[2])
    [] op.type = "Aggregate" -> AcceptsAggregate(op, ins[1])
    [] op.type = "GeneralizeLocation" -> AcceptsGeneralize(op, ins[1])
    [] op.type = "Mask" -> AcceptsMask(op, ins[1])
    [] op.type \in {"Limit", "MinGroupSize", "LineageCapture"} -> TRUE

Output(op, ins) ==
  CASE op.type = "ScanSource" ->
         Schema(Catalog[op.dataset].fields, Catalog[op.dataset].spatial)
    [] op.type = "Project" -> Project(ins[1], op.fields)
    [] op.type \in {"Join", "SpatialJoin"} -> Merge(ins[1], ins[2])
    [] op.type = "Aggregate" -> Grouped(op, ins[1])
    [] op.type = "GeneralizeLocation" -> WithPrecision(op, ins[1])
    [] op.type = "Mask" -> WithMask(op, ins[1])
    [] OTHER -> ins[1]

(* Schemas of all operators of a plan whose graph is valid.  An operator   *)
(* whose upstream failed is skipped, which is a failure here too.          *)
Schemas(plan) ==
  LET infer[o \in Ids(plan)] ==
        LET op  == OperatorOf(plan, o)
            ins == [k \in DOMAIN op.inputs |-> infer[op.inputs[k]]]
        IN IF (\A k \in DOMAIN ins : ins[k].ok) /\ Accepts(op, ins)
             THEN Output(op, ins)
             ELSE Failed
  IN infer

(* type_check_plan has no diagnostic: every operator has a schema and the  *)
(* requested fields survive to the output.                                 *)
TypeChecks(plan, requested) ==
  LET schemas == Schemas(plan)
  IN /\ \A o \in Ids(plan) : schemas[o].ok
     /\ requested \subseteq Names(schemas[plan.output])
=============================================================================
