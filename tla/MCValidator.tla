----------------------------- MODULE MCValidator -----------------------------
(* Two datasets, plans of up to four operators over them, and policy sets  *)
(* of one or two rules over a pool of obligations.                         *)
EXTENDS Validator

Info(kind, roles) == [kind |-> kind, roles |-> roles, state |-> "raw", precision |-> 0]

VisitsAndSites ==
  [visits |-> [versions |-> {"v1", "v2"}, default |-> "v2",
               fields |-> [name |-> Info("string", {}),
                           day  |-> Info("datetime", {"temporal"}),
                           lat  |-> Info("float", {"spatial"}),
                           lon  |-> Info("float", {"spatial"})],
               spatial |-> {{"lat", "lon"}}],
   sites  |-> [versions |-> {"v1"}, default |-> "v1",
               fields |-> [site |-> Info("string", {}),
                           slat |-> Info("float", {"spatial"}),
                           slon |-> Info("float", {"spatial"})],
               spatial |-> {{"slat", "slon"}}]]

Node(type, fields) ==
  [id |-> <<0, "op", 0>>, type |-> type, inputs |-> <<>>, dataset |-> NoField,
   snapshot |-> NoSnapshot, fields |-> fields, keys |-> <<>>, method |-> NoMethod,
   amount |-> 0]

At(node, k, inputs) == [node EXCEPT !.id = <<0, "op", k>>, !.inputs = inputs]
Scan(dataset) == [Node("ScanSource", {}) EXCEPT !.dataset = dataset]
ScanOf(dataset, version) == [Scan(dataset) EXCEPT !.snapshot = version]
MaskWith(fields, method) == [Node("Mask", fields) EXCEPT !.method = method]
Grid(fields, km) ==
  [Node("GeneralizeLocation", fields) EXCEPT !.amount = km, !.method = "fixed_grid"]
GroupBy(fields, method, input, alias) ==
  [Node("Aggregate", fields) EXCEPT !.method = method, !.keys = <<input, alias>>]
Joined(l, r) == [Node("Join", {}) EXCEPT !.keys = <<l, r>>]
Guard(n) == [Node("MinGroupSize", {}) EXCEPT !.amount = n]
Capture(level) == [Node("LineageCapture", {}) EXCEPT !.amount = level]

Coordinates == {"lat", "lon"}

Steps ==
  {Node("Project", {"name"}), Node("Project", {"name", "lat", "lon"}),
   Node("Filter", {"name"}), Node("Sort", {"lat"}), Node("SpatialFilter", {}),
   Node("TemporalFilter", {"day"}), Node("Limit", {}), Capture(1), Guard(2),
   GroupBy({"name"}, "count", NoField, "n"), GroupBy({"day"}, "max", "name", "name"),
   GroupBy(Coordinates, "avg", "lat", "n"), GroupBy({"name"}, "max", "day", "n"),
   GroupBy({"name"}, "sum", "n", "total"),
   Grid(Coordinates, 2), MaskWith({"name"}, "redact"), MaskWith({"lat"}, "null")}

Request(operators, output) ==
  [context |-> "research", requested |-> {}, operators |-> operators, output |-> output]

Chain(steps) ==
  Request(<<Scan("visits")>> \o [k \in DOMAIN steps |-> At(steps[k], k, <<<<0, "op", k - 1>>>>)],
          <<0, "op", Len(steps)>>)

\* scan, scan, one step on each side, and a join of the two.
Diamond(left, right, l, r, join) ==
  Request(<<At(left, 0, <<>>), At(right, 1, <<>>), At(l, 2, <<<<0, "op", 0>>>>),
            At(r, 3, <<<<0, "op", 1>>>>), At(join, 4, <<<<0, "op", 2>>, <<0, "op", 3>>>>)>>,
          <<0, "op", 4>>)

Diamonds ==
  {Diamond(Scan("visits"), Scan("sites"), l, r, join) :
     l \in {Node("Limit", {}), MaskWith({"name"}, "hash"), MaskWith({"lat"}, "null")},
     r \in {Node("Limit", {}), MaskWith({"site"}, "redact"), Grid({"slat", "slon"}, 1)},
     join \in {Joined("name", "site"), Node("SpatialJoin", Coordinates \cup {"slat", "slon"})}}
  \cup {Diamond(ScanOf("visits", "v1"), ScanOf("visits", s), Node("Project", {"name", "lat"}),
                Node("Project", {"day", "lon"}), Joined("lat", "lon")) :
          s \in {"v2", "v9"}}

\* Plans validate_graph refuses, and one whose ids look like the rewriter's.
Odd ==
  {Request(<<At(Node("Limit", {}), 0, <<<<0, "op", 0>>>>)>>, <<0, "op", 0>>),
   Request(<<Scan("visits"), At(Scan("sites"), 1, <<>>)>>, <<0, "op", 0>>),
   Request(<<Scan("visits"), At(Node("Limit", {}), 0, <<<<0, "op", 0>>>>)>>, <<0, "op", 0>>),
   Request(<<At(Node("Limit", {}), 1, <<<<0, "op", 0>>>>)>>, <<0, "op", 1>>),
   Request(<<Scan("visits"), At(Joined("name", "name"), 1, <<<<0, "op", 0>>>>)>>, <<0, "op", 1>>),
   [Chain(<<>>) EXCEPT !.context = NoPurpose],
   [Chain(<<Node("Project", {"name"})>>) EXCEPT !.requested = {"lat"}],
   Request(<<[Scan("visits") EXCEPT !.id = <<1, "Mask", 0>>],
             [At(Node("Limit", {}), 1, <<<<1, "Mask", 0>>>>) EXCEPT !.id = <<1, "Mask", 1>>]>>,
           <<1, "Mask", 1>>)}

Chains(n) == {Chain(steps) : steps \in BoundedSeq(Steps, n)}
-----------------------------------------------------------------------------
Ob(type, fields, method, amount) ==
  [type |-> type, fields |-> fields, method |-> method, amount |-> amount]

Pin == Ob("VERSION_PIN", {}, NoMethod, 0)
NamedMask == Ob("MASK", {"name"}, NoMethod, 0)
Both == Ob("MASK", {"name", "lat"}, "null", 0)
Cells(km) == Ob("GENERALIZE_LOCATION", Coordinates, NoMethod, km)
Groups(n) == Ob("MIN_GROUP_SIZE", {}, NoMethod, n)
Lineage(level) == Ob("LINEAGE_CAPTURE", {}, NoMethod, level)

Pool ==
  {Pin, NamedMask, Both, Ob("MASK", {"lat"}, "null", 0), Ob("MASK", {"name"}, "hash", 0),
   Cells(1), Cells(3), Groups(2), Groups(3), Lineage(1), Lineage(2)}

Refused == {Ob("MASK", {}, "hash", 0), Groups(1), Ob("EXPORT_CONTROL", {}, NoMethod, 0)}

Rule(decision, obs) ==
  [decision |-> decision, contexts |-> {"research"}, resources |-> {"visits", "sites"},
   obligations |-> obs]

Elsewhere == {[Rule("PERMIT", {}) EXCEPT !.contexts = {"audit"}],
              [Rule("DENY", {}) EXCEPT !.resources = {"sites"}]}

UpTo(S, n) == UNION {kSubset(k, S) : k \in 0 .. n}

\* One permit with few obligations: what plans do under them.
FewObligations ==
  {{Rule("PERMIT", obs)} : obs \in {{}, {Pin, NamedMask}, {Both, Cells(1)}, {Groups(2)}}}

\* Two permits that share the obligations out, and rules of other decisions.
ManyObligations ==
  {{Rule("PERMIT", obs)} : obs \in UpTo(Pool, 3)}
  \cup {{Rule("PERMIT", {a}), Rule("PERMIT", {b, c})} : a, b, c \in Pool}
  \cup {{Rule("PERMIT", {ob, Pin})} : ob \in Refused}
  \cup {{Rule("PERMIT", obs), Rule(d, {NamedMask})} :
          obs \in UpTo(Pool, 1), d \in {"DENY", "INDETERMINATE", "NOT_APPLICABLE"}}
  \cup {Elsewhere, Elsewhere \cup {Rule("PERMIT", {Cells(1)})}, {}}

\* Plans that meet every stage of the rewriting.
FewPlans ==
  {Chain(<<>>), Chain(<<GroupBy({"name"} \cup Coordinates, "count", NoField, "n")>>),
   Chain(<<MaskWith({"lat"}, "null")>>), Chain(<<MaskWith({"name"}, "redact")>>)}

\* A mask, and two more steps.
Masked ==
  {Chain(<<m, a, b>>) : m \in {MaskWith({"name"}, "redact"), MaskWith({"lat"}, "null")},
                        a, b \in Steps}

AllPlans == Chains(2) \cup Masked \cup Diamonds \cup Odd \cup FewPlans

\* Every plan meets few obligations, and the few plans every policy set.
ObligationsOf ==
  [c \in AllPlans |->
     IF c \in FewPlans \cup Odd THEN FewObligations \cup ManyObligations ELSE FewObligations]
=============================================================================
