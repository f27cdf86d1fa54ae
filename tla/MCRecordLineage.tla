--------------------------- MODULE MCRecordLineage ---------------------------
(* Two tables with NULLs, repeated keys and rows that match nothing, and    *)
(* plans of one source (filters and masks) and of two (masks above a join); *)
(* and chains that end in what policy adds: masks of either field and a     *)
(* record capture.  Filters remove the NULL and the repeated key, or do not. *)
EXTENDS RecordLineage

Info(roles) == [kind |-> "string", roles |-> roles, state |-> "raw", precision |-> 0]

PeopleAndSites ==
  [people |-> [versions |-> {"v1"}, default |-> "v1", spatial |-> {},
               fields |-> [key |-> Info({}), name |-> Info({})]],
   sites  |-> [versions |-> {"v1"}, default |-> "v1", spatial |-> {},
               fields |-> [site |-> Info({}), town |-> Info({})]]]

Cell(v) == IF v = "NULL" THEN Null ELSE <<v>>
Person(k, n) == [key |-> Cell(k), name |-> Cell(n)]
Site(s, t) == [site |-> Cell(s), town |-> Cell(t)]

SmallTables ==
  [people |-> <<Person("a", "c"), Person("NULL", "a"), Person("b", "NULL"), Person("a", "b")>>,
   sites  |-> <<Site("c", "b"), Site("a", "NULL"), Site("a", "a"), Site("NULL", "c")>>]

Letters == <<"a", "b", "c">>

\* NULL first, then the raw cells, then the redacted and hashed ones.
CellRank(cell) ==
  IF cell = Null THEN 1
  ELSE IF Len(cell) > 1 THEN 9 - (CHOOSE k \in 1 .. 3 : Letters[k] = Last(cell))
  ELSE IF cell[1] \in ToSet(Letters) THEN 1 + (CHOOSE k \in 1 .. 3 : Letters[k] = cell[1])
  ELSE 5

Node(type, fields) ==
  [id |-> NoOperator, type |-> type, inputs |-> <<>>, dataset |-> NoField,
   snapshot |-> NoSnapshot, fields |-> fields, keys |-> <<>>, method |-> "none", amount |-> 0]

Scan(dataset) == [Node("ScanSource", {}) EXCEPT !.dataset = dataset]
Keeping(fields, values) == [Node("Filter", fields) EXCEPT !.keys = values]
Columns(fields) == Node("Project", fields)
SortBy(f) == Node("Sort", {f})
First(n) == [Node("Limit", {}) EXCEPT !.amount = n]
MaskBy(fields, method) == [Node("Mask", fields) EXCEPT !.method = method]
JoinOn(l, r, method) == [Node("Join", {}) EXCEPT !.keys = <<l, r>>, !.method = method]
Capture == [Node("LineageCapture", {}) EXCEPT !.amount = 1]

Numbered(nodes, inputs) ==
  [operators |-> [k \in DOMAIN nodes |-> [nodes[k] EXCEPT !.id = k, !.inputs = inputs[k]]],
   output |-> Len(nodes)]

Chain(nodes) == Numbered(nodes, [k \in DOMAIN nodes |-> IF k = 1 THEN <<>> ELSE <<k - 1>>])

\* left and right, a join, and the steps above it.
Tree(left, right, join, above) ==
  LET l == Len(left)
      r == Len(right)
  IN Numbered(left \o right \o <<join>> \o above,
       [k \in 1 .. l + r + 1 + Len(above) |->
          CASE k \in {1, l + 1} -> <<>>
            [] k = l + r + 1 -> <<l, l + r>>
            [] OTHER -> <<k - 1>>])

UnaryStep ==
  {Keeping({"key"}, <<"a">>), Keeping({"name"}, <<"a", "b">>), Columns({"key", "name"}),
   SortBy("name"), First(2), MaskBy({"name"}, "redact"), MaskBy({"name"}, "hash")}

Chains == {Chain(<<Scan("people")>> \o steps) : steps \in [1 .. 4 -> UnaryStep]}

Above(fields) ==
  {<<>>} \cup {<<a>> : a \in fields} \cup {<<a, b>> : a, b \in fields}

JoinStep ==
  {SortBy("name"), SortBy("town"), Columns({"key", "name", "town"}), Columns({"name", "town"}),
   Keeping({"town"}, <<"a">>)}

People == <<Scan("people"), Columns({"key", "name"})>>
Sites == <<Scan("sites"), Columns({"site", "town"})>>

Trees(masks, joins, tails) ==
  {Tree(People, Sites, JoinOn("key", "site", join), above \o <<mask>> \o tail) :
     join \in joins, above \in Above(JoinStep), mask \in masks, tail \in tails}

Masks(method) == {MaskBy(fields, method) : fields \in {{"name"}, {"town"}, {"key"}, {"name", "town"}}}

\* A column of each of two chains over one shared scan.
Shared ==
  {[Numbered(<<Scan("people"), Columns({"key"}), Columns({"name"}), JoinOn("key", "name", "inner"),
               mask, Capture>>, <<<<>>, <<1>>, <<1>>, <<2, 3>>, <<4>>, <<5>>>>)
      EXCEPT !.output = out] : mask \in Masks("hash") , out \in {5, 6}}

\* Two filters, each read by a branch of its own: no single chain to reorder.
Forked ==
  {Numbered(<<Scan("people"), Keeping({"key"}, <<"a">>), Keeping({"name"}, <<"a", "b">>),
              Columns({"key"}), Columns({"name"}), JoinOn("key", "name", "inner"), Capture>>,
            <<<<>>, <<1>>, <<2>>, <<2>>, <<3>>, <<4, 5>>, <<6>>>>)}

JoinPlans ==
  Trees(Masks("redact"), {"inner", "left"}, {<<>>, <<Capture>>})
  \cup Trees(Masks("hash"), {"inner", "left"}, {<<>>})
  \cup Trees({MaskBy({"town"}, "null")}, {"left"}, {<<>>, <<SortBy("name")>>})

AllPlans == Chains \cup Shared \cup Forked \cup JoinPlans
-----------------------------------------------------------------------------
LaterTables ==
  [SmallTables EXCEPT !.people = <<Person("b", "a"), Person("a", "b"), Person("c", "c")>>]

RecordCapture == [Capture EXCEPT !.amount = 2]

TracedStep ==
  {Keeping({"name"}, <<"a", "b">>), Keeping({"name"}, <<"b", "c">>), Keeping({"key"}, <<"a", "b">>),
   Columns({"name"}), SortBy("key"), First(3), MaskBy({"name"}, "hash"), MaskBy({"key"}, "hash"),
   Capture}

PolicyMask ==
  {<<>>, <<MaskBy({"name"}, "hash")>>}
  \cup {<<MaskBy({"key"}, method)>> : method \in {"hash", "redact", "null"}}

TracedChains ==
  {Chain(<<Scan("people")>> \o steps \o mask \o <<RecordCapture>>) :
     steps \in {<<>>} \cup {<<a>> : a \in TracedStep} \cup {<<a, b>> : a, b \in TracedStep},
     mask \in PolicyMask}

KeySpecs ==
  {[dataset |-> "people", keys |-> <<"name">>], [dataset |-> "people", keys |-> <<"key">>],
   [dataset |-> "people", keys |-> <<"key", "name">>], [dataset |-> "sites", keys |-> <<"key">>]}

TracedJoin == {Tree(People, Sites, JoinOn("key", "site", "inner"), <<RecordCapture>>)}

TracedPlans == AllPlans \cup TracedChains \cup TracedJoin
=============================================================================
