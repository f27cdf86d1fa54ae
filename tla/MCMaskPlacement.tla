--------------------------- MODULE MCMaskPlacement ---------------------------
(* Small workloads around every threshold, and stored models of each kind: *)
(* some a constructor refuses, some whose surfaces pull either way.        *)
EXTENDS MaskPlacement

Bits == [x \in 0..255 |-> Cardinality({k \in 0..7 : 2^k <= x})]

AllWorkloads ==
  [rows : {0, 1, 3}, width : {1, 4}, rate : 0..Full, early : BOOLEAN, late : BOOLEAN,
   limit : {None, 0, 2}]

Zeros(names) == [n \in names |-> 0]

\* A surface that is its intercept, but for the given coefficients.
Surf(names, intercept, coefs) ==
  [intercept |-> intercept, coef |-> coefs @@ Zeros(names), mean |-> Zeros(names),
   scale |-> [n \in names |-> IF n = "match" THEN 2 ELSE 1], metadata |-> TRUE,
   rmse |-> 2, multiplier |-> 1, threshold |-> 2]

\* Fitted on workloads of up to `top' rows, in the units of each support.
Over(names, top) ==
  [min |-> Zeros(names), max |-> [n \in names |-> IF n = "rows" THEN top ELSE 64]]

Axes == {"rows", "width", "match"}
Fitted(names, intercept, coefs, top) == Surf(names, intercept, coefs) @@ Over(Axes, top)

CostNames == {"input", "hash", "join", "materialized"}
CostModel(coefs) == Surf(CostNames, 0, coefs)
Hashing == CostModel([hash |-> 1])
Moving == CostModel([join |-> 1, materialized |-> 1])

V2Models ==
  {Surf(DOMAIN V2Features(W), i, [matched_work |-> c]) : i \in {-1, 1}, c \in {0, 1}}

ResidualModel(base, intercept, coefs, top) ==
  Surf(DOMAIN ResidualFeatures(W), intercept, coefs) @@ Over(DOMAIN ResidualFeatures(W), top)
    @@ [base |-> base]

Residuals ==
  {ResidualModel(base, i, c, t) :
     base \in {Hashing, Moving}, i \in {-5, 0, 2}, t \in {2, 9},
     c \in {[match |-> -1], [match_rows_width |-> 1], [match_rows |-> -1]}}

Point(group, rows, residual, v1) ==
  [group |-> group, vector |-> [rows |-> rows, width |-> 1, match |-> 1],
   residual |-> residual, v1 |-> v1]

Guards ==
  {[base |-> base, points |-> points, scale |-> [rows |-> 1, width |-> 2, match |-> 1],
    neighbors |-> 2] :
     base \in {ResidualModel(Hashing, -2, [match |-> -1], 9), ResidualModel(Moving, 2, [rows |-> 1], 9)},
     points \in {<<Point(1, 0, 2, 0), Point(2, 1, 0, 3)>>,
                 <<Point(1, 0, 0, 1), Point(1, 1, 3, 2), Point(2, 2, 1, 2), Point(3, 3, 0, 5)>>,
                 <<Point(1, 0, 0, 1)>>}}

Part(intercept, a, b, x, y) ==
  [intercept |-> intercept, coef |-> (a :> x) @@ (b :> y), metadata |-> TRUE]
Mechanism(start, hash, move) ==
  [hash |-> Part(start, "rows", "bytes", 0, hash), move |-> Part(0, "rows", "bytes", 1, move),
   join |-> Part(0, "input", "output", 1, 0)]
Mechanisms == {Mechanism(0, 1, 0), Mechanism(1, 1, 2), Mechanism(1, 3, 0), Mechanism(-1, 1, 1)}

Pipelines ==
  {Fitted(DOMAIN PipelineFeatures(W, "early"), 0, c, t) :
     c \in {[hash |-> 1], [join |-> 2], [breaker |-> 1], [join |-> -1]}, t \in {2, 9}}

Interaction(intercept, coefs, tops) ==
  Fitted(DOMAIN InteractionFeatures(W), intercept, coefs, tops)
Interactions ==
  {Interaction(i, c, t) : i \in {-1, 1}, c \in {[match |-> -1], [rows_width |-> 1]},
                          t \in {2, 9}}
Opposed == Interaction(1, [rows_width |-> 1], 9)
Stables ==
  UNION {{[primary |-> p, members |-> s] : s \in {<<>>, <<p>>, <<p, Opposed>>, <<Opposed>>}} :
           p \in Interactions}

V4Models ==
  {Fitted(DOMAIN V4Delta(W), 0, c, t) :
     c \in {[pre_hash |-> 1], [post_hash |-> 1, boundary |-> -1], [join_fact |-> 1]},
     t \in {1, 3}}
V41Models == {[primary |-> p, members |-> <<q, r>>] : p, q, r \in V4Models}

V5Models ==
  {Fitted(DOMAIN V5Features(W, "early"), 0, c, t) @@ [prior |-> prior] :
     c \in {[hash |-> -1], [breaker |-> 3]}, t \in {2, 9}, prior \in Mechanisms}

Stored(kind, models) == [kind : {kind}, model : models]

AllPayloads ==
  UNION {Stored("v1", {None}), Stored("v2", V2Models), Stored("cost", {Hashing, Moving}),
         Stored("residual", Residuals), Stored("guard", Guards),
         Stored("mechanism", Mechanisms), Stored("pipeline", Pipelines),
         Stored("interaction", Interactions), Stored("stable", Stables),
         Stored("v4", V4Models), Stored("v41", V41Models), Stored("v5", V5Models)}
=============================================================================
