---------------------------- MODULE RecordLineage ----------------------------
(***************************************************************************)
(* Record lineage (src/trustaero/execution/record_lineage.py): a plan that *)
(* policy wants traced record by record is compiled and run by an entry    *)
(* point of its own, which leaves an artifact naming the source record of  *)
(* every returned row, and the certificate's summary of it.  Whoever has   *)
(* the summary checks an artifact against the rows he was given.           *)
(*                                                                         *)
(* There are four encodings: "json" (V1), whose edges are sorted by digest *)
(* and so are a set here; "compact" (V2) and "duckdb" (V3), in row order;  *)
(* "ordinal" (V4), without output identities.  A digest is the record it   *)
(* is made from.                                                           *)
(***************************************************************************)
EXTENDS QueryExecution

CONSTANTS Specs,        \* [dataset, keys]: where the identity of a record is
          Refreshed,    \* the tables of another execution of the same plan
          NoSpec

VARIABLES boundary,     \* the candidate's output, the target of the policy's requirement
          spec,
          encoding,     \* of the execution that ran
          evidence,     \* the summary in the certificate
          artifact,     \* the artifact that is handed over
          shown         \* the rows that are handed over

lineageVars == <<boundary, spec, encoding, evidence, artifact, shown>>

Supported ==
  {"ScanSource", "Filter", "SpatialFilter", "TemporalFilter", "Project", "Sort", "Mask",
   "GeneralizeLocation"}

Governs(op) == op.type \in {"Mask", "GeneralizeLocation", "MinGroupSize", "LineageCapture"}

IsRecordCapture(op) == op.type = "LineageCapture" /\ op.amount = 2

\* _reachable_fragment: the target and what it is computed from.
Fragment ==
  {OperatorOf(plan, o) : o \in {boundary} \cup Dag!Ancestors(DagOf(plan), boundary)}

\* Mutant of IdentityLocated: masks of the key are not looked for.
IdentityLocatedUnderMasks(columns) ==
  LET scans == {op \in Fragment : op.type = "ScanSource"}
  IN /\ Cardinality(scans) = 1
     /\ \A op \in scans : op.dataset = spec.dataset
     /\ ToSet(spec.keys) \subseteq columns

(* _identity_context: one scan, of the dataset of the keys; keys that no   *)
(* mask of the fragment touches and that the result has.                   *)
IdentityLocated(columns) ==
  LET scans == {op \in Fragment : op.type = "ScanSource"}
  IN /\ Cardinality(scans) = 1
     /\ \A op \in scans : op.dataset = spec.dataset
     /\ \A op \in Fragment : op.type = "Mask" => op.fields \cap ToSet(spec.keys) = {}
     /\ ToSet(spec.keys) \subseteq columns

\* The record markers, lowered to the pass-through the compiler knows.
LoweredMarkers ==
  [plan EXCEPT !.operators =
     [k \in DOMAIN plan.operators |->
        IF IsRecordCapture(plan.operators[k]) THEN [plan.operators[k] EXCEPT !.amount = 1]
        ELSE plan.operators[k]]]

(* compile_record_lineage_plan accepts.                                    *)
RecordCompiles ==
  /\ \E op \in EnforcementSuffix(plan, boundary) : IsRecordCapture(op)
  /\ \A op \in Fragment : op.type \in Supported
  /\ Lowered(LoweredMarkers)
  /\ IdentityLocated(Names(Schemas(plan)[plan.output]))
-----------------------------------------------------------------------------
KeyOf(row) == [k \in DOMAIN spec.keys |-> row[spec.keys[k]]]

SourceId(row) == [dataset |-> spec.dataset, columns |-> spec.keys, key |-> KeyOf(row)]

Edge(context, row) ==
  [output |-> [context |-> context, key |-> KeyOf(row)], source |-> SourceId(row)]

CompactEdges(result, in) == [i \in DOMAIN in |-> Edge(result, in[i])]

JsonEdges(result, in) == Range(CompactEdges(result, in))

\* Output identities of the plan and not of the result.
DatabaseEdges(in) == [i \in DOMAIN in |-> Edge("plan", in[i])]

OrdinalEdges(in) == [i \in DOMAIN in |-> SourceId(in[i])]

EdgesOf(enc, result, in) ==
  CASE enc = "json" -> JsonEdges(result, in)
    [] enc = "compact" -> CompactEdges(result, in)
    [] enc = "duckdb" -> DatabaseEdges(in)
    [] enc = "ordinal" -> OrdinalEdges(in)

\* Keys are not NULL and no two rows have the same.
Identified(in) ==
  /\ \A i \in DOMAIN in : \A f \in ToSet(spec.keys) : in[i][f] # Null
  /\ \A i, j \in DOMAIN in : KeyOf(in[i]) = KeyOf(in[j]) => i = j

\* What DuckDB can hash: one string key.
OneStringKey ==
  /\ Len(spec.keys) = 1
  /\ Schemas(plan)[plan.output].fields[spec.keys[1]].kind = "string"

ArtifactOf(enc, execution, result, in) ==
  [encoding |-> enc, execution |-> execution, result |-> result, target |-> boundary,
   count |-> Len(in), edges |-> EdgesOf(enc, result, in)]

SummaryOf(a) ==
  [execution |-> a.execution, result |-> a.result, covered |-> a.target, edges |-> a.edges]

NoArtifact == [encoding |-> "none"]
-----------------------------------------------------------------------------
LineageInit ==
  /\ Init
  /\ boundary \in IF \E op \in Range(plan.operators) : IsRecordCapture(op)
                    THEN {o \in Range(WalkBack(plan)) :
                            \A op \in EnforcementSuffix(plan, o) : Governs(op)}
                    ELSE {NoOperator}
  /\ spec \in IF boundary = NoOperator THEN {NoSpec} ELSE Specs
  /\ encoding = "none"
  /\ evidence = NoArtifact
  /\ artifact = NoArtifact
  /\ shown = <<>>

CompileRecord ==
  /\ pc = "validated"
  /\ boundary # NoOperator
  /\ IF RecordCompiles THEN pc' = "traceable" /\ query' = LoweredMarkers
     ELSE pc' = "refused" /\ UNCHANGED query
  /\ UNCHANGED <<plan, candidates, rows, lineageVars>>

(* The statement is run and its rows traced: no result without evidence.   *)
ExecuteRecord(enc, traceable) ==
  LET result == Result(query)
      captured == ArtifactOf(enc, "this", result, result)
  IN /\ pc = "traceable"
     /\ IF traceable
          THEN /\ pc' = "captured"
               /\ rows' = result
               /\ shown' = result
               /\ encoding' = enc
               /\ artifact' = captured
               /\ evidence' = SummaryOf(captured)
          ELSE pc' = "refused" /\ UNCHANGED <<rows, shown, encoding, artifact, evidence>>
     /\ UNCHANGED <<plan, candidates, query, boundary, spec>>

ExecuteJson == ExecuteRecord("json", Identified(Result(query)))

ExecuteCompact == ExecuteRecord("compact", Identified(Result(query)))

(* A NULL key gives a digest that is not binary; no digest may be met      *)
(* twice.                                                                  *)
HashedInDatabase(in) == OneStringKey /\ Identified(in)

ExecuteDatabaseDigest == ExecuteRecord("duckdb", HashedInDatabase(Result(query)))

ExecuteOrdinal == ExecuteRecord("ordinal", HashedInDatabase(Result(query)))
-----------------------------------------------------------------------------
(* What a holder of the result may get instead of it: rows in another      *)
(* order, one less, one with another value, those of a later execution.    *)
Altered(in) ==
  {Reverse(in)}
  \cup (IF in = <<>> THEN {} ELSE {Tail(in)})
  \cup {[in EXCEPT ![i][f] = <<"altered">>] : i \in DOMAIN in, f \in Names(Schemas(plan)[plan.output])}
  \cup {ResultOver(Refreshed, query)}

(* ... and an artifact: the captured one, or one made for the altered rows *)
(* under the captured or under its own result.                             *)
HandOver(in, result, execution) ==
  /\ pc = "captured"
  /\ pc' = "handed over"
  /\ shown' = in
  /\ artifact' \in {artifact, ArtifactOf(encoding, execution, result, in)}
  /\ UNCHANGED <<plan, candidates, query, rows, boundary, spec, encoding, evidence>>
-----------------------------------------------------------------------------
\* Mutant of Bound: the artifact certifies itself.
SelfBound(expected) == artifact = expected

\* The artifact is what the rows give, and the summary is of it.
Bound(expected) == artifact = expected /\ evidence = SummaryOf(expected)

Locatable == IdentityLocated(Names(Schemas(plan)[plan.output])) /\ Identified(shown)

(* The four verify_..._record_lineage_artifact derive the artifact again   *)
(* from the rows; which result it is of, three of them take from itself.   *)
JsonSatisfied ==
  Locatable /\ Bound(ArtifactOf("json", artifact.execution, artifact.result, shown))

CompactSatisfied ==
  Locatable /\ Bound(ArtifactOf("compact", artifact.execution, artifact.result, shown))

DatabaseDigestSatisfied ==
  /\ Locatable
  /\ Len(spec.keys) = 1
  /\ Bound(ArtifactOf("duckdb", artifact.execution, artifact.result, shown))

OrdinalSatisfied ==
  /\ Locatable
  /\ Len(spec.keys) = 1
  /\ Bound(ArtifactOf("ordinal", artifact.execution, shown, shown))

Satisfied ==
  \/ encoding = "json" /\ JsonSatisfied
  \/ encoding = "compact" /\ CompactSatisfied
  \/ encoding = "duckdb" /\ DatabaseDigestSatisfied
  \/ encoding = "ordinal" /\ OrdinalSatisfied

LineageNext ==
  \/ Next /\ UNCHANGED lineageVars
  \/ CompileRecord
  \/ ExecuteJson
  \/ ExecuteCompact
  \/ ExecuteDatabaseDigest
  \/ ExecuteOrdinal
  \/ \E in \in Altered(rows), result \in {rows, shown}, execution \in {"this", "another"} :
       HandOver(in, result, execution)

LineageSpec == LineageInit /\ [][LineageNext]_<<vars, lineageVars>>
-----------------------------------------------------------------------------
(* What an execution leaves satisfies the verifier, in every encoding: the *)
(* capture, in Python or inside DuckDB, and the verifier agree on keys,    *)
(* order and context.  And an artifact that is accepted with the           *)
(* certificate's summary is the one that was captured, and the rows shown  *)
(* with it have the keys of the rows that were returned, in their order    *)
(* unless edges are sorted; V4 accepts nothing but those rows.             *)
AcceptedIsCaptured ==
  /\ pc = "captured" => Satisfied
  /\ pc = "handed over" /\ Satisfied =>
       /\ artifact = ArtifactOf(encoding, "this", rows, rows)
       /\ Len(shown) = Len(rows)
       /\ encoding = "json" => {KeyOf(r) : r \in Range(shown)} = {KeyOf(r) : r \in Range(rows)}
       /\ encoding \in {"compact", "duckdb"} =>
            \A i \in DOMAIN rows : KeyOf(shown[i]) = KeyOf(rows[i])
       /\ encoding = "ordinal" => shown = rows

\* The row alone, from a source record with the key that its edge names.
ComesFromItsSource(row) ==
  \E record \in Range(Tables[spec.dataset]) :
    /\ KeyOf(record) = KeyOf(row)
    /\ ResultOver([Tables EXCEPT ![spec.dataset] = <<record>>], query) = <<row>>

\* A mask that policy adds after the target, outside the checked fragment.
KeyMaskedByPolicy ==
  \E op \in EnforcementSuffix(plan, boundary) :
    op.type = "Mask" /\ op.fields \cap ToSet(spec.keys) # {}

(* An edge names a source record that its row was computed from: "Every    *)
(* returned row must retain a unique, unmasked source key." (the module's  *)
(* own words).                                                             *)
IdentitiesAreSources == pc = "captured" => \A row \in Range(rows) : ComesFromItsSource(row)

(* ... which holds unless policy masks the key: then the target's own      *)
(* fragment has no mask, and the masked values are taken for keys.         *)
UnmaskedIdentitiesAreSources ==
  pc = "captured" /\ ~KeyMaskedByPolicy => \A row \in Range(rows) : ComesFromItsSource(row)
=============================================================================
