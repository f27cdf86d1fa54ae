------------------------------ MODULE Validator ------------------------------
(***************************************************************************)
(* validate() (src/trustaero/validator/service.py): a candidate plan that  *)
(* an untrusted agent wrote is checked, evaluated against a policy set     *)
(* (policy/evaluator.py), rewritten with the obligations of the policy,    *)
(* checked again and answered.  One action per stage of the function, one  *)
(* per obligation in the rewriting loop; a stage that fails answers REJECT *)
(* and leaves the others undone.                                           *)
(*                                                                         *)
(* A candidate is a plan with [context, requested]; a rule is [decision,   *)
(* contexts, resources, obligations]: contexts stands for its roles,       *)
(* purposes and actions.                                                   *)
(***************************************************************************)
EXTENDS ObligationNormalizer, TypeChecker

CONSTANTS Candidates,  \* plans an agent may send
          Policies,    \* the policy sets, of rules, each plan is validated under
          NoPurpose    \* the context of a request without a purpose

(* What parsing guarantees of an operator (ir/models.py): its type is one  *)
(* of the union, amounts are numbers, inputs are a sequence, a mask has a  *)
(* method and names fields, and a join has a key on each side.             *)
ParsedOperator(op) ==
  /\ op.type \in OperatorType
  /\ op.amount \in Nat
  /\ op.inputs \in Seq(ToSet(op.inputs))
  /\ op.type = "Mask" => op.method \in MaskMethod /\ NoField \notin op.fields
  /\ op.type = "Join" => op.keys \in Seq(ToSet(op.keys)) /\ Len(op.keys) = 2

ASSUME CandidateAssumption ==
  \A c \in Candidates :
    /\ c.operators \in Seq(Range(c.operators))
    /\ \A op \in Range(c.operators) : ParsedOperator(op)

PolicyDecision == {"PERMIT", "DENY", "INDETERMINATE", "NOT_APPLICABLE"}

ASSUME PolicyAssumption ==
  \A c \in Candidates : \A set \in Policies[c] : \A rule \in set :
    rule.decision \in PolicyDecision /\ rule.obligations \subseteq Obligation

(* A descriptor is validated when the catalog is built: its default        *)
(* version exists, and coordinates are fields with the spatial role.       *)
ASSUME CatalogAssumption ==
  \A d \in DOMAIN Catalog :
    /\ Catalog[d].default \in Catalog[d].versions
    /\ \A f \in DOMAIN Catalog[d].fields :
         DOMAIN Catalog[d].fields[f] = {"kind", "roles", "state", "precision"}
    /\ \A pair \in Catalog[d].spatial : \A f \in pair :
         f \in DOMAIN Catalog[d].fields /\ "spatial" \in Catalog[d].fields[f].roles

ASSUME FieldAssumption == NoField \notin Field

VARIABLES candidate, policy,
          pc,           \* the next stage of validate()
          obligations,  \* evaluation.obligations, then the normalized ones
          remaining,    \* normalized obligations the rewriter has not met
          plan,         \* the rewritten plan
          bindings,     \* dataset -> snapshot
          response      \* [status, reason]

validatorVars ==
  <<candidate, policy, pc, obligations, remaining, plan, bindings, response>>

NoResponse == [status |-> "none", reason |-> "none"]

Init ==
  /\ candidate \in Candidates
  /\ policy \in Policies[candidate]
  /\ pc = "purpose"
  /\ obligations = {}
  /\ remaining = {}
  /\ plan = [operators |-> candidate.operators, output |-> candidate.output]
  /\ bindings = <<>>
  /\ response = NoResponse

Answer(status, reason) ==
  /\ pc' = "answered"
  /\ response' = [status |-> status, reason |-> reason]

(* The stage at pc passes to the next one if check holds and rejects with  *)
(* the stage's reason otherwise.                                           *)
Stage(here, next, check, reason) ==
  /\ pc = here
  /\ IF check THEN pc' = next /\ UNCHANGED response
     ELSE Answer("REJECT", reason)

CheckPurpose ==
  /\ pc = "purpose"
  /\ IF candidate.context = NoPurpose
       THEN Answer("CLARIFY", "PURPOSE_MISSING")
       ELSE pc' = "graph" /\ UNCHANGED response
  /\ UNCHANGED <<candidate, policy, obligations, remaining, plan, bindings>>

CheckGraph ==
  /\ Stage("graph", "types", ValidGraph(plan), "GRAPH")
  /\ UNCHANGED <<candidate, policy, obligations, remaining, plan, bindings>>

CheckTypes ==
  /\ Stage("types", "policy", TypeChecks(plan, candidate.requested), "TYPES")
  /\ UNCHANGED <<candidate, policy, obligations, remaining, plan, bindings>>
-----------------------------------------------------------------------------
\* Only a rule that covers every scanned dataset applies.
Matched ==
  {rule \in policy : /\ candidate.context \in rule.contexts
                     /\ Scanned(candidate) \subseteq rule.resources}

WithDecision(decision) == {rule \in Matched : rule.decision = decision}

Decision ==
  IF WithDecision("DENY") # {} THEN "DENY"
  ELSE IF WithDecision("INDETERMINATE") # {} THEN "INDETERMINATE"
  ELSE IF WithDecision("PERMIT") # {} THEN "PERMIT"
  ELSE "NOT_APPLICABLE"

Permitted == UNION {rule.obligations : rule \in WithDecision("PERMIT")}

EvaluatePolicy ==
  /\ Stage("policy", "normalize", Decision = "PERMIT", Decision)
  /\ obligations' = IF Decision = "PERMIT" THEN Permitted ELSE {}
  /\ UNCHANGED <<candidate, policy, remaining, plan, bindings>>

Normalize ==
  LET canonical == {Canonical(ob) : ob \in obligations}
      sound     == /\ \A ob \in obligations : WellFormed(ob)
                   /\ ~MasksConflict(canonical)
      merged    == IF sound THEN Normalized(canonical) ELSE {}
  IN /\ Stage("normalize", "rewrite", sound, "NORMALIZATION_CONFLICT")
     /\ obligations' = merged
     /\ remaining' = merged
     /\ UNCHANGED <<candidate, policy, plan, bindings>>
-----------------------------------------------------------------------------
\* Obligations the rewriter has no implementation for.
Unenforceable(ob) ==
  \/ ob.type = "EXPORT_CONTROL"
  \/ ob.type = "MIN_GROUP_SIZE" /\ ~OutputDependsOnAggregate(candidate)

\* Mutant of FreshId: candidate ids are trusted not to look like ours.
ReservedId(index, type) == <<index, type, 0>>

(* gov-{index}-{type}, with a counter when the agent has taken that id.    *)
FreshId(index, type) ==
  <<index, type, Min({n \in 0 .. Len(plan.operators) : <<index, type, n>> \notin Ids(plan)})>>

Enforcer(ob, id, input) ==
  [id |-> id, type |-> EnforcerOf(ob.type), inputs |-> <<input>>,
   dataset |-> NoField, snapshot |-> NoSnapshot, fields |-> ob.fields,
   keys |-> <<>>, method |-> ob.method, amount |-> ob.amount]

Append1(ob) ==
  LET index == Cardinality(obligations) - Cardinality(remaining) + 1
      id    == FreshId(index, EnforcerOf(ob.type))
  IN [operators |-> Append(plan.operators, Enforcer(ob, id, plan.output)), output |-> id]

(* One turn of the loop over the sorted obligations: a pin is left to the  *)
(* snapshot bindings, the others append an enforcer after the output.      *)
Rewrite(ob) ==
  /\ \A other \in remaining : Priority(ob) <= Priority(other)
  /\ Stage("rewrite", "rewrite", ~Unenforceable(ob), "OBLIGATION_CONFLICT")
  /\ remaining' = remaining \ {ob}
  /\ plan' = IF ob.type = "VERSION_PIN" \/ Unenforceable(ob) THEN plan ELSE Append1(ob)
  /\ UNCHANGED <<candidate, policy, obligations, bindings>>

EndRewrite ==
  /\ remaining = {}
  /\ Stage("rewrite", "regraph", TRUE, "none")
  /\ UNCHANGED <<candidate, policy, obligations, remaining, plan, bindings>>

RecheckGraph ==
  /\ Stage("regraph", "retype", ValidGraph(plan), "REWRITTEN_GRAPH")
  /\ UNCHANGED <<candidate, policy, obligations, remaining, plan, bindings>>

RecheckTypes ==
  /\ Stage("retype", "bind", TypeChecks(plan, candidate.requested), "REWRITTEN_TYPES")
  /\ UNCHANGED <<candidate, policy, obligations, remaining, plan, bindings>>
-----------------------------------------------------------------------------
Resolved(scan) ==
  IF scan.snapshot = NoSnapshot THEN Catalog[scan.dataset].default ELSE scan.snapshot

Resolvable(scan) ==
  /\ scan.dataset \in DOMAIN Catalog
  /\ scan.snapshot \in Catalog[scan.dataset].versions \cup {NoSnapshot}

(* The loop over the operators assigns per dataset: the last scan wins.    *)
Bound ==
  [d \in Scanned(plan) |->
     Resolved(plan.operators[Max({k \in Scans(plan) : plan.operators[k].dataset = d})])]

BindSnapshots ==
  LET resolvable == \A k \in Scans(plan) : Resolvable(plan.operators[k])
  IN /\ Stage("bind", "verify", resolvable, "VERSION_UNRESOLVED")
     /\ bindings' = IF resolvable THEN Bound ELSE bindings
     /\ UNCHANGED <<candidate, policy, obligations, remaining, plan>>

(* verify_obligations, for one obligation: a pin holds by the bindings,    *)
(* the others by an operator of the suffix.                                *)
Met(ob) ==
  IF ob.type = "VERSION_PIN"
    THEN Scanned(plan) # {} /\ Scanned(plan) \subseteq DOMAIN bindings
    ELSE \E op \in EnforcementSuffix(plan, candidate.output) : Enforces(op, ob)

PostconditionsHold ==
  /\ ReachesBoundary(plan, candidate.output)
  /\ \A ob \in obligations : Met(ob)

Rewritten == plan.output # candidate.output

VerifyObligations ==
  /\ pc = "verify"
  /\ IF PostconditionsHold
       THEN Answer(IF Rewritten THEN "REWRITE" ELSE "ACCEPT", "none")
       ELSE Answer("REJECT", "OBLIGATION_NOT_ENFORCED")
  /\ UNCHANGED <<candidate, policy, obligations, remaining, plan, bindings>>

Next ==
  \/ CheckPurpose
  \/ CheckGraph
  \/ CheckTypes
  \/ EvaluatePolicy
  \/ Normalize
  \/ \E ob \in remaining : Rewrite(ob)
  \/ EndRewrite
  \/ RecheckGraph
  \/ RecheckTypes
  \/ BindSnapshots
  \/ VerifyObligations

Spec == Init /\ [][Next]_validatorVars
-----------------------------------------------------------------------------
(* The stage, the answer and the obligations are what they should be: the  *)
(* answer is given once and at the end (validate() returns it).            *)
ValidatorTypeOK ==
  /\ pc \in {"purpose", "graph", "types", "policy", "normalize", "rewrite",
             "regraph", "retype", "bind", "verify", "answered"}
  /\ obligations \subseteq Obligation
  /\ remaining \subseteq obligations
  /\ response.status \in {"none", "ACCEPT", "REWRITE", "CLARIFY", "REJECT"}
  /\ response.status = "none" <=> pc # "answered"

Validated == response.status \in {"ACCEPT", "REWRITE"}

Suffix == EnforcementSuffix(plan, candidate.output)

\* Something after the candidate's output, or a binding, does what ob asks.
Discharged(ob) ==
  CASE ob.type = "VERSION_PIN" ->
         \A d \in Scanned(candidate) : bindings[d] \in Catalog[d].versions
    [] ob.type = "MASK" ->
         \A f \in ob.fields : \E op \in Suffix :
           op.type = "Mask" /\ f \in op.fields /\ op.method = Canonical(ob).method
    [] ob.type = "EXPORT_CONTROL" -> FALSE
    [] OTHER -> \E op \in Suffix : Enforces(op, Canonical(ob))

(* A plan is validated only under a permit that no applicable rule denies  *)
(* or leaves open, and then every obligation that any permitting rule      *)
(* wrote, before merging, is discharged at least as strongly as written:   *)
(* normalize_obligations, _rewrite_obligations and verify_obligations      *)
(* together lose nothing.                                                  *)
PolicyEnforced ==
  Validated =>
    /\ \A rule \in Matched : rule.decision \in {"PERMIT", "NOT_APPLICABLE"}
    /\ \E rule \in Matched : rule.decision = "PERMIT"
    /\ \A rule \in Matched : rule.decision = "PERMIT" =>
         \A ob \in rule.obligations : Discharged(ob)

(* The checks after the rewriting never refuse what the rewriter made: ids *)
(* an agent reserved do not collide, the suffix is a unary chain back to   *)
(* the candidate's output, and it meets every normalized obligation.       *)
RewriterAgreesWithVerifier ==
  response.reason
    \notin {"REWRITTEN_GRAPH", "VERSION_UNRESOLVED", "OBLIGATION_NOT_ENFORCED"}

(* What the final schema says agrees with the permitting rules: the masked *)
(* fields arrive masked with the method asked for, whatever else the       *)
(* suffix does to them, and the generalized ones carry a precision or are  *)
(* masked (_merge_masks, _sort_key and the Mask transfer rule together).   *)
OutputGoverned ==
  Validated =>
    LET info == Schemas(plan)[plan.output].fields
    IN \A ob \in Permitted : \A f \in ob.fields :
         /\ ob.type = "MASK" => info[f].state = MaskState(Canonical(ob).method)
         /\ ob.type = "GENERALIZE_LOCATION" =>
              info[f].precision > 0 \/ info[f].state # "raw"
-----------------------------------------------------------------------------
Uses(op) ==
  CASE op.type \in {"Sort", "Filter", "TemporalFilter", "SpatialJoin", "GeneralizeLocation"} ->
         op.fields
    [] op.type = "Join" -> ToSet(op.keys)
    [] op.type = "Aggregate" -> op.fields \cup {op.keys[1]}
    [] OTHER -> {}

Keeps(op, f) == op.type \in {"Project", "Aggregate"} => f \in op.fields

Reads(o, S) == ToSet(OperatorOf(plan, o).inputs) \cap S # {}

\* Operators that field f of operator m's output reaches.
Receivers(m, f) ==
  {u \in Ids(plan) : \A S \in SUBSET Ids(plan) :
     (\A o \in Ids(plan) :
        Reads(o, {m} \cup {p \in S : Keeps(OperatorOf(plan, p), f)}) => o \in S)
     => u \in S}

(* In a validated plan no operator computes with a value that was masked   *)
(* on its way there: docs/validation-semantics.md, "a masked field may be  *)
(* projected or requested as output, but it may not later be used".        *)
MaskedNeverUsed ==
  Validated =>
    \A m \in Ids(plan) : OperatorOf(plan, m).type = "Mask" =>
      \A f \in OperatorOf(plan, m).fields : \A u \in Receivers(m, f) :
        f \notin Uses(OperatorOf(plan, u))

(* docs/validation-semantics.md, operator table: GeneralizeLocation gives  *)
(* "fields with coarser precision metadata".                               *)
GeneralizationCoarsens ==
  Validated =>
    LET schemas == Schemas(plan)
    IN \A o \in Ids(plan) : OperatorOf(plan, o).type = "GeneralizeLocation" =>
         \A f \in OperatorOf(plan, o).fields :
           schemas[o].fields[f].precision
             >= schemas[OperatorOf(plan, o).inputs[1]].fields[f].precision

(* docs/validation-semantics.md, on aggregates: "sum and avg require       *)
(* numeric inputs; min and max accept numeric or datetime inputs", hence   *)
(* no sum over the extremes of a field that is not numeric.                *)
SumsAreNumeric ==
  Validated =>
    LET schemas == Schemas(plan)
    IN \A o \in Ids(plan) :
         LET op   == OperatorOf(plan, o)
             from == OperatorOf(plan, op.inputs[1])
         IN /\ op.type = "Aggregate" /\ op.method \in {"sum", "avg"}
            /\ from.type = "Aggregate" /\ from.method \in {"min", "max"}
            /\ from.keys[2] = op.keys[1]
            => schemas[from.inputs[1]].fields[from.keys[1]].kind \in Numeric
=============================================================================
