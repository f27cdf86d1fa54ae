--------------------------- MODULE ValidatorProofs ---------------------------
(***************************************************************************)
(* Theorems about validate(), for every catalog, every set of candidate    *)
(* plans and every set of policies.                                        *)
(***************************************************************************)
EXTENDS Validator, FiniteLemmas, SequenceTheorems

-----------------------------------------------------------------------------
\* Max of a nonempty bounded set is one of its elements and an upper bound.
LEMMA MaxNat ==
  ASSUME NEW N \in Nat, NEW S \in SUBSET (0 .. N), S # {}
  PROVE  Max(S) \in S /\ Max(S) \in Nat /\ \A n \in S : n <= Max(S)
<1>1. PICK m \in S : \A n \in S : n <= m
  BY LargestNat
<1>2. \A n \in S : m >= n
  BY <1>1
<1>3. Max(S) \in S /\ \A n \in S : Max(S) >= n
  BY <1>1, <1>2 DEF Max
<1>4. \A x \in S : x \in Nat
  OBVIOUS
<1>5. Max(S) \in Nat
  BY <1>3, <1>4
<1>6. \A n \in S : n <= Max(S)
  BY <1>3, <1>4, <1>5
<1> QED BY <1>3, <1>5, <1>6

-----------------------------------------------------------------------------
(* The merge algebra.                                                      *)

\* Making the default method explicit keeps what an obligation asks for.
LEMMA CanonicalObligation ==
  ASSUME NEW ob \in Obligation, WellFormed(ob)
  PROVE  /\ Canonical(ob) \in Obligation
         /\ Canonical(ob).type = ob.type
         /\ Canonical(ob).fields = ob.fields
         /\ Canonical(ob).amount = ob.amount
         /\ ob.type \in {"MIN_GROUP_SIZE", "LINEAGE_CAPTURE"} =>
              Canonical(ob).fields = {} /\ Canonical(ob).method = NoMethod
BY DEF Obligation, ObligationType, MaskMethod, Canonical, WellFormed

(* Merging weakens nothing: whatever a set of obligations asks for, one    *)
(* merged obligation of the same type asks for as much.                    *)
LEMMA MaximumCovers ==
  ASSUME NEW obs \in SUBSET Obligation, NEW type, NEW ob \in OfKind(obs, type)
  PROVE  \E m \in MergedMaximum(obs, type) : ob.amount <= m.amount
<1> DEFINE Amounts == {a.amount : a \in OfKind(obs, type)}
<1>1. Amounts \in SUBSET (0 .. MaxAmount) /\ ob.amount \in Amounts /\ Amounts # {}
  BY DEF OfKind, Obligation
<1>2. PICK n \in Amounts : \A k \in Amounts : k <= n
  <2> HIDE DEF Amounts
  <2> QED BY <1>1, LargestNat, AmountAssumption
<1>3. PICK m \in OfKind(obs, type) : m.amount = n
  OBVIOUS
<1>4. m \in MergedMaximum(obs, type)
  BY <1>2, <1>3 DEF MergedMaximum
<1> QED BY <1>1, <1>2, <1>3, <1>4

\* The same for one grid ...
LEMMA GeneralizationCovers ==
  ASSUME NEW obs \in SUBSET Obligation,
         NEW ob \in OfKind(obs, "GENERALIZE_LOCATION")
  PROVE  \E m \in MergedGeneralizations(obs) :
           /\ m.type = ob.type /\ m.fields = ob.fields /\ m.method = ob.method
           /\ m.amount \in Nat /\ ob.amount <= m.amount
<1> DEFINE Same == {c \in OfKind(obs, "GENERALIZE_LOCATION") :
                      c.fields = ob.fields /\ c.method = ob.method}
           Amounts == {b.amount : b \in Same}
           m == [ob EXCEPT !.amount = Max(Amounts)]
<1>1. Amounts \in SUBSET (0 .. MaxAmount) /\ ob.amount \in Amounts /\ Amounts # {}
  BY DEF OfKind, Obligation
<1>2. Max(Amounts) \in Nat /\ \A k \in Amounts : k <= Max(Amounts)
  <2> HIDE DEF Amounts
  <2> QED BY <1>1, MaxNat, AmountAssumption
<1>3. Max(Amounts) \in Nat /\ ob.amount <= Max(Amounts)
  <2> HIDE DEF Amounts
  <2> QED BY <1>1, <1>2
<1>4. m \in MergedGeneralizations(obs)
  BY DEF MergedGeneralizations
<1>5. /\ m.type = ob.type /\ m.fields = ob.fields /\ m.method = ob.method
      /\ m.amount = Max(Amounts)
  BY DEF OfKind, Obligation
<1> HIDE DEF m, Amounts
<1> QED BY <1>3, <1>4, <1>5

\* ... and for the masks of one method.
LEMMA MaskCovers ==
  ASSUME NEW obs \in SUBSET Obligation, NEW ob \in OfKind(obs, "MASK")
  PROVE  \E m \in MergedMasks(obs) :
           m.type = "MASK" /\ m.method = ob.method /\ ob.fields \subseteq m.fields
<1> DEFINE U == UNION {b.fields : b \in {c \in OfKind(obs, "MASK") : c.method = ob.method}}
           m == [ob EXCEPT !.fields = U]
<1>1. ob.fields \subseteq U
  OBVIOUS
<1>2. m \in MergedMasks(obs)
  BY DEF MergedMasks
<1>3. m.type = "MASK" /\ m.method = ob.method /\ m.fields = U
  BY DEF OfKind, Obligation
<1> HIDE DEF m, U
<1> QED BY <1>1, <1>2, <1>3

\* The set normalize_obligations merges.
CanonicalSet(obs) == {Canonical(o) : o \in obs}

(* The normalizer and the verifier together: operators that enforce every  *)
(* merged obligation enforce every obligation as the rules wrote it.       *)
LEMMA NormalizedCovers ==
  ASSUME NEW obs \in SUBSET Obligation, \A o \in obs : WellFormed(o),
         NEW ob \in obs,
         NEW ops, \A op \in ops : op.amount \in Nat,
         \A m \in Normalized(CanonicalSet(obs)) :
           m.type # "VERSION_PIN" => \E op \in ops : Enforces(op, m)
  PROVE  /\ ob.type # "EXPORT_CONTROL"
         /\ ob.type = "MASK" =>
              \A f \in ob.fields : \E op \in ops :
                op.type = "Mask" /\ f \in op.fields /\ op.method = Canonical(ob).method
         /\ ob.type \in {"GENERALIZE_LOCATION", "MIN_GROUP_SIZE", "LINEAGE_CAPTURE"} =>
              \E op \in ops : Enforces(op, Canonical(ob))
<1> DEFINE C == CanonicalSet(obs)
           c == Canonical(ob)
<1>1. C \in SUBSET Obligation /\ c \in C
  BY CanonicalObligation DEF CanonicalSet
<1>2. c \in Obligation /\ c.type = ob.type /\ c.fields = ob.fields /\ c.amount = ob.amount
  BY CanonicalObligation
<1>3. c.amount \in Nat
  BY <1>2 DEF Obligation
<1>4. \A m \in Normalized(C) :
        m.type # "VERSION_PIN" => \E op \in ops : op.amount \in Nat /\ Enforces(op, m)
  OBVIOUS
<1> HIDE DEF C, c
<1>5. CASE ob.type = "EXPORT_CONTROL"
  <2>1. c \in Normalized(C) /\ c.type = "EXPORT_CONTROL"
    BY <1>1, <1>2, <1>5 DEF Normalized, OfKind
  <2>2. \A op \in ops : ~Enforces(op, c)
    BY <2>1 DEF Enforces
  <2> QED BY <1>4, <2>1, <2>2
<1>6. ASSUME ob.type = "MASK", NEW f \in ob.fields
      PROVE  \E op \in ops : op.type = "Mask" /\ f \in op.fields /\ op.method = c.method
  <2>1. c \in OfKind(C, "MASK")
    BY <1>1, <1>2, <1>6 DEF OfKind
  <2>2. PICK m \in MergedMasks(C) :
          m.type = "MASK" /\ m.method = c.method /\ c.fields \subseteq m.fields
    BY <1>1, <2>1, MaskCovers
  <2>3. m \in Normalized(C)
    BY <2>2 DEF Normalized
  <2>4. PICK op \in ops : Enforces(op, m)
    BY <1>4, <2>2, <2>3
  <2> QED BY <1>2, <2>2, <2>4 DEF Enforces, EnforcerOf
<1>7. CASE ob.type = "GENERALIZE_LOCATION"
  <2>1. c \in OfKind(C, "GENERALIZE_LOCATION")
    BY <1>1, <1>2, <1>7 DEF OfKind
  <2>2. PICK m \in MergedGeneralizations(C) :
          /\ m.type = c.type /\ m.fields = c.fields /\ m.method = c.method
          /\ m.amount \in Nat /\ c.amount <= m.amount
    BY <1>1, <2>1, GeneralizationCovers
  <2>3. m \in Normalized(C) /\ m.type # "VERSION_PIN"
    BY <1>2, <1>7, <2>2 DEF Normalized
  <2>4. PICK op \in ops : op.amount \in Nat /\ Enforces(op, m)
    BY <1>4, <2>3
  <2>5. Enforces(op, c)
    BY <1>3, <2>2, <2>4 DEF Enforces
  <2> QED BY <1>7, <2>5 DEF c
<1>8. CASE ob.type \in {"MIN_GROUP_SIZE", "LINEAGE_CAPTURE"}
  <2>1. c \in OfKind(C, ob.type)
    BY <1>1, <1>2 DEF OfKind
  <2>2. PICK m \in MergedMaximum(C, ob.type) : c.amount <= m.amount
    BY <1>1, <2>1, MaximumCovers
  <2>3. m \in C /\ m.type = ob.type
    BY <2>2 DEF MergedMaximum, OfKind
  <2>4. m \in Normalized(C) /\ m.type # "VERSION_PIN"
    BY <1>8, <2>2, <2>3 DEF Normalized
  <2>5. \A x \in C : x.type \in {"MIN_GROUP_SIZE", "LINEAGE_CAPTURE"} =>
          x.fields = {} /\ x.method = NoMethod
    BY CanonicalObligation DEF C, CanonicalSet
  <2>6. m.fields = c.fields /\ m.method = c.method
    BY <1>1, <1>2, <1>8, <2>3, <2>5
  <2>7. m.amount \in Nat
    BY <1>1, <2>3 DEF Obligation
  <2>8. PICK op \in ops : op.amount \in Nat /\ Enforces(op, m)
    BY <1>4, <2>4
  <2>9. Enforces(op, c)
    BY <1>2, <1>3, <2>2, <2>3, <2>6, <2>7, <2>8 DEF Enforces
  <2> QED BY <1>8, <2>9 DEF c
<1> QED
  <2>1. ob.type # "EXPORT_CONTROL"
    BY <1>5
  <2> QED BY <2>1, <1>6, <1>7, <1>8 DEF c

(* What the rewriter copies into an enforcer is a number.                  *)
LEMMA NormalizedAmounts ==
  ASSUME NEW obs \in SUBSET Obligation, NEW m \in Normalized(obs)
  PROVE  m.amount \in Nat
<1>1. CASE m \in OfKind(obs, "VERSION_PIN") \cup OfKind(obs, "EXPORT_CONTROL")
             \cup MergedMaximum(obs, "MIN_GROUP_SIZE")
             \cup MergedMaximum(obs, "LINEAGE_CAPTURE")
  BY <1>1 DEF OfKind, MergedMaximum, Obligation
<1>2. CASE m \in MergedMasks(obs)
  <2>1. PICK a \in OfKind(obs, "MASK") : m =
          [a EXCEPT !.fields =
            UNION {b.fields : b \in {c \in OfKind(obs, "MASK") : c.method = a.method}}]
    BY <1>2 DEF MergedMasks
  <2> QED BY <2>1 DEF OfKind, Obligation
<1>3. CASE m \in MergedGeneralizations(obs)
  <2> DEFINE Amounts(a) ==
        {b.amount : b \in {c \in OfKind(obs, "GENERALIZE_LOCATION") :
                             c.fields = a.fields /\ c.method = a.method}}
  <2>1. PICK a \in OfKind(obs, "GENERALIZE_LOCATION") :
          m = [a EXCEPT !.amount = Max(Amounts(a))]
    BY <1>3 DEF MergedGeneralizations
  <2>2. Amounts(a) \in SUBSET (0 .. MaxAmount) /\ Amounts(a) # {}
    BY DEF OfKind, Obligation
  <2>3. Max(Amounts(a)) \in Nat
    <3> HIDE DEF Amounts
    <3> QED BY <2>2, MaxNat, AmountAssumption
  <2>4. m.amount = Max(Amounts(a))
    <3> HIDE DEF Amounts
    <3> QED BY <2>1 DEF OfKind, Obligation
  <2> QED BY <2>3, <2>4
<1> QED BY <1>1, <1>2, <1>3 DEF Normalized
-----------------------------------------------------------------------------
(* The inductive invariant: the rewritten plan extends the candidate's,    *)
(* and each stage that was passed leaves behind what it checked.           *)

\* The rewriter only appends.
PlanExtendsCandidate ==
  /\ plan.operators \in Seq(Range(plan.operators))
  /\ \A op \in Range(plan.operators) : op.amount \in Nat
  /\ \A k \in DOMAIN candidate.operators :
       k \in DOMAIN plan.operators /\ plan.operators[k] = candidate.operators[k]

\* The stages that rely on the normalized obligations.
PastNormalization ==
  pc \in {"rewrite", "regraph", "retype", "bind", "verify"} \/ Validated

\* What BindSnapshots checks.
ScansResolvable == \A k \in Scans(plan) : Resolvable(plan.operators[k])

\* What the first checks and the merge leave.
IInv ==
  /\ candidate \in Candidates
  /\ policy \in Policies[candidate]
  /\ PlanExtendsCandidate
  /\ pc = "normalize" => Decision = "PERMIT" /\ obligations = Permitted
  /\ PastNormalization =>
       /\ Decision = "PERMIT"
       /\ \A ob \in Permitted : WellFormed(ob)
       /\ obligations = Normalized(CanonicalSet(Permitted))
       /\ remaining \subseteq obligations
  /\ pc = "verify" \/ Validated => ScansResolvable /\ bindings = Bound
  /\ Validated => PostconditionsHold
  /\ pc # "answered" => response = NoResponse

\* Policies are sets of obligations of the six types.
LEMMA PermittedObligations ==
  ASSUME candidate \in Candidates, policy \in Policies[candidate]
  PROVE  Permitted \in SUBSET Obligation
<1>1. \A rule \in policy : rule.obligations \subseteq Obligation
  BY PolicyAssumption
<1> QED BY <1>1 DEF Permitted, WithDecision, Matched

\* Appending keeps the positions.
LEMMA AppendOperator ==
  ASSUME NEW s, s \in Seq(Range(s)), NEW e
  PROVE  /\ Append(s, e) \in Seq(Range(Append(s, e)))
         /\ Range(Append(s, e)) = Range(s) \cup {e}
         /\ \A k \in DOMAIN s : k \in DOMAIN Append(s, e) /\ Append(s, e)[k] = s[k]
<1> DEFINE T == Range(s) \cup {e}
<1>1. s \in Seq(T) /\ e \in T
  BY DEF Range
<1>2. /\ Append(s, e) \in Seq(T)
      /\ Len(Append(s, e)) = Len(s) + 1
      /\ \A k \in 1 .. Len(s) : Append(s, e)[k] = s[k]
      /\ Append(s, e)[Len(s) + 1] = e
  <2> HIDE DEF T
  <2> QED BY <1>1, AppendProperties
<1>3. DOMAIN s = 1 .. Len(s) /\ DOMAIN Append(s, e) = 1 .. (Len(s) + 1) /\ Len(s) \in Nat
  <2> HIDE DEF T
  <2> QED BY <1>1, <1>2, LenProperties
<1>4. Range(Append(s, e)) = T
  BY <1>2, <1>3 DEF Range
<1> QED BY <1>2, <1>3, <1>4

\* A request as it arrives.
LEMMA InitIInv == Init => IInv
<1> SUFFICES ASSUME Init PROVE IInv
  OBVIOUS
<1>1. candidate \in Candidates /\ policy \in Policies[candidate] /\ pc = "purpose"
      /\ remaining = {} /\ response = NoResponse
      /\ plan.operators = candidate.operators
  BY DEF Init
<1>2. PlanExtendsCandidate
  BY <1>1, CandidateAssumption DEF PlanExtendsCandidate, ParsedOperator
<1>3. ~Validated /\ ~PastNormalization
  BY <1>1 DEF Validated, PastNormalization, NoResponse
<1> QED BY <1>1, <1>2, <1>3 DEF IInv

\* What does not depend on the stage.
LEMMA SameRequest ==
  ASSUME UNCHANGED <<candidate, policy>>
  PROVE  Decision' = Decision /\ Permitted' = Permitted
BY DEF Decision, Permitted, WithDecision, Matched

\* A stage passes its check or answers.
LEMMA StageOutcome ==
  ASSUME NEW here, NEW next, NEW check, NEW reason,
         Stage(here, next, check, reason), response = NoResponse
  PROVE  /\ pc = here
         /\ ~Validated'
         /\ \/ check /\ pc' = next /\ response' = NoResponse
            \/ ~check /\ pc' = "answered"
BY DEF Stage, Answer, Validated, NoResponse

\* One stage of validate(), or one turn of its loop.
LEMMA StepIInv == IInv /\ [Next]_validatorVars => IInv'
<1> SUFFICES ASSUME IInv, [Next]_validatorVars PROVE IInv'
  OBVIOUS
<1> USE DEF IInv
<1>s. candidate' = candidate /\ policy' = policy
  BY DEF Next, validatorVars, CheckPurpose, CheckGraph, CheckTypes, EvaluatePolicy,
         Normalize, Rewrite, EndRewrite, RecheckGraph, RecheckTypes, BindSnapshots,
         VerifyObligations
<1>d. Decision' = Decision /\ Permitted' = Permitted
  BY <1>s, SameRequest
<1>p. plan' = plan => PlanExtendsCandidate'
  BY <1>s DEF PlanExtendsCandidate
<1>1. CASE CheckPurpose
  <2>1. /\ pc = "purpose" /\ response = NoResponse
        /\ UNCHANGED <<obligations, remaining, plan, bindings>>
        /\ pc' \in {"answered", "graph"}
        /\ pc' = "graph" => response' = response
        /\ response'.status \in {"none", "CLARIFY"}
    BY <1>1 DEF CheckPurpose, Answer, NoResponse
  <2>2. ~Validated' /\ ~PastNormalization'
    BY <2>1 DEF Validated, PastNormalization
  <2> QED BY <1>s, <1>p, <2>1, <2>2
<1>2. CASE CheckGraph
  <2>1. /\ Stage("graph", "types", ValidGraph(plan), "GRAPH") /\ pc = "graph"
        /\ UNCHANGED <<obligations, remaining, plan, bindings>>
    BY <1>2 DEF CheckGraph, Stage
  <2>2. ~Validated' /\ ((pc' = "types" /\ response' = NoResponse) \/ pc' = "answered")
    BY <2>1, StageOutcome
  <2>3. ~PastNormalization'
    BY <2>2 DEF PastNormalization
  <2> QED BY <1>s, <1>p, <2>1, <2>2, <2>3
<1>3. CASE CheckTypes
  <2>1. /\ Stage("types", "policy", TypeChecks(plan, candidate.requested), "TYPES")
        /\ pc = "types" /\ UNCHANGED <<obligations, remaining, plan, bindings>>
    BY <1>3 DEF CheckTypes, Stage
  <2>2. ~Validated' /\ ((pc' = "policy" /\ response' = NoResponse) \/ pc' = "answered")
    BY <2>1, StageOutcome
  <2>3. ~PastNormalization'
    BY <2>2 DEF PastNormalization
  <2> QED BY <1>s, <1>p, <2>1, <2>2, <2>3
<1>4. CASE EvaluatePolicy
  <2>1. /\ Stage("policy", "normalize", Decision = "PERMIT", Decision) /\ pc = "policy"
        /\ obligations' = IF Decision = "PERMIT" THEN Permitted ELSE {}
        /\ UNCHANGED <<remaining, plan, bindings>>
    BY <1>4 DEF EvaluatePolicy, Stage
  <2>2. /\ ~Validated'
        /\ \/ Decision = "PERMIT" /\ pc' = "normalize" /\ response' = NoResponse
           \/ pc' = "answered"
    BY <2>1, StageOutcome
  <2>3. ~PastNormalization'
    BY <2>2 DEF PastNormalization
  <2> QED BY <1>s, <1>d, <1>p, <2>1, <2>2, <2>3
<1>5. CASE Normalize
  <2> DEFINE canonical == {Canonical(ob) : ob \in obligations}
             sound == /\ \A ob \in obligations : WellFormed(ob)
                      /\ ~MasksConflict(canonical)
             merged == IF sound THEN Normalized(canonical) ELSE {}
  <2>1. /\ Stage("normalize", "rewrite", sound, "NORMALIZATION_CONFLICT")
        /\ pc = "normalize" /\ obligations' = merged /\ remaining' = merged
        /\ UNCHANGED <<plan, bindings>>
    BY <1>5 DEF Normalize, Stage
  <2>2. /\ ~Validated'
        /\ (sound /\ pc' = "rewrite" /\ response' = NoResponse) \/ pc' = "answered"
    <3> HIDE DEF sound
    <3> QED BY <2>1, StageOutcome
  <2>3. obligations = Permitted /\ Decision = "PERMIT"
    BY <2>1
  <2>4. pc' = "rewrite" =>
          /\ \A ob \in Permitted : WellFormed(ob)
          /\ obligations' = Normalized(CanonicalSet(Permitted))
    BY <2>1, <2>2, <2>3 DEF CanonicalSet
  <2> HIDE DEF merged, sound, canonical
  <2>5. PastNormalization' => pc' = "rewrite"
    BY <2>2 DEF PastNormalization
  <2> QED BY <1>s, <1>d, <1>p, <2>1, <2>2, <2>3, <2>4, <2>5
<1>6. ASSUME NEW ob \in remaining, Rewrite(ob) PROVE IInv'
  <2>1. /\ Stage("rewrite", "rewrite", ~Unenforceable(ob), "OBLIGATION_CONFLICT")
        /\ pc = "rewrite"
        /\ remaining' = remaining \ {ob}
        /\ plan' = plan \/ plan' = Append1(ob)
        /\ UNCHANGED <<obligations, bindings>>
    BY <1>6 DEF Rewrite, Stage
  <2>2. /\ ~Validated'
        /\ (pc' = "rewrite" /\ response' = NoResponse) \/ pc' = "answered"
    BY <2>1, StageOutcome
  <2>3. PastNormalization
    BY <2>1 DEF PastNormalization
  <2>4. ob.amount \in Nat
    <3>1. CanonicalSet(Permitted) \in SUBSET Obligation
      BY <2>3, PermittedObligations, CanonicalObligation DEF CanonicalSet
    <3>2. ob \in Normalized(CanonicalSet(Permitted))
      BY <2>3
    <3> QED BY <3>1, <3>2, NormalizedAmounts
  <2>5. PlanExtendsCandidate'
    <3>1. CASE plan' = plan
      BY <3>1, <1>p
    <3>2. ASSUME plan' = Append1(ob) PROVE PlanExtendsCandidate'
      <4>1. PICK e : e.amount = ob.amount /\ plan'.operators = Append(plan.operators, e)
        BY <3>2 DEF Append1, Enforcer
      <4>2. plan.operators \in Seq(Range(plan.operators))
        BY DEF PlanExtendsCandidate
      <4>3. /\ plan'.operators \in Seq(Range(plan'.operators))
            /\ Range(plan'.operators) = Range(plan.operators) \cup {e}
            /\ \A k \in DOMAIN plan.operators :
                 k \in DOMAIN plan'.operators /\ plan'.operators[k] = plan.operators[k]
        BY <4>1, <4>2, AppendOperator
      <4> QED BY <1>s, <2>4, <4>1, <4>3 DEF PlanExtendsCandidate
    <3> QED BY <2>1, <3>1, <3>2
  <2> QED BY <1>s, <1>d, <2>1, <2>2, <2>3, <2>5 DEF PastNormalization
<1>7. CASE EndRewrite
  <2>1. /\ Stage("rewrite", "regraph", TRUE, "none") /\ pc = "rewrite"
        /\ UNCHANGED <<obligations, remaining, plan, bindings>>
    BY <1>7 DEF EndRewrite, Stage
  <2>2. ~Validated' /\ pc' = "regraph" /\ response' = NoResponse
    BY <2>1, StageOutcome
  <2> QED BY <1>s, <1>d, <1>p, <2>1, <2>2 DEF PastNormalization
<1>8. CASE RecheckGraph
  <2>1. /\ Stage("regraph", "retype", ValidGraph(plan), "REWRITTEN_GRAPH")
        /\ pc = "regraph" /\ UNCHANGED <<obligations, remaining, plan, bindings>>
    BY <1>8 DEF RecheckGraph, Stage
  <2>2. ~Validated' /\ ((pc' = "retype" /\ response' = NoResponse) \/ pc' = "answered")
    BY <2>1, StageOutcome
  <2> QED BY <1>s, <1>d, <1>p, <2>1, <2>2 DEF PastNormalization
<1>9. CASE RecheckTypes
  <2>1. /\ Stage("retype", "bind", TypeChecks(plan, candidate.requested), "REWRITTEN_TYPES")
        /\ pc = "retype" /\ UNCHANGED <<obligations, remaining, plan, bindings>>
    BY <1>9 DEF RecheckTypes, Stage
  <2>2. ~Validated' /\ ((pc' = "bind" /\ response' = NoResponse) \/ pc' = "answered")
    BY <2>1, StageOutcome
  <2> QED BY <1>s, <1>d, <1>p, <2>1, <2>2 DEF PastNormalization
<1>10. CASE BindSnapshots
  <2>1. /\ Stage("bind", "verify", ScansResolvable, "VERSION_UNRESOLVED")
        /\ pc = "bind"
        /\ bindings' = IF ScansResolvable THEN Bound ELSE bindings
        /\ UNCHANGED <<obligations, remaining, plan>>
    BY <1>10 DEF BindSnapshots, Stage, ScansResolvable
  <2>2. /\ ~Validated'
        /\ \/ ScansResolvable /\ pc' = "verify" /\ response' = NoResponse
           \/ pc' = "answered"
    BY <2>1, StageOutcome
  <2>3. ScansResolvable' = ScansResolvable /\ Bound' = Bound
    BY <2>1 DEF ScansResolvable, Bound
  <2> QED BY <1>s, <1>d, <1>p, <2>1, <2>2, <2>3 DEF PastNormalization
<1>11. CASE VerifyObligations
  <2>1. /\ pc = "verify" /\ pc' = "answered"
        /\ Validated' => PostconditionsHold
        /\ UNCHANGED <<obligations, remaining, plan, bindings>>
    BY <1>11 DEF VerifyObligations, Answer, Validated
  <2>2. /\ ScansResolvable' = ScansResolvable /\ Bound' = Bound
        /\ PostconditionsHold' = PostconditionsHold
    BY <1>s, <2>1 DEF ScansResolvable, Bound, PostconditionsHold, Met
  <2> QED BY <1>s, <1>d, <1>p, <2>1, <2>2 DEF PastNormalization
<1>12. CASE UNCHANGED validatorVars
  <2>1. /\ UNCHANGED <<obligations, remaining, plan, bindings, pc, response>>
    BY <1>12 DEF validatorVars
  <2>2. /\ ScansResolvable' = ScansResolvable /\ Bound' = Bound
        /\ PostconditionsHold' = PostconditionsHold
        /\ Validated' = Validated /\ PastNormalization' = PastNormalization
    BY <1>s, <2>1 DEF ScansResolvable, Bound, PostconditionsHold, Met, Validated,
                      PastNormalization
  <2> QED BY <1>s, <1>d, <1>p, <2>1, <2>2
<1> QED BY <1>1, <1>2, <1>3, <1>4, <1>5, <1>6, <1>7, <1>8, <1>9, <1>10, <1>11, <1>12
        DEF Next
-----------------------------------------------------------------------------
\* The last scan of a dataset is one of its scans, and its version exists.
LEMMA ScannedAreBound ==
  ASSUME PlanExtendsCandidate, ScansResolvable, bindings = Bound,
         NEW d \in Scanned(candidate)
  PROVE  bindings[d] \in Catalog[d].versions
<1> DEFINE K == {k \in Scans(plan) : plan.operators[k].dataset = d}
<1>1. PICK j \in Scans(candidate) : candidate.operators[j].dataset = d
  BY DEF Scanned
<1>2. j \in K
  BY <1>1 DEF Scans, OfType, PlanExtendsCandidate
<1>3. Len(plan.operators) \in Nat /\ DOMAIN plan.operators = 1 .. Len(plan.operators)
  BY LenProperties DEF PlanExtendsCandidate
<1>4. K \in SUBSET (0 .. Len(plan.operators)) /\ K # {}
  BY <1>2, <1>3 DEF Scans, OfType
<1>5. Max(K) \in K
  <2> HIDE DEF K
  <2> QED BY <1>3, <1>4, MaxNat
<1>6. d \in Scanned(plan)
  BY <1>2 DEF Scanned
<1>7. bindings[d] = Resolved(plan.operators[Max(K)])
  BY <1>6 DEF Bound
<1> HIDE DEF K
<1>8. Max(K) \in Scans(plan) /\ plan.operators[Max(K)].dataset = d
  BY <1>5 DEF K
<1>9. Resolvable(plan.operators[Max(K)])
  BY <1>8 DEF ScansResolvable
<1> QED BY <1>7, <1>8, <1>9, CatalogAssumption DEF Resolved, Resolvable

\* Met postconditions discharge the obligations of the rules.
LEMMA InvariantEnforcesPolicy == IInv => PolicyEnforced
<1> SUFFICES ASSUME IInv, Validated PROVE
      /\ \A rule \in Matched : rule.decision \in {"PERMIT", "NOT_APPLICABLE"}
      /\ \E rule \in Matched : rule.decision = "PERMIT"
      /\ \A rule \in Matched : rule.decision = "PERMIT" =>
           \A ob \in rule.obligations : Discharged(ob)
  BY DEF PolicyEnforced
<1>1. /\ Decision = "PERMIT" /\ \A ob \in Permitted : WellFormed(ob)
      /\ obligations = Normalized(CanonicalSet(Permitted))
      /\ PostconditionsHold /\ PlanExtendsCandidate
      /\ ScansResolvable /\ bindings = Bound
      /\ candidate \in Candidates /\ policy \in Policies[candidate]
  BY DEF IInv, PastNormalization
<1>2. WithDecision("DENY") = {} /\ WithDecision("INDETERMINATE") = {}
        /\ WithDecision("PERMIT") # {}
  BY <1>1 DEF Decision
<1>3. \A op \in Suffix : op.amount \in Nat
  BY <1>1 DEF Suffix, EnforcementSuffix, PlanExtendsCandidate
<1>4. \A m \in Normalized(CanonicalSet(Permitted)) :
        m.type # "VERSION_PIN" => \E op \in Suffix : Enforces(op, m)
  BY <1>1 DEF PostconditionsHold, Met, Suffix
<1>5. ASSUME NEW ob \in Permitted PROVE Discharged(ob)
  <2>1. Permitted \in SUBSET Obligation /\ ob \in Obligation
    BY <1>1, PermittedObligations
  <2>2. /\ ob.type # "EXPORT_CONTROL"
        /\ ob.type = "MASK" =>
             \A f \in ob.fields : \E op \in Suffix :
               op.type = "Mask" /\ f \in op.fields /\ op.method = Canonical(ob).method
        /\ ob.type \in {"GENERALIZE_LOCATION", "MIN_GROUP_SIZE", "LINEAGE_CAPTURE"} =>
             \E op \in Suffix : Enforces(op, Canonical(ob))
    BY <1>1, <1>3, <1>4, <2>1, NormalizedCovers
  <2>3. ob.type = "VERSION_PIN" =>
          \A d \in Scanned(candidate) : bindings[d] \in Catalog[d].versions
    BY <1>1, ScannedAreBound
  <2>4. ob.type \in ObligationType
    BY <2>1 DEF Obligation
  <2> QED BY <2>2, <2>3, <2>4 DEF Discharged, ObligationType
<1>6. \A rule \in Matched : rule.decision \in {"PERMIT", "NOT_APPLICABLE"}
  BY <1>1, <1>2, PolicyAssumption DEF Matched, WithDecision, PolicyDecision
<1> QED BY <1>2, <1>5, <1>6 DEF WithDecision, Permitted

(* Fail closed, for every catalog, candidate and policy: a validated plan  *)
(* discharges every obligation every permitting rule wrote, and no         *)
(* applicable rule denies it or is indeterminate (validate()).             *)
THEOREM ValidatorEnforcesPolicy == Spec => []PolicyEnforced
<1>1. Init => IInv
  BY InitIInv
<1>2. IInv /\ [Next]_validatorVars => IInv'
  BY StepIInv
<1>3. IInv => PolicyEnforced
  BY InvariantEnforcesPolicy
<1> QED BY <1>1, <1>2, <1>3, PTL DEF Spec
-----------------------------------------------------------------------------
(* The graph check, said of ids.                                           *)

\* The operators o reads.
InputsOf(p, o) == ToSet(OperatorOf(p, o).inputs)

\* An id names one operator.
UniqueIds(p) ==
  \A j, k \in DOMAIN p.operators : p.operators[j].id = p.operators[k].id => j = k

\* Each operator of S reads only operators of S.
Closed(p, S) == \A o \in S : InputsOf(p, o) \subseteq S

\* What validate_graph establishes; reachability and acyclicity by sets of ids.
Sound(p) ==
  /\ \A k \in DOMAIN p.operators :
       Len(p.operators[k].inputs) = Arity(p.operators[k].type)
  /\ UniqueIds(p)
  /\ Closed(p, Ids(p))
  /\ p.output \in Ids(p)
  /\ \A S \in SUBSET Ids(p) : S # {} => \E o \in S : InputsOf(p, o) \cap S = {}
  /\ \A S \in SUBSET Ids(p) : p.output \in S /\ Closed(p, S) => S = Ids(p)

\* Looking an operator up by its id finds it.
LEMMA OperatorById ==
  ASSUME NEW p, UniqueIds(p)
  PROVE  /\ \A k \in DOMAIN p.operators : OperatorOf(p, p.operators[k].id) = p.operators[k]
         /\ \A o \in Ids(p) : /\ OperatorOf(p, o).id = o
                              /\ \E k \in DOMAIN p.operators : OperatorOf(p, o) = p.operators[k]
<1>1. ASSUME NEW k \in DOMAIN p.operators
      PROVE  OperatorOf(p, p.operators[k].id) = p.operators[k]
  <2> DEFINE j == CHOOSE j \in DOMAIN p.operators : p.operators[j].id = p.operators[k].id
  <2>1. j \in DOMAIN p.operators /\ p.operators[j].id = p.operators[k].id
    OBVIOUS
  <2>2. j = k
    BY <2>1 DEF UniqueIds
  <2> QED BY <2>2 DEF OperatorOf
<1> QED BY <1>1 DEF Ids

\* The graph of a plan, as the graph check reads it.
LEMMA DagMeans ==
  ASSUME NEW p
  PROVE  /\ Dag!Indices(DagOf(p)) = DOMAIN p.operators
         /\ Dag!Known(DagOf(p)) = Ids(p)
         /\ DagOf(p).output = p.output
         /\ \A k \in DOMAIN p.operators :
              /\ DagOf(p).operators[k].id = p.operators[k].id
              /\ DagOf(p).operators[k].inputs = ToSet(p.operators[k].inputs)
         /\ Dag!DuplicateFree(DagOf(p)) <=> UniqueIds(p)
<1>1. /\ DagOf(p).output = p.output
      /\ DOMAIN DagOf(p).operators = DOMAIN p.operators
      /\ \A k \in DOMAIN p.operators :
           /\ DagOf(p).operators[k].id = p.operators[k].id
           /\ DagOf(p).operators[k].inputs = ToSet(p.operators[k].inputs)
  BY DEF DagOf
<1>2. Dag!Indices(DagOf(p)) = DOMAIN p.operators
  BY <1>1 DEF Dag!Indices
<1>3. Dag!Known(DagOf(p)) = Ids(p)
  BY <1>1, <1>2 DEF Dag!Known, Ids
<1>4. Dag!DuplicateFree(DagOf(p)) <=> UniqueIds(p)
  BY <1>1, <1>2 DEF Dag!DuplicateFree, UniqueIds
<1> QED BY <1>1, <1>2, <1>3, <1>4

\* Its edges are the inputs.
LEMMA DagInputs ==
  ASSUME NEW p, UniqueIds(p), p.operators \in Seq(Range(p.operators)), NEW o \in Ids(p)
  PROVE  Dag!Inputs(DagOf(p), o) = InputsOf(p, o)
<1>1. PICK k \in DOMAIN p.operators : p.operators[k].id = o
  BY DEF Ids
<1> DEFINE L(i) == /\ DagOf(p).operators[i].id = o
                   /\ \A j \in DOMAIN p.operators : DagOf(p).operators[j].id = o => j <= i
           i == Dag!LastIndex(DagOf(p), o)
<1>2. i = CHOOSE n \in DOMAIN p.operators : L(n)
  BY DagMeans DEF Dag!LastIndex
<1>3. L(k)
  <2>1. k \in Nat
    BY LenProperties
  <2>2. \A j \in DOMAIN p.operators : DagOf(p).operators[j].id = o => j = k
    BY <1>1, DagMeans DEF UniqueIds
  <2> QED BY <1>1, <2>1, <2>2, DagMeans
<1>4. i \in DOMAIN p.operators /\ L(i)
  <2> HIDE DEF L, i
  <2> QED BY <1>2, <1>3
<1>5. i = k
  <2>1. DagOf(p).operators[i].id = p.operators[i].id
    BY <1>4, DagMeans
  <2> HIDE DEF i
  <2> QED BY <1>1, <1>4, <2>1 DEF UniqueIds
<1>6. Dag!Inputs(DagOf(p), o) = ToSet(p.operators[k].inputs)
  BY <1>5, DagMeans DEF Dag!Inputs
<1>7. OperatorOf(p, o) = p.operators[k]
  BY <1>1, OperatorById
<1> QED BY <1>6, <1>7 DEF InputsOf

\* The graph check finds nothing exactly in sound plans.
LEMMA GraphMeans ==
  ASSUME NEW p, p.operators \in Seq(Range(p.operators))
  PROVE  ValidGraph(p) <=> Sound(p)
<1> DEFINE D == DagOf(p)
<1>1. /\ Dag!Known(D) = Ids(p) /\ D.output = p.output /\ Dag!Indices(D) = DOMAIN p.operators
      /\ \A k \in DOMAIN p.operators : D.operators[k].inputs = ToSet(p.operators[k].inputs)
      /\ Dag!DuplicateFree(D) <=> UniqueIds(p)
  BY DagMeans
<1>2. SUFFICES ASSUME UniqueIds(p)
               PROVE  Dag!ValidPhysicalPlanDag(D) <=>
                      /\ Closed(p, Ids(p))
                      /\ p.output \in Ids(p)
                      /\ \A S \in SUBSET Ids(p) : S # {} => \E o \in S : InputsOf(p, o) \cap S = {}
                      /\ \A S \in SUBSET Ids(p) : p.output \in S /\ Closed(p, S) => S = Ids(p)
  BY <1>1 DEF ValidGraph, Sound, Dag!ValidPhysicalPlanDag
<1>3. \A o \in Ids(p) : Dag!Inputs(D, o) = InputsOf(p, o)
  BY <1>2, DagInputs
<1> HIDE DEF D
<1>4. Dag!InputsKnown(D) <=> Closed(p, Ids(p))
  <2>1. \A k \in DOMAIN p.operators : InputsOf(p, p.operators[k].id) = ToSet(p.operators[k].inputs)
    BY <1>2, OperatorById DEF InputsOf
  <2> QED BY <1>1, <2>1 DEF Dag!InputsKnown, Closed, Ids
<1>5. Dag!OutputKnown(D) <=> p.output \in Ids(p)
  BY <1>1 DEF Dag!OutputKnown
<1>6. Dag!Acyclic(D) <=>
        \A S \in SUBSET Ids(p) : S # {} => \E o \in S : InputsOf(p, o) \cap S = {}
  <2>1. \A S \in SUBSET Ids(p) : \A o \in S : Dag!Inputs(D, o) = InputsOf(p, o)
    BY <1>3
  <2> QED BY <1>1, <2>1, Zenon DEF Dag!Acyclic
<1>7. ASSUME Closed(p, Ids(p)), p.output \in Ids(p)
      PROVE  Dag!AllReachable(D) <=>
             \A S \in SUBSET Ids(p) : p.output \in S /\ Closed(p, S) => S = Ids(p)
  <2>1. \A S \in SUBSET Ids(p) : Dag!InputClosed(D, S) <=> Closed(p, S)
    BY <1>1, <1>3, <1>7 DEF Dag!InputClosed, Closed
  <2> QED BY <1>1, <1>5, <1>7, <2>1, Zenon DEF Dag!AllReachable
<1> QED BY <1>2, <1>1, <1>4, <1>5, <1>6, <1>7 DEF Dag!ValidPhysicalPlanDag
-----------------------------------------------------------------------------
(* What appending an enforcer does to a plan.                              *)

\* Operators and inputs are in sequences, as parsing delivers them.
Listed(p) ==
  /\ p.operators \in Seq(Range(p.operators))
  /\ \A k \in DOMAIN p.operators :
       p.operators[k].inputs \in Seq(ToSet(p.operators[k].inputs))

\* q is p with e appended after its output.
Appends(q, p, e) ==
  /\ q = [operators |-> Append(p.operators, e), output |-> e.id]
  /\ e.id \notin Ids(p) /\ e.inputs = <<p.output>> /\ Arity(e.type) = 1

\* Nothing that was there changes, and e is found by its fresh id.
LEMMA AppendedOperators ==
  ASSUME NEW p, Listed(p), Sound(p), NEW e, NEW q, Appends(q, p, e)
  PROVE  /\ Listed(q) /\ UniqueIds(q) /\ q.output = e.id
         /\ Ids(q) = Ids(p) \cup {e.id}
         /\ Range(q.operators) = Range(p.operators) \cup {e}
         /\ \A k \in DOMAIN q.operators :
              q.operators[k] = e \/ \E j \in DOMAIN p.operators : q.operators[k] = p.operators[j]
         /\ \A o \in Ids(p) : OperatorOf(q, o) = OperatorOf(p, o)
         /\ OperatorOf(q, e.id) = e
<1>1. q.operators = Append(p.operators, e) /\ q.output = e.id
  BY DEF Appends
<1>2. /\ q.operators \in Seq(Range(q.operators))
      /\ Range(q.operators) = Range(p.operators) \cup {e}
      /\ \A k \in DOMAIN p.operators :
           k \in DOMAIN q.operators /\ q.operators[k] = p.operators[k]
  BY <1>1, AppendOperator DEF Listed
<1>3. /\ DOMAIN p.operators = 1 .. Len(p.operators) /\ Len(p.operators) \in Nat
      /\ Len(q.operators) = Len(p.operators) + 1
      /\ q.operators[Len(p.operators) + 1] = e
      /\ DOMAIN q.operators = 1 .. (Len(p.operators) + 1)
  <2> DEFINE T == Range(p.operators) \cup {e}
  <2>1. p.operators \in Seq(T) /\ e \in T
    BY DEF Range, Listed
  <2> HIDE DEF T
  <2> QED BY <1>1, <2>1, AppendProperties, LenProperties
<1>4. PICK n \in Nat : n = Len(p.operators)
  BY <1>3
<1>5. \A k \in DOMAIN q.operators : k \in DOMAIN p.operators \/ k = n + 1
  BY <1>3, <1>4
<1>6. n + 1 \in DOMAIN q.operators /\ q.operators[n + 1] = e
  BY <1>3, <1>4
<1>7. \A k \in DOMAIN q.operators :
        q.operators[k] = e \/ \E j \in DOMAIN p.operators : q.operators[k] = p.operators[j]
  BY <1>2, <1>5, <1>6
<1>8. Ids(q) = Ids(p) \cup {e.id}
  BY <1>2, <1>5, <1>6 DEF Ids
<1>9. UniqueIds(q)
  <2>1. \A k \in DOMAIN p.operators : p.operators[k].id # e.id
    BY DEF Appends, Ids
  <2> QED BY <1>2, <1>5, <1>6, <2>1 DEF UniqueIds, Sound
<1>10. \A o \in Ids(p) : OperatorOf(q, o) = OperatorOf(p, o)
  <2> SUFFICES ASSUME NEW k \in DOMAIN p.operators
               PROVE  OperatorOf(q, p.operators[k].id) = OperatorOf(p, p.operators[k].id)
    BY DEF Ids
  <2>1. OperatorOf(p, p.operators[k].id) = p.operators[k]
    BY OperatorById DEF Sound
  <2>2. OperatorOf(q, q.operators[k].id) = q.operators[k] /\ q.operators[k] = p.operators[k]
    BY <1>2, <1>9, OperatorById
  <2> QED BY <2>1, <2>2
<1>11. OperatorOf(q, e.id) = e
  BY <1>6, <1>9, OperatorById
<1>12. \A k \in DOMAIN q.operators :
         q.operators[k].inputs \in Seq(ToSet(q.operators[k].inputs))
  <2>1. e.inputs \in Seq(ToSet(e.inputs))
    <3>1. e.inputs = <<p.output>> /\ ToSet(e.inputs) = {p.output}
      BY DEF Appends, ToSet
    <3> QED BY <3>1
  <2>2. \A j \in DOMAIN p.operators :
          p.operators[j].inputs \in Seq(ToSet(p.operators[j].inputs))
    BY DEF Listed
  <2> QED BY <1>7, <2>1, <2>2, Zenon
<1> QED BY <1>1, <1>2, <1>7, <1>8, <1>9, <1>10, <1>11, <1>12 DEF Listed

\* The recheck of the graph finds nothing new.
LEMMA AppendedIsSound ==
  ASSUME NEW p, Listed(p), Sound(p), NEW e, NEW q, Appends(q, p, e)
  PROVE  Sound(q)
<1>1. /\ Listed(q) /\ UniqueIds(q) /\ q.output = e.id
      /\ Ids(q) = Ids(p) \cup {e.id}
      /\ \A k \in DOMAIN q.operators :
           q.operators[k] = e \/ \E j \in DOMAIN p.operators : q.operators[k] = p.operators[j]
      /\ \A o \in Ids(p) : OperatorOf(q, o) = OperatorOf(p, o)
      /\ OperatorOf(q, e.id) = e
  BY AppendedOperators
<1>2. e.inputs = <<p.output>> /\ Arity(e.type) = 1 /\ e.id \notin Ids(p)
  BY DEF Appends
<1>3. \A o \in Ids(p) : InputsOf(q, o) = InputsOf(p, o) /\ InputsOf(p, o) \subseteq Ids(p)
  BY <1>1 DEF InputsOf, Sound, Closed
<1>4. InputsOf(q, e.id) = {p.output} /\ p.output \in Ids(p)
  BY <1>1, <1>2 DEF InputsOf, ToSet, Sound
<1>5. \A k \in DOMAIN q.operators : Len(q.operators[k].inputs) = Arity(q.operators[k].type)
  <2>1. Len(e.inputs) = Arity(e.type)
    BY <1>2
  <2>2. \A j \in DOMAIN p.operators : Len(p.operators[j].inputs) = Arity(p.operators[j].type)
    BY DEF Sound
  <2> QED BY <1>1, <2>1, <2>2, Zenon
<1>6. Closed(q, Ids(q))
  <2>1. \A o \in Ids(q) : o \in Ids(p) \/ o = e.id
    BY <1>1
  <2>2. \A o \in Ids(q) : InputsOf(q, o) \subseteq Ids(p)
    BY <1>3, <1>4, <2>1
  <2> QED BY <1>1, <2>2 DEF Closed
<1>7. ASSUME NEW S \in SUBSET Ids(q), S # {}
      PROVE  \E o \in S : InputsOf(q, o) \cap S = {}
  <2>1. CASE S \cap Ids(p) = {}
    <3>1. S = {e.id}
      BY <1>1, <1>7, <2>1
    <3> QED BY <1>2, <1>4, <3>1
  <2>2. CASE S \cap Ids(p) # {}
    <3>1. PICK o \in S \cap Ids(p) : InputsOf(p, o) \cap (S \cap Ids(p)) = {}
      <4>1. S \cap Ids(p) \in SUBSET Ids(p)
        OBVIOUS
      <4> QED BY <2>2, <4>1 DEF Sound
    <3>2. InputsOf(q, o) = InputsOf(p, o) /\ InputsOf(p, o) \subseteq Ids(p)
      BY <1>3, <3>1
    <3> QED BY <3>1, <3>2
  <2> QED BY <2>1, <2>2
<1>8. ASSUME NEW S \in SUBSET Ids(q), q.output \in S, Closed(q, S)
      PROVE  S = Ids(q)
  <2>1. p.output \in S
    BY <1>1, <1>4, <1>8 DEF Closed
  <2>2. Closed(p, S \cap Ids(p))
    BY <1>3, <1>8 DEF Closed
  <2>3. S \cap Ids(p) = Ids(p)
    BY <1>4, <2>1, <2>2 DEF Sound
  <2> QED BY <1>1, <1>8, <2>3
<1> QED BY <1>1, <1>5, <1>6, <1>7, <1>8 DEF Sound
-----------------------------------------------------------------------------
(* The walk back from the output.                                          *)

\* One step of the walk.
Back(p, o) == IF Len(OperatorOf(p, o).inputs) = 1 THEN OperatorOf(p, o).inputs[1] ELSE o

\* h is the walk of n steps.
Walks(h, p, n) == h = [m \in 0 .. n |-> IF m = 0 THEN p.output ELSE Back(p, h[m - 1])]

\* A walk begins at the output and goes on by Back.
LEMMA WalkOnce ==
  ASSUME NEW p, NEW n \in Nat, NEW h, Walks(h, p, n)
  PROVE  /\ DOMAIN h = 0 .. n /\ h[0] = p.output
         /\ \A m \in Nat : m < n => h[m + 1] = Back(p, h[m])
<1> DEFINE D == [m \in 0 .. n |-> IF m = 0 THEN p.output ELSE Back(p, h[m - 1])]
<1>1. h = D
  BY DEF Walks
<1>2. DOMAIN D = 0 .. n /\ D[0] = p.output
  OBVIOUS
<1>3. ASSUME NEW m \in Nat, m < n PROVE D[m + 1] = Back(p, h[m])
  <2>1. m + 1 \in 0 .. n /\ m + 1 # 0 /\ m + 1 - 1 = m
    BY <1>3
  <2> QED BY <2>1
<1> HIDE DEF D
<1> QED BY <1>1, <1>2, <1>3

\* There are walks of every length, so that CHOOSE finds one.
LEMMA WalksExist ==
  ASSUME NEW p
  PROVE  \A n \in Nat : \E h : Walks(h, p, n)
<1> DEFINE bad == {n \in Nat : ~\E h : Walks(h, p, n)}
<1> SUFFICES ASSUME bad # {} PROVE FALSE
  OBVIOUS
<1>1. PICK n \in bad : \A k \in bad : n <= k
  <2> HIDE DEF bad
  <2>1. bad \in SUBSET Nat
    BY DEF bad
  <2> QED BY <2>1, LeastNat
<1>2. CASE n = 0
  <2> DEFINE h == [m \in 0 .. 0 |-> p.output]
  <2>1. h = [m \in 0 .. 0 |-> IF m = 0 THEN p.output ELSE Back(p, h[m - 1])]
    OBVIOUS
  <2> QED BY <1>2, <2>1 DEF Walks
<1>3. CASE n # 0
  <2>1. PICK k \in Nat : n = k + 1
    <3>1. n - 1 \in Nat /\ n = (n - 1) + 1
      BY <1>3
    <3> QED BY <3>1
  <2>2. PICK h : Walks(h, p, k)
    BY <1>1, <2>1
  <2>3. /\ DOMAIN h = 0 .. k /\ h[0] = p.output
        /\ \A m \in Nat : m < k => h[m + 1] = Back(p, h[m])
    BY <2>2, WalkOnce
  <2> DEFINE g == [m \in 0 .. n |-> IF m = n THEN Back(p, h[k]) ELSE h[m]]
             D == [m \in 0 .. n |-> IF m = 0 THEN p.output ELSE Back(p, g[m - 1])]
  <2>4. \A m \in 0 .. k : g[m] = h[m]
    BY <2>1
  <2>5. g[n] = Back(p, h[k])
    OBVIOUS
  <2>6. ASSUME NEW m \in 0 .. n PROVE g[m] = IF m = 0 THEN p.output ELSE Back(p, g[m - 1])
    <3> HIDE DEF g
    <3>1. CASE m = 0
      BY <2>3, <2>4, <3>1
    <3>2. CASE m # 0 /\ m # n
      <4>1. m - 1 \in Nat /\ m - 1 < k /\ m - 1 \in 0 .. k /\ m \in 0 .. k /\ (m - 1) + 1 = m
        BY <2>1, <3>2
      <4> QED BY <2>3, <2>4, <3>2, <4>1
    <3>3. CASE m # 0 /\ m = n
      <4>1. m - 1 = k /\ k \in 0 .. k
        BY <2>1, <3>3
      <4> QED BY <2>4, <2>5, <3>3, <4>1
    <3> QED BY <3>1, <3>2, <3>3
  <2>7. g = D
    BY <2>6
  <2>8. Walks(g, p, n)
    BY <2>7 DEF Walks
  <2> QED BY <2>8
<1> QED BY <1>2, <1>3

\* WalkBack is the walk as long as the plan.
LEMMA WalkBackWalks ==
  ASSUME NEW p, Listed(p)
  PROVE  Walks(WalkBack(p), p, Len(p.operators))
<1> DEFINE D(k) == [n \in 0 .. Len(p.operators) |->
                      IF n = 0 THEN p.output
                      ELSE IF Len(OperatorOf(p, k[n - 1]).inputs) = 1
                             THEN OperatorOf(p, k[n - 1]).inputs[1]
                             ELSE k[n - 1]]
           iter == CHOOSE k : k = D(k)
<1>1. \A k : D(k) = [n \in 0 .. Len(p.operators) |-> IF n = 0 THEN p.output ELSE Back(p, k[n - 1])]
  BY DEF Back
<1>2. WalkBack(p) = iter
  BY DEF WalkBack
<1>3. Len(p.operators) \in Nat
  BY LenProperties DEF Listed
<1>4. PICK h : Walks(h, p, Len(p.operators))
  BY <1>3, WalksExist
<1> HIDE DEF D
<1>5. h = D(h)
  BY <1>1, <1>4 DEF Walks
<1>6. iter = D(iter)
  BY <1>5
<1> QED BY <1>1, <1>2, <1>6 DEF Walks
-----------------------------------------------------------------------------
\* Where the walk is after m steps.
WalkOf(p, m) == WalkBack(p)[m]

\* The walk, step by step.
LEMMA WalkSteps ==
  ASSUME NEW p, Listed(p)
  PROVE  /\ Len(p.operators) \in Nat
         /\ DOMAIN WalkBack(p) = 0 .. Len(p.operators)
         /\ WalkOf(p, 0) = p.output
         /\ \A m \in Nat : m < Len(p.operators) => WalkOf(p, m + 1) = Back(p, WalkOf(p, m))
<1>1. Len(p.operators) \in Nat
  BY LenProperties DEF Listed
<1>2. PICK h : h = WalkBack(p)
  OBVIOUS
<1>3. /\ DOMAIN h = 0 .. Len(p.operators) /\ h[0] = p.output
      /\ \A m \in Nat : m < Len(p.operators) => h[m + 1] = Back(p, h[m])
  BY <1>1, <1>2, WalkBackWalks, WalkOnce
<1> QED BY <1>1, <1>2, <1>3 DEF WalkOf

\* It stays in the plan ...
LEMMA BackStays ==
  ASSUME NEW p, Listed(p), Sound(p), NEW o \in Ids(p)
  PROVE  Back(p, o) \in Ids(p)
<1>1. CASE Len(OperatorOf(p, o).inputs) = 1
  <2>1. PICK k \in DOMAIN p.operators : OperatorOf(p, o) = p.operators[k]
    BY OperatorById DEF Sound
  <2>2. InputsOf(p, o) \subseteq Ids(p)
    BY DEF Sound, Closed
  <2>3. 1 \in DOMAIN OperatorOf(p, o).inputs
    BY <1>1, <2>1, LenProperties DEF Listed
  <2>4. OperatorOf(p, o).inputs[1] \in InputsOf(p, o)
    BY <2>3 DEF InputsOf, ToSet
  <2> QED BY <1>1, <2>2, <2>4 DEF Back
<1>2. CASE Len(OperatorOf(p, o).inputs) # 1
  BY <1>2 DEF Back
<1> QED BY <1>1, <1>2

\* ... all the way.
LEMMA WalkInside ==
  ASSUME NEW p, Listed(p), Sound(p)
  PROVE  \A m \in 0 .. Len(p.operators) : WalkOf(p, m) \in Ids(p)
<1> DEFINE bad == {m \in 0 .. Len(p.operators) : WalkOf(p, m) \notin Ids(p)}
<1> SUFFICES ASSUME bad # {} PROVE FALSE
  OBVIOUS
<1>1. /\ Len(p.operators) \in Nat /\ WalkOf(p, 0) = p.output
      /\ \A m \in Nat : m < Len(p.operators) => WalkOf(p, m + 1) = Back(p, WalkOf(p, m))
  BY WalkSteps
<1>2. PICK m \in bad : \A k \in bad : m <= k
  <2>1. bad \in SUBSET Nat
    BY <1>1
  <2> HIDE DEF bad
  <2> QED BY <2>1, LeastNat
<1>3. m # 0
  BY <1>1, <1>2 DEF Sound
<1>4. PICK k \in Nat : m = k + 1
  <2>1. m - 1 \in Nat /\ m = (m - 1) + 1
    BY <1>1, <1>2, <1>3
  <2> QED BY <2>1
<1>5. k < Len(p.operators) /\ k \in 0 .. Len(p.operators) /\ ~(m <= k)
  BY <1>1, <1>2, <1>4
<1>6. WalkOf(p, k) \in Ids(p)
  BY <1>2, <1>5
<1>7. WalkOf(p, m) = Back(p, WalkOf(p, k))
  BY <1>1, <1>4, <1>5
<1> QED BY <1>2, <1>6, <1>7, BackStays

\* The walk of the longer plan takes one step and then that of the shorter.
LEMMA WalkShifts ==
  ASSUME NEW p, Listed(p), Sound(p), NEW e, NEW q, Appends(q, p, e)
  PROVE  /\ Len(q.operators) = Len(p.operators) + 1
         /\ WalkOf(q, 0) = e.id
         /\ \A m \in 0 .. Len(p.operators) : WalkOf(q, m + 1) = WalkOf(p, m)
<1> DEFINE bad == {m \in 0 .. Len(p.operators) : WalkOf(q, m + 1) # WalkOf(p, m)}
<1>1. /\ Len(p.operators) \in Nat /\ WalkOf(p, 0) = p.output
      /\ \A m \in Nat : m < Len(p.operators) => WalkOf(p, m + 1) = Back(p, WalkOf(p, m))
  BY WalkSteps
<1>2. /\ Listed(q) /\ q.output = e.id
      /\ \A o \in Ids(p) : OperatorOf(q, o) = OperatorOf(p, o)
      /\ OperatorOf(q, e.id) = e
  BY AppendedOperators
<1>3. /\ WalkOf(q, 0) = e.id
      /\ \A m \in Nat : m < Len(q.operators) => WalkOf(q, m + 1) = Back(q, WalkOf(q, m))
  BY <1>2, WalkSteps
<1>4. Len(q.operators) = Len(p.operators) + 1
  <2> DEFINE T == Range(p.operators) \cup {e}
  <2>1. p.operators \in Seq(T) /\ e \in T
    BY DEF Range, Listed
  <2>2. q.operators = Append(p.operators, e)
    BY DEF Appends
  <2> HIDE DEF T
  <2> QED BY <2>1, <2>2, AppendProperties
<1>5. bad = {}
  <2> SUFFICES ASSUME bad # {} PROVE FALSE
    OBVIOUS
  <2>1. PICK m \in bad : \A k \in bad : m <= k
    <3>1. bad \in SUBSET Nat
      BY <1>1
    <3> HIDE DEF bad
    <3> QED BY <3>1, LeastNat
  <2>2. m \in Nat /\ m < Len(q.operators)
    BY <1>1, <1>4, <2>1
  <2>3. WalkOf(q, m + 1) = Back(q, WalkOf(q, m))
    BY <1>3, <2>2
  <2>4. CASE m = 0
    <3>1. Back(q, e.id) = p.output
      <4>1. e.inputs = <<p.output>>
        BY DEF Appends
      <4>2. Len(e.inputs) = 1 /\ e.inputs[1] = p.output
        BY <4>1
      <4> QED BY <1>2, <4>2 DEF Back
    <3> QED BY <1>1, <1>3, <2>1, <2>3, <2>4, <3>1
  <2>5. CASE m # 0
    <3>1. PICK k \in Nat : m = k + 1
      <4>1. m - 1 \in Nat /\ m = (m - 1) + 1
        BY <2>2, <2>5
      <4> QED BY <4>1
    <3>2. k < Len(p.operators) /\ k \in 0 .. Len(p.operators) /\ ~(m <= k)
      BY <1>1, <2>1, <3>1
    <3>3. WalkOf(q, m) = WalkOf(p, k)
      BY <2>1, <3>1, <3>2
    <3>4. WalkOf(p, k) \in Ids(p)
      BY <3>2, WalkInside
    <3>5. Back(q, WalkOf(p, k)) = Back(p, WalkOf(p, k))
      BY <1>2, <3>4 DEF Back
    <3>6. WalkOf(p, m) = Back(p, WalkOf(p, k))
      BY <1>1, <3>1, <3>2
    <3> QED BY <2>1, <2>3, <3>3, <3>5, <3>6
  <2> QED BY <2>4, <2>5
<1> QED BY <1>3, <1>4, <1>5

\* Reaching the boundary, in steps.
LEMMA BoundaryMeans ==
  ASSUME NEW p, Listed(p), NEW b
  PROVE  ReachesBoundary(p, b) <=> \E m \in 0 .. Len(p.operators) : b = WalkOf(p, m)
BY WalkSteps DEF ReachesBoundary, Range, WalkOf

\* The enforcement suffix, in steps.
LEMMA SuffixMeans ==
  ASSUME NEW p, Listed(p), NEW b, NEW op
  PROVE  op \in EnforcementSuffix(p, b) <=>
           /\ op \in Range(p.operators)
           /\ \E m \in 0 .. Len(p.operators) :
                op.id = WalkOf(p, m) /\ \A l \in 0 .. m : b # WalkOf(p, l)
BY WalkSteps DEF EnforcementSuffix, WalkOf

(* Appending an enforcer keeps the boundary and the suffix before, and     *)
(* puts the enforcer into the suffix.                                      *)
LEMMA SuffixGrows ==
  ASSUME NEW p, Listed(p), Sound(p), NEW e, NEW q, Appends(q, p, e),
         NEW b \in Ids(p), ReachesBoundary(p, b)
  PROVE  /\ ReachesBoundary(q, b)
         /\ EnforcementSuffix(p, b) \cup {e} \subseteq EnforcementSuffix(q, b)
<1>1. Listed(q) /\ Range(q.operators) = Range(p.operators) \cup {e} /\ b # e.id
  <2>1. Listed(q) /\ Range(q.operators) = Range(p.operators) \cup {e}
    BY AppendedOperators
  <2> QED BY <2>1 DEF Appends
<1>2. /\ Len(p.operators) \in Nat
      /\ Len(q.operators) = Len(p.operators) + 1 /\ WalkOf(q, 0) = e.id
      /\ \A m \in 0 .. Len(p.operators) : WalkOf(q, m + 1) = WalkOf(p, m)
  BY WalkShifts, WalkSteps
<1>3. \A m \in 0 .. Len(p.operators) : m + 1 \in 0 .. Len(q.operators)
  BY <1>2
<1>4. ReachesBoundary(q, b)
  <2>1. PICK m \in 0 .. Len(p.operators) : b = WalkOf(p, m)
    BY BoundaryMeans
  <2> QED BY <1>1, <1>2, <1>3, <2>1, BoundaryMeans
<1>5. e \in EnforcementSuffix(q, b)
  <2>1. 0 \in 0 .. Len(q.operators) /\ \A l \in 0 .. 0 : b # WalkOf(q, l)
    BY <1>1, <1>2
  <2>2. e.id = WalkOf(q, 0) /\ e \in Range(q.operators)
    BY <1>1, <1>2
  <2>3. \E m \in 0 .. Len(q.operators) :
          e.id = WalkOf(q, m) /\ \A l \in 0 .. m : b # WalkOf(q, l)
    BY <2>1, <2>2
  <2> QED BY <1>1, <2>2, <2>3, SuffixMeans
<1>6. ASSUME NEW op \in EnforcementSuffix(p, b) PROVE op \in EnforcementSuffix(q, b)
  <2>1. /\ op \in Range(p.operators)
        /\ \E m \in 0 .. Len(p.operators) :
             op.id = WalkOf(p, m) /\ \A l \in 0 .. m : b # WalkOf(p, l)
    BY SuffixMeans
  <2>2. PICK m \in 0 .. Len(p.operators) :
          op.id = WalkOf(p, m) /\ \A l \in 0 .. m : b # WalkOf(p, l)
    BY <2>1
  <2>3. ASSUME NEW l \in 0 .. (m + 1) PROVE b # WalkOf(q, l)
    <3>1. CASE l = 0
      BY <1>1, <1>2, <3>1
    <3>2. CASE l # 0
      <4>1. PICK k \in Nat : l = k + 1
        <5>1. l - 1 \in Nat /\ l = (l - 1) + 1
          BY <1>2, <2>2, <3>2
        <5> QED BY <5>1
      <4>2. k \in 0 .. m /\ k \in 0 .. Len(p.operators)
        BY <1>2, <2>2, <4>1
      <4> QED BY <1>2, <2>2, <4>1, <4>2
    <3> QED BY <3>1, <3>2
  <2>4. op.id = WalkOf(q, m + 1) /\ m + 1 \in 0 .. Len(q.operators)
    BY <1>2, <1>3, <2>2
  <2> QED BY <1>1, <2>1, <2>3, <2>4, SuffixMeans
<1> QED BY <1>4, <1>5, <1>6
-----------------------------------------------------------------------------
\* The least of a nonempty set of naturals.
LEMMA MinNat ==
  ASSUME NEW S \in SUBSET Nat, S # {}
  PROVE  Min(S) \in S /\ \A n \in S : Min(S) <= n
BY LeastNat DEF Min

\* Of N + 1 numbers two go to the same one of N places.
LEMMA TwoShareOne ==
  ASSUME NEW N \in Nat, NEW f \in [0 .. N -> 1 .. N]
  PROVE  \E m, n \in 0 .. N : m # n /\ f[m] = f[n]
<1> PICK A, B : A = 0 .. N /\ B = 1 .. N
  OBVIOUS
<1>1. 0 \in Int /\ 1 \in Int /\ N \in Int
  OBVIOUS
<1>2. IsFiniteSet(A) /\ Cardinality(A) = IF 0 > N THEN 0 ELSE N - 0 + 1
  BY <1>1, FS_Interval
<1>3. IsFiniteSet(B) /\ Cardinality(B) = IF 1 > N THEN 0 ELSE N - 1 + 1
  BY <1>1, FS_Interval
<1>4. Cardinality(B) < Cardinality(A)
  BY <1>2, <1>3
<1>5. f \in [A -> B]
  OBVIOUS
<1> QED BY <1>2, <1>3, <1>4, <1>5, FS_PigeonHole, Zenon

(* However many ids of the rewriter's form an agent has taken, there are   *)
(* fewer of them than counters the rewriter tries.                         *)
LEMMA FreshIdIsFresh ==
  ASSUME Listed(plan), NEW index, NEW type
  PROVE  FreshId(index, type) \notin Ids(plan)
<1> DEFINE N == Len(plan.operators)
           Free == {n \in 0 .. N : <<index, type, n>> \notin Ids(plan)}
<1>1. N \in Nat /\ DOMAIN plan.operators = 1 .. N
  BY LenProperties DEF Listed
<1> HIDE DEF N
<1>2. Free # {}
  <2> SUFFICES ASSUME Free = {} PROVE FALSE
    OBVIOUS
  <2> DEFINE at(n) == CHOOSE k \in 1 .. N : plan.operators[k].id = <<index, type, n>>
             f == [n \in 0 .. N |-> at(n)]
  <2>1. ASSUME NEW n \in 0 .. N
        PROVE  at(n) \in 1 .. N /\ plan.operators[at(n)].id = <<index, type, n>>
    <3>1. <<index, type, n>> \in Ids(plan)
      OBVIOUS
    <3>2. \E k \in 1 .. N : plan.operators[k].id = <<index, type, n>>
      BY <1>1, <3>1 DEF Ids
    <3> QED BY <3>2
  <2> HIDE DEF at
  <2>2. f \in [0 .. N -> 1 .. N]
    BY <2>1
  <2>5. PICK m, n \in 0 .. N : m # n /\ f[m] = f[n]
    <3> PICK g : g = f
      OBVIOUS
    <3> QED BY <1>1, <2>2, TwoShareOne
  <2>6. at(m) = at(n)
    BY <2>5 DEF f
  <2>7. <<index, type, m>> = <<index, type, n>>
    BY <2>1, <2>5, <2>6
  <2> QED BY <2>5, <2>7
<1>3. Free \in SUBSET Nat
  BY <1>1
<1>4. Min(Free) \in Free
  <2> HIDE DEF Free
  <2> QED BY <1>2, <1>3, MinNat
<1>5. FreshId(index, type) = <<index, type, Min(Free)>>
  BY DEF FreshId, N
<1> QED BY <1>4, <1>5
-----------------------------------------------------------------------------
(* The recursion of Schemas.                                               *)

\* The schema of o, from those of its inputs.
Inferred(p, h, o) ==
  LET op  == OperatorOf(p, o)
      ins == [k \in DOMAIN op.inputs |-> h[op.inputs[k]]]
  IN IF (\A k \in DOMAIN ins : ins[k].ok) /\ Accepts(op, ins) THEN Output(op, ins) ELSE Failed

\* h is what is inferred for the operators of D.
Infers(h, p, D) == h = [o \in D |-> Inferred(p, h, o)]

\* h is right on a part of the plan that reads nothing outside itself.
InferredBelow(h, p, D) == D \in SUBSET Ids(p) /\ Closed(p, D) /\ Infers(h, p, D)

\* The entry of one operator.
LEMMA InferOnce ==
  ASSUME NEW p, NEW h, NEW D, Infers(h, p, D), NEW o \in D
  PROVE  h[o] = Inferred(p, h, o)
<1> DEFINE T == [x \in D |-> Inferred(p, h, x)]
<1>1. h = T
  BY DEF Infers
<1>2. T[o] = Inferred(p, h, o)
  OBVIOUS
<1> HIDE DEF T
<1> QED BY <1>1, <1>2

\* Only the schemas of the inputs matter.
LEMMA InferredFromInputs ==
  ASSUME NEW p, NEW o, NEW g, NEW h, \A i \in InputsOf(p, o) : g[i] = h[i]
  PROVE  Inferred(p, g, o) = Inferred(p, h, o)
<1> DEFINE ins(t) == [k \in DOMAIN OperatorOf(p, o).inputs |-> t[OperatorOf(p, o).inputs[k]]]
           of(x) == IF (\A k \in DOMAIN x : x[k].ok) /\ Accepts(OperatorOf(p, o), x)
                      THEN Output(OperatorOf(p, o), x) ELSE Failed
<1>1. \A k \in DOMAIN OperatorOf(p, o).inputs : OperatorOf(p, o).inputs[k] \in InputsOf(p, o)
  BY DEF InputsOf, ToSet
<1>2. ins(g) = ins(h)
  BY <1>1
<1>3. Inferred(p, g, o) = of(ins(g)) /\ Inferred(p, h, o) = of(ins(h))
  BY Zenon DEF Inferred
<1> HIDE DEF ins, of
<1> QED BY <1>2, <1>3

\* Acyclicity leaves one table: a first disagreement has inputs that agree.
LEMMA InfersAgree ==
  ASSUME NEW p, Sound(p), NEW C, NEW D, NEW g, NEW h,
         InferredBelow(g, p, C), InferredBelow(h, p, D)
  PROVE  \A o \in C \cap D : g[o] = h[o]
<1> DEFINE S == {o \in C \cap D : g[o] # h[o]}
<1> SUFFICES ASSUME S # {} PROVE FALSE
  OBVIOUS
<1>1. S \in SUBSET Ids(p)
  BY DEF InferredBelow
<1>2. PICK o \in S : InputsOf(p, o) \cap S = {}
  <2> HIDE DEF S
  <2> QED BY <1>1 DEF Sound
<1>3. InputsOf(p, o) \subseteq C \cap D
  BY <1>2 DEF InferredBelow, Closed
<1>4. \A i \in InputsOf(p, o) : g[i] = h[i]
  BY <1>2, <1>3
<1>5. Inferred(p, g, o) = Inferred(p, h, o)
  BY <1>4, InferredFromInputs
<1>6. g[o] = Inferred(p, g, o) /\ h[o] = Inferred(p, h, o)
  BY <1>2, InferOnce DEF InferredBelow
<1> QED BY <1>2, <1>5, <1>6

\* And it leaves one: the first operator without a table would have one.
LEMMA InfersExists ==
  ASSUME NEW p, Sound(p)
  PROVE  \E h : Infers(h, p, Ids(p))
<1> DEFINE Known(x, g, D) == InferredBelow(g, p, D) /\ x \in D
           Solved == {x \in Ids(p) : \E g, D : Known(x, g, D)}
           value(x) == CHOOSE v : \E g, D : Known(x, g, D) /\ v = g[x]
           h == [x \in Solved |-> value(x)]
<1>1. ASSUME NEW x, NEW g, NEW D, Known(x, g, D) PROVE value(x) = g[x]
  <2>1. \E v : \E a, C : Known(x, a, C) /\ v = a[x]
    BY <1>1
  <2>2. PICK a, C : Known(x, a, C) /\ value(x) = a[x]
    BY <2>1
  <2>3. a[x] = g[x]
    BY <1>1, <2>2, InfersAgree
  <2> QED BY <2>2, <2>3
<1> HIDE DEF value
<1>2. ASSUME NEW x \in Solved
      PROVE  /\ InputsOf(p, x) \subseteq Solved
             /\ h[x] = Inferred(p, h, x)
  <2>1. PICK g, D : Known(x, g, D)
    OBVIOUS
  <2>2. \A i \in D : i \in Solved /\ h[i] = g[i]
    <3> SUFFICES ASSUME NEW i \in D PROVE i \in Solved /\ h[i] = g[i]
      OBVIOUS
    <3>1. Known(i, g, D)
      BY <2>1
    <3>2. i \in Solved
      BY <3>1 DEF InferredBelow
    <3>3. value(i) = g[i]
      BY <1>1, <3>1
    <3> QED BY <3>2, <3>3
  <2>3. InputsOf(p, x) \subseteq D
    BY <2>1 DEF InferredBelow, Closed
  <2>4. g[x] = Inferred(p, g, x)
    BY <2>1, InferOnce DEF InferredBelow
  <2>5. Inferred(p, h, x) = Inferred(p, g, x)
    <3> HIDE DEF h
    <3> QED BY <2>2, <2>3, InferredFromInputs
  <2> HIDE DEF h
  <2> QED BY <2>1, <2>2, <2>3, <2>4, <2>5
<1>3. Solved = Ids(p)
  <2> SUFFICES ASSUME Ids(p) \ Solved # {} PROVE FALSE
    OBVIOUS
  <2> HIDE DEF Solved
  <2>1. Solved \subseteq Ids(p)
    BY DEF Solved
  <2>2. PICK o \in Ids(p) \ Solved : InputsOf(p, o) \cap (Ids(p) \ Solved) = {}
    <3>1. Ids(p) \ Solved \in SUBSET Ids(p)
      OBVIOUS
    <3> QED BY <3>1 DEF Sound
  <2>3. InputsOf(p, o) \subseteq Solved
    BY <2>2 DEF Sound, Closed
  <2> DEFINE D == Solved \cup {o}
             t == [x \in D |-> IF x = o THEN Inferred(p, h, o) ELSE h[x]]
  <2>4. \A x \in Solved : t[x] = h[x]
    BY <2>2
  <2>5. t[o] = Inferred(p, h, o)
    OBVIOUS
  <2> HIDE DEF h
  <2>6. ASSUME NEW x \in D PROVE InputsOf(p, x) \subseteq Solved /\ t[x] = Inferred(p, t, x)
    <3>1. InputsOf(p, x) \subseteq Solved
      BY <1>2, <2>3
    <3>2. Inferred(p, t, x) = Inferred(p, h, x)
      <4> HIDE DEF t
      <4> QED BY <2>4, <3>1, InferredFromInputs
    <3>3. t[x] = Inferred(p, h, x)
      <4> HIDE DEF t
      <4> QED BY <1>2, <2>4, <2>5
    <3> QED BY <3>1, <3>2, <3>3
  <2>7. Infers(t, p, D)
    <3> DEFINE u == [x \in D |-> Inferred(p, t, x)]
    <3>1. t = u
      BY <2>6
    <3> HIDE DEF t, D
    <3> QED BY <3>1 DEF Infers
  <2>8. D \in SUBSET Ids(p) /\ Closed(p, D) /\ o \in D
    BY <2>1, <2>6 DEF Closed
  <2>9. Known(o, t, D)
    BY <2>7, <2>8 DEF InferredBelow
  <2>10. o \in Solved
    <3> HIDE DEF t, D, Known
    <3> QED BY <2>9 DEF Solved
  <2> QED BY <2>2, <2>10
<1>4. Infers(h, p, Ids(p))
  <2>1. h = [x \in Solved |-> Inferred(p, h, x)]
    <3> DEFINE u == [x \in Solved |-> Inferred(p, h, x)]
    <3>1. \A x \in Solved : h[x] = u[x]
      BY <1>2
    <3> HIDE DEF Solved
    <3> QED BY <3>1
  <2> HIDE DEF h, Solved
  <2> QED BY <1>3, <2>1 DEF Infers
<1> QED BY <1>4

\* Schemas is a table of the transfer rules.
LEMMA SchemasInfer ==
  ASSUME NEW p, Sound(p)
  PROVE  Infers(Schemas(p), p, Ids(p))
<1> DEFINE D(g) == [o \in Ids(p) |->
                      IF /\ \A k \in DOMAIN [k \in DOMAIN OperatorOf(p, o).inputs |->
                                               g[OperatorOf(p, o).inputs[k]]] :
                              [k_1 \in DOMAIN OperatorOf(p, o).inputs |->
                                 g[OperatorOf(p, o).inputs[k_1]]][k].ok
                         /\ Accepts(OperatorOf(p, o),
                              [k \in DOMAIN OperatorOf(p, o).inputs |->
                                 g[OperatorOf(p, o).inputs[k]]])
                        THEN Output(OperatorOf(p, o),
                               [k \in DOMAIN OperatorOf(p, o).inputs |->
                                  g[OperatorOf(p, o).inputs[k]]])
                        ELSE Failed]
           infer == CHOOSE g : g = D(g)
<1>1. \A g : D(g) = [o \in Ids(p) |-> Inferred(p, g, o)]
  BY DEF Inferred
<1>2. Schemas(p) = infer
  BY DEF Schemas
<1>3. PICK h : Infers(h, p, Ids(p))
  BY InfersExists
<1> HIDE DEF D
<1>4. h = D(h)
  BY <1>1, <1>3 DEF Infers
<1>5. infer = D(infer)
  BY <1>4
<1> QED BY <1>1, <1>2, <1>5 DEF Infers

\* The schema of one operator.
LEMMA SchemaOf ==
  ASSUME NEW p, Sound(p), NEW o \in Ids(p)
  PROVE  Schemas(p)[o] = Inferred(p, Schemas(p), o)
<1> PICK h : h = Schemas(p)
  OBVIOUS
<1> QED BY SchemasInfer, InferOnce
-----------------------------------------------------------------------------
\* The schema type checking gives o.
SchemaAt(p, o) == Schemas(p)[o]

\* An operator with a schema was accepted with those of its inputs.
LEMMA SchemaRule ==
  ASSUME NEW p, Sound(p), NEW o \in Ids(p), SchemaAt(p, o).ok
  PROVE  \E ins :
           /\ DOMAIN ins = DOMAIN OperatorOf(p, o).inputs
           /\ \A k \in DOMAIN ins : ins[k] = SchemaAt(p, OperatorOf(p, o).inputs[k]) /\ ins[k].ok
           /\ Accepts(OperatorOf(p, o), ins)
           /\ SchemaAt(p, o) = Output(OperatorOf(p, o), ins)
<1> DEFINE op == OperatorOf(p, o)
           ins == [k \in DOMAIN op.inputs |-> Schemas(p)[op.inputs[k]]]
           passes == (\A k \in DOMAIN ins : ins[k].ok) /\ Accepts(op, ins)
<1>1. SchemaAt(p, o) = IF passes THEN Output(op, ins) ELSE Failed
  BY SchemaOf DEF SchemaAt, Inferred
<1>2. /\ DOMAIN ins = DOMAIN op.inputs
      /\ \A k \in DOMAIN ins : ins[k] = SchemaAt(p, op.inputs[k])
  BY DEF SchemaAt
<1>3. passes
  <2> HIDE DEF passes
  <2> QED BY <1>1 DEF Failed
<1>4. SchemaAt(p, o) = Output(op, ins)
  <2> HIDE DEF passes
  <2> QED BY <1>1, <1>3
<1> HIDE DEF op, ins
<1>5. (\A k \in DOMAIN ins : ins[k].ok) /\ Accepts(op, ins)
  BY <1>3
<1> QED BY <1>2, <1>4, <1>5 DEF op

\* Appending changes no schema that was there.
LEMMA SchemasKept ==
  ASSUME NEW p, Listed(p), Sound(p), NEW e, NEW q, Appends(q, p, e)
  PROVE  \A o \in Ids(p) : SchemaAt(q, o) = SchemaAt(p, o)
<1>1. /\ Ids(q) = Ids(p) \cup {e.id}
      /\ \A o \in Ids(p) : OperatorOf(q, o) = OperatorOf(p, o)
  BY AppendedOperators
<1>2. Sound(q)
  BY AppendedIsSound
<1>3. Closed(q, Ids(p)) /\ Ids(p) \in SUBSET Ids(q)
  BY <1>1 DEF Sound, Closed, InputsOf
<1> PICK g, h : g = Schemas(p) /\ h = Schemas(q)
  OBVIOUS
<1>4. Infers(g, p, Ids(p)) /\ Infers(h, q, Ids(q))
  BY <1>2, SchemasInfer
<1>5. Infers(g, q, Ids(p))
  <2> DEFINE u == [o \in Ids(p) |-> Inferred(p, g, o)]
             v == [o \in Ids(p) |-> Inferred(q, g, o)]
  <2>1. \A o \in Ids(p) : Inferred(q, g, o) = Inferred(p, g, o)
    BY <1>1 DEF Inferred
  <2>2. u = v
    BY <2>1
  <2>3. g = u
    BY <1>4 DEF Infers
  <2>4. g = v
    BY <2>2, <2>3
  <2> HIDE DEF u
  <2> QED BY <2>4 DEF Infers
<1>6. InferredBelow(g, q, Ids(p)) /\ InferredBelow(h, q, Ids(q))
  BY <1>2, <1>3, <1>4, <1>5 DEF InferredBelow, Sound
<1>7. \A o \in Ids(p) \cap Ids(q) : g[o] = h[o]
  BY <1>2, <1>6, InfersAgree
<1> QED BY <1>3, <1>7 DEF SchemaAt

\* What an appended enforcer is typed with.
LEMMA SchemaAppended ==
  ASSUME NEW p, Listed(p), Sound(p), NEW e, NEW q, Appends(q, p, e), SchemaAt(q, e.id).ok
  PROVE  \E ins : /\ ins[1] = SchemaAt(p, p.output) /\ SchemaAt(p, p.output).ok
                  /\ Accepts(e, ins) /\ SchemaAt(q, e.id) = Output(e, ins)
<1>1. Sound(q) /\ e.id \in Ids(q) /\ OperatorOf(q, e.id) = e
  BY AppendedIsSound, AppendedOperators
<1>2. PICK ins :
        /\ DOMAIN ins = DOMAIN e.inputs
        /\ \A k \in DOMAIN ins : ins[k] = SchemaAt(q, e.inputs[k]) /\ ins[k].ok
        /\ Accepts(e, ins) /\ SchemaAt(q, e.id) = Output(e, ins)
  BY <1>1, SchemaRule
<1>3. 1 \in DOMAIN e.inputs /\ e.inputs[1] = p.output
  BY DEF Appends
<1>4. SchemaAt(q, p.output) = SchemaAt(p, p.output)
  BY SchemasKept DEF Sound
<1> QED BY <1>2, <1>3, <1>4
-----------------------------------------------------------------------------
(* What the rewriting leaves behind, obligation by obligation.             *)

\* The merged obligations, as far as the rewriter relies on them.
Mergeable(obs) ==
  /\ \A m \in obs : m.type \in ObligationType /\ m.amount \in Nat
  /\ \A m \in obs : m.type = "MASK" => m.method \in MaskMethod /\ NoField \notin m.fields
  /\ \A m \in obs : m.type = "GENERALIZE_LOCATION" => m.amount > 0
  /\ \A a, b \in obs :
       a.type = "MASK" /\ b.type = "MASK" /\ a.method # b.method => a.fields \cap b.fields = {}

\* Schema s is what ob asks for.
Governs(s, ob) ==
  \A f \in ob.fields :
    /\ ob.type = "MASK" => f \in Names(s) /\ s.fields[f].state = MaskState(ob.method)
    /\ ob.type = "GENERALIZE_LOCATION" =>
         f \in Names(s) /\ (s.fields[f].precision > 0 \/ s.fields[f].state # "raw")

\* ob has its enforcer in the suffix, and the output, if it has a schema, shows it.
Handled(p, b, ob) ==
  /\ ob.type = "VERSION_PIN" \/ \E op \in EnforcementSuffix(p, b) : Enforces(op, ob)
  /\ SchemaAt(p, p.output).ok => Governs(SchemaAt(p, p.output), ob)

\* Every operator is as parsing leaves it.
Parsed(p) == Listed(p) /\ \A k \in DOMAIN p.operators : ParsedOperator(p.operators[k])

\* The loop after the turns for done, b being the output of the candidate.
Progress(p, b, done) ==
  /\ Parsed(p) /\ Sound(p)
  /\ b \in Ids(p) /\ ReachesBoundary(p, b)
  /\ \A ob \in done : Handled(p, b, ob)

\* e is the operator the rewriter makes for ob.
IsEnforcer(e, ob) ==
  /\ e.type = EnforcerOf(ob.type) /\ e.fields = ob.fields /\ e.method = ob.method
  /\ e.amount = ob.amount

\* A field has four attributes ...
IsInfo(info) == DOMAIN info = {"kind", "roles", "state", "precision"}

\* ... in every field of a schema.
Typed(s) == \A f \in Names(s) : IsInfo(s.fields[f])

\* What Mask does to the fields.
LEMMA MaskedFields ==
  ASSUME NEW op, NEW s
  PROVE  /\ Names(WithMask(op, s)) = Names(s)
         /\ \A f \in Names(s) :
              WithMask(op, s).fields[f] = IF f \in op.fields THEN MaskField(s.fields[f], op.method)
                                          ELSE s.fields[f]
BY DEF WithMask, Schema, Names

\* What GeneralizeLocation does to them.
LEMMA GeneralizedFields ==
  ASSUME NEW op, NEW s, Typed(s)
  PROVE  /\ Names(WithPrecision(op, s)) = Names(s)
         /\ \A f \in Names(s) :
              /\ WithPrecision(op, s).fields[f].state = s.fields[f].state
              /\ WithPrecision(op, s).fields[f].roles = s.fields[f].roles
              /\ WithPrecision(op, s).fields[f].precision =
                   IF f \in op.fields THEN op.amount ELSE s.fields[f].precision
              /\ IsInfo(WithPrecision(op, s).fields[f])
<1>1. /\ Names(WithPrecision(op, s)) = Names(s)
      /\ \A f \in Names(s) :
           WithPrecision(op, s).fields[f] =
             IF f \in op.fields THEN [s.fields[f] EXCEPT !.precision = op.amount]
             ELSE s.fields[f]
  BY DEF WithPrecision, Schema, Names
<1>2. ASSUME NEW f \in Names(s)
      PROVE  /\ WithPrecision(op, s).fields[f].state = s.fields[f].state
             /\ WithPrecision(op, s).fields[f].roles = s.fields[f].roles
             /\ WithPrecision(op, s).fields[f].precision =
                  IF f \in op.fields THEN op.amount ELSE s.fields[f].precision
             /\ IsInfo(WithPrecision(op, s).fields[f])
  <2>1. PICK r : r = s.fields[f] /\ DOMAIN r = {"kind", "roles", "state", "precision"}
    BY DEF Typed, IsInfo
  <2>2. CASE f \in op.fields
    <3>1. WithPrecision(op, s).fields[f] = [r EXCEPT !.precision = op.amount]
      BY <1>1, <2>1, <2>2
    <3>2. PICK u : u = [r EXCEPT !.precision = op.amount]
      OBVIOUS
    <3>3. DOMAIN u = DOMAIN r /\ u.state = r.state /\ u.roles = r.roles /\ u.precision = op.amount
      BY <2>1, <3>2
    <3> QED BY <2>1, <2>2, <3>1, <3>2, <3>3 DEF IsInfo
  <2>3. CASE f \notin op.fields
    BY <1>1, <2>1, <2>3 DEF IsInfo
  <2> QED BY <2>2, <2>3
<1> QED BY <1>1, <1>2
-----------------------------------------------------------------------------
(* What every schema of a plan has: four attributes per field, and the     *)
(* spatial role for the coordinates of a pair that survives.               *)
WellTyped(s) ==
  /\ Typed(s)
  /\ \A pair \in s.spatial : \A f \in pair : f \in Names(s) /\ "spatial" \in s.fields[f].roles

\* What the joins do to them.
LEMMA MergedFields ==
  ASSUME NEW l, NEW r
  PROVE  /\ Names(Merge(l, r)) = Names(l) \cup Names(r)
         /\ \A f \in Names(l) \cup Names(r) :
              Merge(l, r).fields[f] = IF f \in Names(l) THEN l.fields[f] ELSE r.fields[f]
         /\ Merge(l, r).spatial = l.spatial \cup r.spatial
BY DEF Merge, Schema, Names

\* What Project does to them.
LEMMA ProjectedFields ==
  ASSUME NEW s, NEW kept
  PROVE  /\ Names(Project(s, kept)) = kept
         /\ \A f \in kept : Project(s, kept).fields[f] = s.fields[f]
         /\ Project(s, kept).spatial = {pair \in s.spatial : pair \subseteq kept}
BY DEF Project, Schema, Names

\* What Aggregate does to them.
LEMMA GroupedFields ==
  ASSUME NEW op, NEW s
  PROVE  /\ Names(Grouped(op, s)) = op.fields \cup {op.keys[2]}
         /\ \A f \in op.fields : Grouped(op, s).fields[f] = s.fields[f]
         /\ op.keys[2] \notin op.fields => IsInfo(Grouped(op, s).fields[op.keys[2]])
         /\ Grouped(op, s).spatial = {pair \in s.spatial : pair \subseteq op.fields}
<1> DEFINE kind == AggregateKind(op.method, s, op.keys[1])
           result == [Count EXCEPT !.kind = kind]
<1>1. DOMAIN result = {"kind", "roles", "state", "precision"}
  <2> HIDE DEF kind
  <2> QED BY DEF Count
<1> HIDE DEF result
<1>2. /\ Names(Grouped(op, s)) = Names(Project(s, op.fields)) \cup {op.keys[2]}
      /\ \A f \in Names(Project(s, op.fields)) \cup {op.keys[2]} :
           Grouped(op, s).fields[f] = IF f \in Names(Project(s, op.fields))
                                        THEN Project(s, op.fields).fields[f] ELSE result
      /\ Grouped(op, s).spatial = Project(s, op.fields).spatial
  BY DEF Grouped, Schema, result, Names
<1> QED BY <1>1, <1>2, ProjectedFields DEF IsInfo

\* How many inputs an operator has.
LEMMA InputCount ==
  ASSUME NEW op, ParsedOperator(op), Len(op.inputs) = Arity(op.type)
  PROVE  /\ op.type = "ScanSource" => DOMAIN op.inputs = {}
         /\ op.type \in {"Join", "SpatialJoin"} => DOMAIN op.inputs = {1, 2}
         /\ op.type \notin {"ScanSource", "Join", "SpatialJoin"} => DOMAIN op.inputs = {1}
<1>1. DOMAIN op.inputs = 1 .. Len(op.inputs)
  BY LenProperties DEF ParsedOperator
<1>2. 1 .. 0 = {} /\ 1 .. 1 = {1} /\ 1 .. 2 = {1, 2}
  OBVIOUS
<1> QED BY <1>1, <1>2 DEF Arity

\* Joins need disjoint names to keep a schema well typed.
LEMMA MergedIsTyped ==
  ASSUME NEW l, NEW r, WellTyped(l), WellTyped(r), Names(l) \cap Names(r) = {}
  PROVE  WellTyped(Merge(l, r))
BY MergedFields DEF WellTyped, Typed

\* Every transfer rule keeps schemas well typed.
LEMMA OutputIsTyped ==
  ASSUME NEW op, ParsedOperator(op), Len(op.inputs) = Arity(op.type),
         NEW ins, DOMAIN ins = DOMAIN op.inputs, \A k \in DOMAIN ins : WellTyped(ins[k]),
         Accepts(op, ins)
  PROVE  WellTyped(Output(op, ins))
<1>1. CASE op.type = "ScanSource"
  <2>1. op.dataset \in DOMAIN Catalog
    BY <1>1 DEF Accepts
  <2>2. Output(op, ins) = Schema(Catalog[op.dataset].fields, Catalog[op.dataset].spatial)
    BY <1>1 DEF Output
  <2> QED BY <2>1, <2>2, CatalogAssumption DEF WellTyped, Typed, IsInfo, Names, Schema
<1>2. CASE op.type = "Project"
  <2>1. WellTyped(ins[1]) /\ op.fields \subseteq Names(ins[1])
    BY <1>2, InputCount DEF Accepts
  <2>2. Output(op, ins) = Project(ins[1], op.fields)
    BY <1>2 DEF Output
  <2> QED BY <2>1, <2>2, ProjectedFields DEF WellTyped, Typed
<1>3. CASE op.type \in {"Join", "SpatialJoin"}
  <2>1. WellTyped(ins[1]) /\ WellTyped(ins[2])
    BY <1>3, InputCount
  <2>2. Names(ins[1]) \cap Names(ins[2]) = {}
    BY <1>3 DEF Accepts, AcceptsJoin, AcceptsSpatialJoin
  <2>3. Output(op, ins) = Merge(ins[1], ins[2])
    BY <1>3 DEF Output
  <2> QED BY <2>1, <2>2, <2>3, MergedIsTyped
<1>4. CASE op.type = "Aggregate"
  <2>1. WellTyped(ins[1]) /\ AcceptsAggregate(op, ins[1])
    BY <1>4, InputCount DEF Accepts
  <2>2. op.fields \subseteq Names(ins[1]) /\ op.keys[2] \notin op.fields
    BY <2>1 DEF AcceptsAggregate, Raw
  <2>3. Output(op, ins) = Grouped(op, ins[1])
    BY <1>4 DEF Output
  <2> QED BY <2>1, <2>2, <2>3, GroupedFields DEF WellTyped, Typed
<1>5. CASE op.type = "GeneralizeLocation"
  <2>1. WellTyped(ins[1])
    BY <1>5, InputCount
  <2>2. Output(op, ins) = WithPrecision(op, ins[1])
    BY <1>5 DEF Output
  <2>3. WithPrecision(op, ins[1]).spatial = ins[1].spatial
    BY DEF WithPrecision, Schema
  <2> QED BY <2>1, <2>2, <2>3, GeneralizedFields DEF WellTyped, Typed
<1>6. CASE op.type = "Mask"
  <2>1. WellTyped(ins[1])
    BY <1>6, InputCount
  <2>2. Output(op, ins) = WithMask(op, ins[1])
    BY <1>6 DEF Output
  <2>3. WithMask(op, ins[1]).spatial = {pair \in ins[1].spatial : pair \cap op.fields = {}}
    BY DEF WithMask, Schema
  <2>4. \A info : IsInfo(MaskField(info, op.method))
    BY DEF IsInfo, MaskField
  <2> QED BY <2>1, <2>2, <2>3, <2>4, MaskedFields DEF WellTyped, Typed
<1>7. CASE op.type \notin {"ScanSource", "Project", "Join", "SpatialJoin", "Aggregate",
                          "GeneralizeLocation", "Mask"}
  <2>1. WellTyped(ins[1])
    BY <1>7, InputCount
  <2>2. Output(op, ins) = ins[1]
    BY <1>7 DEF Output
  <2> QED BY <2>1, <2>2
<1> QED BY <1>1, <1>2, <1>3, <1>4, <1>5, <1>6, <1>7

\* By acyclicity all schemas of a plan are.
LEMMA SchemasAreTyped ==
  ASSUME NEW p, Parsed(p), Sound(p)
  PROVE  \A o \in Ids(p) : SchemaAt(p, o).ok => WellTyped(SchemaAt(p, o))
<1> DEFINE bad == {o \in Ids(p) : SchemaAt(p, o).ok /\ ~WellTyped(SchemaAt(p, o))}
<1> SUFFICES ASSUME bad # {} PROVE FALSE
  OBVIOUS
<1>1. PICK o \in bad : InputsOf(p, o) \cap bad = {}
  <2>1. bad \in SUBSET Ids(p)
    OBVIOUS
  <2> HIDE DEF bad
  <2> QED BY <2>1 DEF Sound
<1>2. PICK op : op = OperatorOf(p, o)
  OBVIOUS
<1>3. ParsedOperator(op) /\ Len(op.inputs) = Arity(op.type)
  BY <1>1, <1>2, OperatorById DEF Parsed, Sound
<1>4. PICK ins :
        /\ DOMAIN ins = DOMAIN op.inputs
        /\ \A k \in DOMAIN ins : ins[k] = SchemaAt(p, op.inputs[k]) /\ ins[k].ok
        /\ Accepts(op, ins) /\ SchemaAt(p, o) = Output(op, ins)
  BY <1>1, <1>2, SchemaRule
<1>5. ASSUME NEW k \in DOMAIN ins PROVE WellTyped(ins[k])
  <2>1. op.inputs[k] \in InputsOf(p, o)
    BY <1>2, <1>4 DEF InputsOf, ToSet
  <2>2. op.inputs[k] \in Ids(p)
    BY <1>1, <2>1 DEF Sound, Closed
  <2> QED BY <1>1, <1>4, <2>1, <2>2
<1>6. WellTyped(Output(op, ins))
  BY <1>3, <1>4, <1>5, OutputIsTyped
<1> QED BY <1>1, <1>4, <1>6
-----------------------------------------------------------------------------
(* A masked value is recognisable wherever it arrives.                     *)
Masked(s, f) == f \in Names(s) /\ s.fields[f].state # "raw" /\ s.fields[f].roles = {}

\* Some input of o carries f masked.
Receives(p, o, f) == \E i \in InputsOf(p, o) : Masked(SchemaAt(p, i), f)

\* Type checking found a schema for every operator.
AllTyped(p) == \A o \in Ids(p) : SchemaAt(p, o).ok

\* A transfer rule keeps a masked field masked, where it keeps the field.
LEMMA MaskedStays ==
  ASSUME NEW op, ParsedOperator(op), Len(op.inputs) = Arity(op.type),
         NEW ins, DOMAIN ins = DOMAIN op.inputs, \A k \in DOMAIN ins : WellTyped(ins[k]),
         Accepts(op, ins), NEW f, Keeps(op, f),
         NEW j \in DOMAIN ins, Masked(ins[j], f)
  PROVE  Masked(Output(op, ins), f)
<1>1. CASE op.type = "ScanSource"
  BY <1>1, InputCount
<1>2. CASE op.type = "Project"
  <2>1. j = 1 /\ f \in op.fields
    BY <1>2, InputCount DEF Keeps
  <2>2. Output(op, ins) = Project(ins[1], op.fields)
    BY <1>2 DEF Output
  <2> QED BY <2>1, <2>2, ProjectedFields DEF Masked
<1>3. CASE op.type \in {"Join", "SpatialJoin"}
  <2>1. j \in {1, 2}
    BY <1>3, InputCount
  <2>2. Names(ins[1]) \cap Names(ins[2]) = {}
    BY <1>3 DEF Accepts, AcceptsJoin, AcceptsSpatialJoin
  <2>3. Output(op, ins) = Merge(ins[1], ins[2])
    BY <1>3 DEF Output
  <2> QED BY <2>1, <2>2, <2>3, MergedFields DEF Masked
<1>4. CASE op.type = "Aggregate"
  <2>1. j = 1 /\ f \in op.fields /\ AcceptsAggregate(op, ins[1])
    BY <1>4, InputCount DEF Keeps, Accepts
  <2> QED BY <2>1 DEF AcceptsAggregate, Raw, Masked
<1>5. CASE op.type = "GeneralizeLocation"
  <2>1. j = 1 /\ WellTyped(ins[1])
    BY <1>5, InputCount
  <2>2. Output(op, ins) = WithPrecision(op, ins[1])
    BY <1>5 DEF Output
  <2> QED BY <2>1, <2>2, GeneralizedFields DEF Masked, WellTyped
<1>6. CASE op.type = "Mask"
  <2>1. j = 1 /\ op.method \in MaskMethod
    BY <1>6, InputCount DEF ParsedOperator
  <2>2. Output(op, ins) = WithMask(op, ins[1])
    BY <1>6 DEF Output
  <2>3. \A info : MaskField(info, op.method).state # "raw" /\ MaskField(info, op.method).roles = {}
    BY <2>1 DEF MaskField, MaskState, MaskMethod
  <2> QED BY <2>1, <2>2, <2>3, MaskedFields DEF Masked
<1>7. CASE op.type \notin {"ScanSource", "Project", "Join", "SpatialJoin", "Aggregate",
                          "GeneralizeLocation", "Mask"}
  <2>1. j = 1
    BY <1>7, InputCount
  <2>2. Output(op, ins) = ins[1]
    BY <1>7 DEF Output
  <2> QED BY <2>1, <2>2
<1> QED BY <1>1, <1>2, <1>3, <1>4, <1>5, <1>6, <1>7

\* No transfer rule accepts a use of it.
LEMMA MaskedRefused ==
  ASSUME NEW op, ParsedOperator(op), Len(op.inputs) = Arity(op.type),
         NEW ins, DOMAIN ins = DOMAIN op.inputs, \A k \in DOMAIN ins : WellTyped(ins[k]),
         Accepts(op, ins), NEW f, f # NoField,
         NEW j \in DOMAIN ins, Masked(ins[j], f)
  PROVE  f \notin Uses(op)
<1>1. CASE op.type \in {"Sort", "Filter"}
  <2>1. j = 1 /\ (f \in op.fields => Raw(ins[1], f))
    BY <1>1, InputCount DEF Accepts
  <2> QED BY <1>1, <2>1 DEF Uses, Raw, Masked
<1>2. CASE op.type = "TemporalFilter"
  <2>1. j = 1 /\ (f \in op.fields => "temporal" \in ins[1].fields[f].roles)
    BY <1>2, InputCount DEF Accepts
  <2> QED BY <1>2, <2>1 DEF Uses, Masked
<1>3. CASE op.type = "SpatialJoin"
  <2>1. j \in {1, 2} /\ WellTyped(ins[1]) /\ WellTyped(ins[2])
    BY <1>3, InputCount
  <2>2. AcceptsSpatialJoin(op, ins[1], ins[2])
    BY <1>3 DEF Accepts
  <2>3. PICK pair \in ins[1].spatial, other \in ins[2].spatial : op.fields = pair \cup other
    BY <2>2 DEF AcceptsSpatialJoin
  <2>4. Names(ins[1]) \cap Names(ins[2]) = {}
    BY <2>2 DEF AcceptsSpatialJoin
  <2>5. \A g \in pair : g \in Names(ins[1]) /\ "spatial" \in ins[1].fields[g].roles
    BY <2>1, <2>3 DEF WellTyped
  <2>6. \A g \in other : g \in Names(ins[2]) /\ "spatial" \in ins[2].fields[g].roles
    BY <2>1, <2>3 DEF WellTyped
  <2>7. f \notin op.fields
    BY <2>1, <2>3, <2>4, <2>5, <2>6 DEF Masked
  <2> QED BY <1>3, <2>7 DEF Uses
<1>4. CASE op.type = "GeneralizeLocation"
  <2>1. j = 1 /\ AcceptsGeneralize(op, ins[1])
    BY <1>4, InputCount DEF Accepts
  <2> QED BY <1>4, <2>1 DEF Uses, AcceptsGeneralize, Masked
<1>5. CASE op.type = "Join"
  <2>1. j \in {1, 2}
    BY <1>5, InputCount
  <2>2. /\ Raw(ins[1], op.keys[1]) /\ Raw(ins[2], op.keys[2])
        /\ Names(ins[1]) \cap Names(ins[2]) = {}
    BY <1>5 DEF Accepts, AcceptsJoin
  <2>3. ToSet(op.keys) = {op.keys[1], op.keys[2]}
    <3>1. DOMAIN op.keys = {1, 2}
      BY <1>5, LenProperties DEF ParsedOperator
    <3> QED BY <3>1 DEF ToSet
  <2>4. f # op.keys[1] /\ f # op.keys[2]
    BY <2>1, <2>2 DEF Raw, Masked
  <2> QED BY <1>5, <2>3, <2>4 DEF Uses
<1>6. CASE op.type = "Aggregate"
  <2>1. j = 1 /\ AcceptsAggregate(op, ins[1])
    BY <1>6, InputCount DEF Accepts
  <2>2. f \notin op.fields
    BY <2>1 DEF AcceptsAggregate, Raw, Masked
  <2>3. f # op.keys[1]
    BY <2>1 DEF AcceptsAggregate, Raw, Masked
  <2> QED BY <1>6, <2>2, <2>3 DEF Uses
<1>7. CASE op.type \notin {"Sort", "Filter", "TemporalFilter", "SpatialJoin",
                          "GeneralizeLocation", "Join", "Aggregate"}
  BY <1>7 DEF Uses
<1> QED BY <1>1, <1>2, <1>3, <1>4, <1>5, <1>6, <1>7

\* The transfer rule of an operator of a plan whose schemas are all there.
LEMMA RuleOfOperator ==
  ASSUME NEW p, Parsed(p), Sound(p), AllTyped(p), NEW o \in Ids(p)
  PROVE  /\ ParsedOperator(OperatorOf(p, o))
         /\ Len(OperatorOf(p, o).inputs) = Arity(OperatorOf(p, o).type)
         /\ \E ins :
              /\ DOMAIN ins = DOMAIN OperatorOf(p, o).inputs
              /\ \A k \in DOMAIN ins :
                   ins[k] = SchemaAt(p, OperatorOf(p, o).inputs[k]) /\ WellTyped(ins[k])
              /\ Accepts(OperatorOf(p, o), ins)
              /\ SchemaAt(p, o) = Output(OperatorOf(p, o), ins)
<1>1. PICK op : op = OperatorOf(p, o)
  OBVIOUS
<1>2. ParsedOperator(op) /\ Len(op.inputs) = Arity(op.type)
  BY <1>1, OperatorById DEF Parsed, Sound
<1>3. PICK ins :
        /\ DOMAIN ins = DOMAIN op.inputs
        /\ \A k \in DOMAIN ins : ins[k] = SchemaAt(p, op.inputs[k]) /\ ins[k].ok
        /\ Accepts(op, ins) /\ SchemaAt(p, o) = Output(op, ins)
  BY <1>1, SchemaRule DEF AllTyped
<1>4. ASSUME NEW k \in DOMAIN ins PROVE WellTyped(ins[k])
  <2>1. op.inputs[k] \in Ids(p)
    BY <1>1, <1>3 DEF InputsOf, ToSet, Sound, Closed
  <2> QED BY <1>3, <2>1, SchemasAreTyped
<1> QED BY <1>1, <1>2, <1>3, <1>4

\* So an operator that receives f masked does not use it, and passes it on masked.
LEMMA ReceivedIsRefused ==
  ASSUME NEW p, Parsed(p), Sound(p), AllTyped(p), NEW o \in Ids(p),
         NEW f, f # NoField, Receives(p, o, f)
  PROVE  /\ f \notin Uses(OperatorOf(p, o))
         /\ Keeps(OperatorOf(p, o), f) => Masked(SchemaAt(p, o), f)
<1>1. PICK op : op = OperatorOf(p, o)
  OBVIOUS
<1>2. ParsedOperator(op) /\ Len(op.inputs) = Arity(op.type)
  BY <1>1, RuleOfOperator
<1>3. PICK ins :
        /\ DOMAIN ins = DOMAIN op.inputs
        /\ \A k \in DOMAIN ins : ins[k] = SchemaAt(p, op.inputs[k]) /\ WellTyped(ins[k])
        /\ Accepts(op, ins) /\ SchemaAt(p, o) = Output(op, ins)
  BY <1>1, RuleOfOperator
<1>4. PICK j \in DOMAIN ins : Masked(ins[j], f)
  <2>1. PICK i \in InputsOf(p, o) : Masked(SchemaAt(p, i), f)
    BY DEF Receives
  <2>2. PICK j \in DOMAIN op.inputs : op.inputs[j] = i
    BY <1>1, <2>1 DEF InputsOf, ToSet
  <2> QED BY <1>3, <2>1, <2>2
<1>5. f \notin Uses(op)
  BY <1>2, <1>3, <1>4, MaskedRefused
<1>6. Keeps(op, f) => Masked(Output(op, ins), f)
  BY <1>2, <1>3, <1>4, MaskedStays
<1> QED BY <1>1, <1>3, <1>5, <1>6

\* What a mask of the plan masks.
LEMMA MaskMasks ==
  ASSUME NEW p, Parsed(p), Sound(p), AllTyped(p), NEW m \in Ids(p),
         OperatorOf(p, m).type = "Mask", NEW f \in OperatorOf(p, m).fields
  PROVE  f # NoField /\ Masked(SchemaAt(p, m), f)
<1>1. PICK op : op = OperatorOf(p, m)
  OBVIOUS
<1>2. ParsedOperator(op)
  BY <1>1, RuleOfOperator
<1>3. PICK ins : Accepts(op, ins) /\ SchemaAt(p, m) = Output(op, ins)
  BY <1>1, RuleOfOperator
<1>4. f # NoField /\ op.method \in MaskMethod
  BY <1>1, <1>2 DEF ParsedOperator
<1>5. f \in Names(ins[1])
  BY <1>1, <1>3 DEF Accepts, AcceptsMask
<1>6. Output(op, ins) = WithMask(op, ins[1])
  BY <1>1 DEF Output
<1>7. \A info : MaskField(info, op.method).state # "raw" /\ MaskField(info, op.method).roles = {}
  BY <1>4 DEF MaskField, MaskState, MaskMethod
<1> QED BY <1>1, <1>3, <1>4, <1>5, <1>6, <1>7, MaskedFields DEF Masked
-----------------------------------------------------------------------------
\* Along every path: what receives f masked is closed under the edges.
LEMMA MaskedReaches ==
  ASSUME Parsed(plan), Sound(plan), AllTyped(plan),
         NEW m \in Ids(plan), OperatorOf(plan, m).type = "Mask",
         NEW f \in OperatorOf(plan, m).fields, NEW u \in Receivers(m, f)
  PROVE  f \notin Uses(OperatorOf(plan, u))
<1>1. PICK p : p = plan
  OBVIOUS
<1> DEFINE S == {o \in Ids(p) : Receives(p, o, f)}
<1>2. f # NoField /\ Masked(SchemaAt(p, m), f)
  BY <1>1, MaskMasks
<1>3. ASSUME NEW o \in Ids(p), Reads(o, {m} \cup {x \in S : Keeps(OperatorOf(p, x), f)})
      PROVE  o \in S
  <2>1. PICK i \in InputsOf(p, o) : i = m \/ (i \in S /\ Keeps(OperatorOf(p, i), f))
    BY <1>1, <1>3 DEF Reads, InputsOf
  <2>2. CASE i = m
    BY <1>2, <2>1, <2>2 DEF Receives
  <2>3. CASE i \in S /\ Keeps(OperatorOf(p, i), f)
    <3>1. Masked(SchemaAt(p, i), f)
      BY <1>1, <1>2, <2>3, ReceivedIsRefused
    <3> QED BY <2>1, <3>1 DEF Receives
  <2> QED BY <2>1, <2>2, <2>3
<1>4. S \in SUBSET Ids(p)
  OBVIOUS
<1> HIDE DEF S
<1>5. \A T \in SUBSET Ids(p) :
        (\A o \in Ids(p) : Reads(o, {m} \cup {x \in T : Keeps(OperatorOf(p, x), f)}) => o \in T)
          => u \in T
  BY <1>1 DEF Receivers
<1>6. u \in S
  BY <1>3, <1>4, <1>5
<1>7. u \in Ids(p) /\ Receives(p, u, f)
  BY <1>6 DEF S
<1> QED BY <1>1, <1>2, <1>7, ReceivedIsRefused
-----------------------------------------------------------------------------
(* One turn of the rewriting loop.                                         *)

\* The enforcer governs its obligation and undoes none of the others'.
LEMMA EnforcerGoverns ==
  ASSUME NEW obs, Mergeable(obs), NEW ob \in obs, NEW e, IsEnforcer(e, ob),
         ob.type \notin {"VERSION_PIN", "EXPORT_CONTROL"},
         NEW ins, WellTyped(ins[1]), Accepts(e, ins)
  PROVE  /\ Governs(Output(e, ins), ob)
         /\ \A other \in obs : Governs(ins[1], other) => Governs(Output(e, ins), other)
<1> PICK s : s = ins[1]
  OBVIOUS
<1>0. Typed(s)
  BY DEF WellTyped
<1>1. ob.type \in {"MASK", "GENERALIZE_LOCATION", "MIN_GROUP_SIZE", "LINEAGE_CAPTURE"}
  BY DEF Mergeable, ObligationType
<1>2. CASE ob.type = "MASK"
  <2>1. e.type = "Mask" /\ e.fields = ob.fields /\ e.method = ob.method
    BY <1>2 DEF IsEnforcer, EnforcerOf
  <2>2. Output(e, ins) = WithMask(e, s) /\ ob.fields \subseteq Names(s)
    BY <2>1 DEF Output, Accepts, AcceptsMask
  <2>3. /\ Names(WithMask(e, s)) = Names(s)
        /\ \A f \in Names(s) : f \in ob.fields =>
             WithMask(e, s).fields[f] = MaskField(s.fields[f], ob.method)
        /\ \A f \in Names(s) : f \notin ob.fields => WithMask(e, s).fields[f] = s.fields[f]
    BY <2>1, MaskedFields
  <2>4. \A f \in ob.fields : WithMask(e, s).fields[f].state = MaskState(ob.method)
    <3>1. \A info : MaskField(info, ob.method).state = MaskState(ob.method)
      BY DEF MaskField
    <3> QED BY <2>2, <2>3, <3>1
  <2>5. MaskState(ob.method) # "raw"
    BY <1>2 DEF Mergeable, MaskMethod, MaskState
  <2>6. Governs(WithMask(e, s), ob)
    BY <1>2, <2>2, <2>3, <2>4 DEF Governs
  <2>7. ASSUME NEW other \in obs, Governs(s, other) PROVE Governs(WithMask(e, s), other)
    <3>1. CASE other.type = "MASK"
      <4>1. \A f \in other.fields : f \in Names(s) /\ s.fields[f].state = MaskState(other.method)
        BY <2>7, <3>1 DEF Governs
      <4>2. other.method # ob.method => ob.fields \cap other.fields = {}
        BY <1>2, <3>1 DEF Mergeable
      <4>3. \A f \in other.fields : WithMask(e, s).fields[f].state = MaskState(other.method)
        BY <2>3, <2>4, <4>1, <4>2
      <4> QED BY <2>3, <3>1, <4>1, <4>3 DEF Governs
    <3>2. CASE other.type = "GENERALIZE_LOCATION"
      <4>1. \A f \in other.fields :
              f \in Names(s) /\ (s.fields[f].precision > 0 \/ s.fields[f].state # "raw")
        BY <2>7, <3>2 DEF Governs
      <4>2. \A f \in other.fields :
              WithMask(e, s).fields[f].precision > 0 \/ WithMask(e, s).fields[f].state # "raw"
        BY <2>3, <2>4, <2>5, <4>1
      <4> QED BY <2>3, <3>2, <4>1, <4>2 DEF Governs
    <3>3. CASE other.type \notin {"MASK", "GENERALIZE_LOCATION"}
      BY <3>3 DEF Governs
    <3> QED BY <3>1, <3>2, <3>3
  <2> QED BY <2>2, <2>6, <2>7
<1>3. CASE ob.type = "GENERALIZE_LOCATION"
  <2>1. e.type = "GeneralizeLocation" /\ e.fields = ob.fields /\ e.amount > 0
    BY <1>3 DEF IsEnforcer, EnforcerOf, Mergeable
  <2>2. Output(e, ins) = WithPrecision(e, s) /\ ob.fields \subseteq Names(s)
    BY <2>1 DEF Output, Accepts, AcceptsGeneralize
  <2>3. /\ Names(WithPrecision(e, s)) = Names(s)
        /\ \A f \in Names(s) : WithPrecision(e, s).fields[f].state = s.fields[f].state
        /\ \A f \in Names(s) : f \in ob.fields => WithPrecision(e, s).fields[f].precision > 0
        /\ \A f \in Names(s) : f \notin ob.fields =>
             WithPrecision(e, s).fields[f].precision = s.fields[f].precision
    BY <1>0, <2>1, GeneralizedFields
  <2>4. Governs(WithPrecision(e, s), ob)
    BY <1>3, <2>2, <2>3 DEF Governs
  <2>5. ASSUME NEW other \in obs, Governs(s, other) PROVE Governs(WithPrecision(e, s), other)
    BY <2>3, <2>5 DEF Governs
  <2> QED BY <2>2, <2>4, <2>5
<1>4. CASE ob.type \in {"MIN_GROUP_SIZE", "LINEAGE_CAPTURE"}
  <2>1. e.type \in {"MinGroupSize", "LineageCapture"}
    BY <1>4 DEF IsEnforcer, EnforcerOf
  <2>2. Output(e, ins) = s
    BY <2>1 DEF Output
  <2> QED BY <1>4, <2>2 DEF Governs
<1> QED BY <1>1, <1>2, <1>3, <1>4

\* The verifier finds the enforcer as it was made.
LEMMA EnforcerEnforces ==
  ASSUME NEW obs, Mergeable(obs), NEW ob \in obs, NEW e, IsEnforcer(e, ob),
         ob.type \notin {"VERSION_PIN", "EXPORT_CONTROL"}
  PROVE  Enforces(e, ob) /\ Arity(e.type) = 1
<1>1. ob.type \in {"MASK", "GENERALIZE_LOCATION", "MIN_GROUP_SIZE", "LINEAGE_CAPTURE"}
      /\ ob.amount \in Nat
  BY DEF Mergeable, ObligationType
<1>2. e.type \in {"Mask", "GeneralizeLocation", "MinGroupSize", "LineageCapture"}
  BY <1>1 DEF IsEnforcer, EnforcerOf
<1>3. Arity(e.type) = 1
  BY <1>2 DEF Arity
<1>4. /\ e.type = EnforcerOf(ob.type) /\ ob.fields \subseteq e.fields /\ e.method = ob.method
      /\ e.amount >= ob.amount
  BY <1>1 DEF IsEnforcer
<1> QED BY <1>3, <1>4 DEF Enforces

\* It is an operator like those of a request.
LEMMA EnforcerIsParsed ==
  ASSUME NEW obs, Mergeable(obs), NEW ob \in obs, NEW e, IsEnforcer(e, ob),
         ob.type \notin {"VERSION_PIN", "EXPORT_CONTROL"}, NEW o, e.inputs = <<o>>
  PROVE  ParsedOperator(e)
<1>1. ob.type \in {"MASK", "GENERALIZE_LOCATION", "MIN_GROUP_SIZE", "LINEAGE_CAPTURE"}
      /\ ob.amount \in Nat
  BY DEF Mergeable, ObligationType
<1>2. e.type \in {"Mask", "GeneralizeLocation", "MinGroupSize", "LineageCapture"}
  BY <1>1 DEF IsEnforcer, EnforcerOf
<1>3. e.type = "Mask" => e.method \in MaskMethod /\ NoField \notin e.fields
  BY <1>1 DEF IsEnforcer, EnforcerOf, Mergeable
<1>4. e.inputs \in Seq(ToSet(e.inputs))
  <2>1. ToSet(e.inputs) = {o}
    BY DEF ToSet
  <2> QED BY <2>1
<1> QED BY <1>1, <1>2, <1>3, <1>4 DEF ParsedOperator, OperatorType, IsEnforcer

\* A turn that appends an enforcer.
LEMMA ProgressStep ==
  ASSUME NEW p, NEW b, NEW done, Progress(p, b, done),
         NEW obs, Mergeable(obs), done \subseteq obs, NEW ob \in obs,
         ob.type \notin {"VERSION_PIN", "EXPORT_CONTROL"},
         NEW e, NEW q, IsEnforcer(e, ob), Appends(q, p, e)
  PROVE  Progress(q, b, done \cup {ob})
<1>1. /\ Parsed(p) /\ Listed(p) /\ Sound(p) /\ b \in Ids(p) /\ ReachesBoundary(p, b)
      /\ \A x \in done : Handled(p, b, x)
  BY DEF Progress, Parsed
<1>2. Enforces(e, ob) /\ Arity(e.type) = 1 /\ ParsedOperator(e)
  BY EnforcerEnforces, EnforcerIsParsed DEF Appends
<1>4. /\ Listed(q) /\ q.output = e.id /\ Ids(q) = Ids(p) \cup {e.id}
      /\ \A k \in DOMAIN q.operators :
           q.operators[k] = e \/ \E j \in DOMAIN p.operators : q.operators[k] = p.operators[j]
  BY <1>1, AppendedOperators
<1>5. Parsed(q)
  BY <1>1, <1>2, <1>4 DEF Parsed
<1>6. Sound(q)
  BY <1>1, AppendedIsSound
<1>7. /\ ReachesBoundary(q, b)
      /\ EnforcementSuffix(p, b) \cup {e} \subseteq EnforcementSuffix(q, b)
  BY <1>1, SuffixGrows
<1>8. ASSUME SchemaAt(q, e.id).ok
      PROVE  /\ Governs(SchemaAt(q, e.id), ob)
             /\ \A x \in done : Governs(SchemaAt(q, e.id), x)
  <2>1. PICK ins : /\ ins[1] = SchemaAt(p, p.output) /\ SchemaAt(p, p.output).ok
                   /\ Accepts(e, ins) /\ SchemaAt(q, e.id) = Output(e, ins)
    BY <1>1, <1>8, SchemaAppended
  <2>2. WellTyped(ins[1])
    BY <1>1, <2>1, SchemasAreTyped DEF Sound
  <2>3. \A x \in done : Governs(ins[1], x)
    BY <1>1, <2>1 DEF Handled
  <2> QED BY <2>1, <2>2, <2>3, EnforcerGoverns
<1>9. Handled(q, b, ob)
  BY <1>2, <1>4, <1>7, <1>8 DEF Handled
<1>10. ASSUME NEW x \in done PROVE Handled(q, b, x)
  BY <1>1, <1>4, <1>7, <1>8 DEF Handled
<1> QED BY <1>1, <1>4, <1>5, <1>6, <1>7, <1>9, <1>10 DEF Progress

\* A pin is left to the bindings.
LEMMA PinIsHandled ==
  ASSUME NEW p, NEW b, NEW done, Progress(p, b, done), NEW ob, ob.type = "VERSION_PIN"
  PROVE  Progress(p, b, done \cup {ob})
<1>1. Handled(p, b, ob)
  BY DEF Handled, Governs
<1> QED BY <1>1 DEF Progress
-----------------------------------------------------------------------------
(* What the merge algebra makes of well-formed obligations.                *)

\* Without a mask conflict no field has two methods left.
LEMMA NormalizedIsMergeable ==
  ASSUME NEW obs \in SUBSET Obligation, \A ob \in obs : WellFormed(ob),
         ~MasksConflict(CanonicalSet(obs))
  PROVE  Mergeable(Normalized(CanonicalSet(obs)))
<1> DEFINE C == CanonicalSet(obs)
<1>1. C \in SUBSET Obligation
  BY CanonicalObligation DEF CanonicalSet
<1>2. /\ \A c \in C : c.type = "MASK" => c.method \in MaskMethod
      /\ \A c \in C : c.type = "GENERALIZE_LOCATION" => c.amount > 0
  <2>1. ASSUME NEW ob \in obs
        PROVE  /\ Canonical(ob).type = "MASK" => Canonical(ob).method \in MaskMethod
               /\ Canonical(ob).type = "GENERALIZE_LOCATION" => Canonical(ob).amount > 0
    <3>1. ob \in Obligation /\ WellFormed(ob)
      OBVIOUS
    <3>2. Canonical(ob).type = ob.type /\ Canonical(ob).amount = ob.amount
      BY <3>1, CanonicalObligation
    <3>3. ob.type = "MASK" => Canonical(ob).method \in MaskMethod
      BY <3>1 DEF Canonical, WellFormed, Obligation, MaskMethod
    <3> QED BY <3>1, <3>2, <3>3 DEF WellFormed
  <2> QED BY <2>1 DEF CanonicalSet
<1> HIDE DEF C
<1>3. ASSUME NEW m \in MergedMasks(C)
      PROVE  /\ m.type = "MASK" /\ m.method \in MaskMethod /\ m.fields \subseteq Field
             /\ m.fields = UNION {x.fields : x \in {c \in OfKind(C, "MASK") : c.method = m.method}}
  <2> DEFINE U(a) == UNION {x.fields : x \in {c \in OfKind(C, "MASK") : c.method = a.method}}
  <2>1. PICK a \in OfKind(C, "MASK") : m = [a EXCEPT !.fields = U(a)]
    BY DEF MergedMasks
  <2>2. a \in Obligation /\ a \in C /\ a.type = "MASK"
    BY <1>1, <2>1 DEF OfKind
  <2>3. U(a) \subseteq Field
    BY <1>1 DEF OfKind, Obligation
  <2>4. m.type = a.type /\ m.method = a.method /\ m.fields = U(a)
    <3> HIDE DEF U
    <3> QED BY <2>1, <2>2 DEF Obligation
  <2> QED BY <1>2, <2>2, <2>3, <2>4
<1>4. ASSUME NEW m \in MergedGeneralizations(C)
      PROVE  m.type = "GENERALIZE_LOCATION" /\ m.amount > 0
  <2> DEFINE Same(a) == {c \in OfKind(C, "GENERALIZE_LOCATION") :
                           c.fields = a.fields /\ c.method = a.method}
             Amounts(a) == {x.amount : x \in Same(a)}
  <2>1. PICK a \in OfKind(C, "GENERALIZE_LOCATION") : m = [a EXCEPT !.amount = Max(Amounts(a))]
    BY DEF MergedGeneralizations
  <2>2. a \in Obligation /\ a \in C /\ a.type = "GENERALIZE_LOCATION" /\ a.amount \in Amounts(a)
    BY <1>1, <2>1 DEF OfKind
  <2>3. Amounts(a) \in SUBSET (0 .. MaxAmount)
    BY <1>1 DEF OfKind, Obligation
  <2>4. \A n \in Amounts(a) : n > 0
    BY <1>2 DEF OfKind
  <2>5. m.type = a.type /\ m.amount = Max(Amounts(a))
    <3> HIDE DEF Amounts
    <3> QED BY <2>1, <2>2 DEF Obligation
  <2> HIDE DEF Amounts
  <2>6. Max(Amounts(a)) \in Amounts(a)
    BY <2>2, <2>3, MaxNat, AmountAssumption
  <2> QED BY <2>2, <2>4, <2>5, <2>6
<1>5. \A m \in MergedMaximum(C, "MIN_GROUP_SIZE") \cup MergedMaximum(C, "LINEAGE_CAPTURE")
        \cup OfKind(C, "VERSION_PIN") \cup OfKind(C, "EXPORT_CONTROL") :
          m.type \in {"MIN_GROUP_SIZE", "LINEAGE_CAPTURE", "VERSION_PIN", "EXPORT_CONTROL"}
  BY DEF MergedMaximum, OfKind
<1>6. \A m \in Normalized(C) : m.type \in ObligationType /\ m.amount \in Nat
  <2>1. \A m \in Normalized(C) : m.amount \in Nat
    BY <1>1, NormalizedAmounts
  <2> QED BY <2>1, <1>3, <1>4, <1>5 DEF Normalized, ObligationType
<1>7. \A m \in Normalized(C) : m.type = "MASK" => m \in MergedMasks(C)
  BY <1>4, <1>5 DEF Normalized
<1>8. \A m \in Normalized(C) : m.type = "GENERALIZE_LOCATION" => m \in MergedGeneralizations(C)
  BY <1>3, <1>5 DEF Normalized
<1>9. ASSUME NEW a \in MergedMasks(C), NEW b \in MergedMasks(C), a.method # b.method
      PROVE  a.fields \cap b.fields = {}
  <2> SUFFICES ASSUME NEW f \in a.fields, f \in b.fields PROVE FALSE
    OBVIOUS
  <2>1. PICK x \in OfKind(C, "MASK") : x.method = a.method /\ f \in x.fields
    BY <1>3
  <2>2. PICK y \in OfKind(C, "MASK") : y.method = b.method /\ f \in y.fields
    BY <1>3
  <2>3. MasksConflict(C)
    BY <1>9, <2>1, <2>2 DEF MasksConflict
  <2> QED BY <2>3 DEF C
<1>10. \A m \in Normalized(C) :
         m.type = "MASK" => m.method \in MaskMethod /\ NoField \notin m.fields
  BY <1>3, <1>7, FieldAssumption
<1>11. \A a, b \in Normalized(C) :
         a.type = "MASK" /\ b.type = "MASK" /\ a.method # b.method => a.fields \cap b.fields = {}
  BY <1>7, <1>9
<1>12. \A m \in Normalized(C) : m.type = "GENERALIZE_LOCATION" => m.amount > 0
  BY <1>4, <1>8
<1> QED BY <1>6, <1>10, <1>11, <1>12 DEF Mergeable, C
-----------------------------------------------------------------------------
(* The second half of the invariant: what the rewriter leaves is what the  *)
(* checks after it ask for.                                                *)

\* The stages before the rewriting.
EarlyStage == pc \in {"purpose", "graph", "types", "policy", "normalize"}

\* The plan is still the candidate's.
Untouched == plan.operators = candidate.operators /\ plan.output = candidate.output

(* Before the rewriting the plan is the candidate's; during it, Progress   *)
(* for the obligations met; after it, what each recheck has found.         *)
AInv ==
  /\ EarlyStage => Untouched /\ Parsed(plan)
  /\ pc \in {"types", "policy", "normalize"} => Sound(plan)
  /\ PastNormalization =>
       /\ Mergeable(obligations)
       /\ Progress(plan, candidate.output, obligations \ remaining)
  /\ pc \in {"regraph", "retype", "bind", "verify"} \/ Validated => remaining = {}
  /\ pc \in {"bind", "verify"} \/ Validated => TypeChecks(plan, candidate.requested)
  /\ RewriterAgreesWithVerifier

\* A request as it arrives.
LEMMA InitAInv == Init => AInv
<1> SUFFICES ASSUME Init PROVE AInv
  OBVIOUS
<1>1. /\ candidate \in Candidates /\ pc = "purpose" /\ response = NoResponse
      /\ plan.operators = candidate.operators /\ plan.output = candidate.output
  BY DEF Init
<1>2. Parsed(plan)
  <2>1. /\ plan.operators \in Seq(Range(plan.operators))
        /\ \A op \in Range(plan.operators) : ParsedOperator(op)
    BY <1>1, CandidateAssumption
  <2>2. \A k \in DOMAIN plan.operators : plan.operators[k] \in Range(plan.operators)
    BY DEF Range
  <2> QED BY <2>1, <2>2 DEF Parsed, Listed, ParsedOperator
<1>3. ~Validated /\ ~PastNormalization
  BY <1>1 DEF Validated, PastNormalization, NoResponse
<1>4. RewriterAgreesWithVerifier
  BY <1>1 DEF RewriterAgreesWithVerifier, NoResponse
<1> QED BY <1>1, <1>2, <1>3, <1>4 DEF AInv, Untouched

\* A plan that passes the graph check reads a dataset.
LEMMA SomeScan ==
  ASSUME NEW p, Parsed(p), Sound(p)
  PROVE  Scanned(p) # {}
<1>1. Ids(p) # {}
  BY DEF Sound
<1>2. PICK o \in Ids(p) : InputsOf(p, o) \cap Ids(p) = {}
  BY <1>1 DEF Sound
<1>3. InputsOf(p, o) = {}
  BY <1>2 DEF Sound, Closed
<1>4. PICK k \in DOMAIN p.operators : OperatorOf(p, o) = p.operators[k]
  BY OperatorById DEF Sound
<1>5. ParsedOperator(p.operators[k]) /\ Len(p.operators[k].inputs) = Arity(p.operators[k].type)
  BY DEF Parsed, Sound
<1>6. DOMAIN p.operators[k].inputs = {}
  <2>1. \A j \in DOMAIN p.operators[k].inputs : p.operators[k].inputs[j] \in InputsOf(p, o)
    BY <1>4, <1>5, LenProperties DEF InputsOf, ToSet, ParsedOperator
  <2> QED BY <1>3, <2>1
<1>7. p.operators[k].type = "ScanSource"
  BY <1>5, <1>6, InputCount
<1> QED BY <1>7 DEF Scanned, Scans, OfType

\* What type checks can be bound to snapshots.
LEMMA TypedIsResolvable ==
  ASSUME Parsed(plan), Sound(plan), TypeChecks(plan, candidate.requested)
  PROVE  ScansResolvable
<1>1. AllTyped(plan)
  BY DEF TypeChecks, AllTyped, SchemaAt
<1>2. ASSUME NEW k \in Scans(plan) PROVE Resolvable(plan.operators[k])
  <2>1. k \in DOMAIN plan.operators /\ plan.operators[k].type = "ScanSource"
    BY DEF Scans, OfType
  <2>2. plan.operators[k].id \in Ids(plan)
        /\ OperatorOf(plan, plan.operators[k].id) = plan.operators[k]
    BY <2>1, OperatorById DEF Ids, Sound
  <2>3. PICK ins : Accepts(plan.operators[k], ins)
    BY <1>1, <2>2, RuleOfOperator
  <2> QED BY <2>1, <2>3 DEF Accepts, Resolvable
<1> QED BY <1>2 DEF ScansResolvable

\* The rewriting leaves what the postconditions look for.
LEMMA ProgressIsEnough ==
  ASSUME Progress(plan, candidate.output, obligations), bindings = Bound
  PROVE  PostconditionsHold
<1>1. Scanned(plan) # {}
  BY SomeScan DEF Progress
<1>2. DOMAIN bindings = Scanned(plan)
  BY DEF Bound
<1>3. ASSUME NEW ob \in obligations PROVE Met(ob)
  <2>1. ob.type = "VERSION_PIN"
        \/ \E op \in EnforcementSuffix(plan, candidate.output) : Enforces(op, ob)
    BY DEF Progress, Handled
  <2>2. CASE ob.type = "VERSION_PIN"
    BY <1>1, <1>2, <2>2 DEF Met
  <2>3. CASE ob.type # "VERSION_PIN"
    BY <2>1, <2>3 DEF Met
  <2> QED BY <2>2, <2>3
<1> QED BY <1>3 DEF PostconditionsHold, Progress

\* Before the first turn nothing is handled and the output is the boundary.
LEMMA ProgressStarts ==
  ASSUME Parsed(plan), Sound(plan), plan.output = candidate.output
  PROVE  Progress(plan, candidate.output, {})
<1>1. Listed(plan) /\ Len(plan.operators) \in Nat /\ WalkOf(plan, 0) = plan.output
  BY WalkSteps DEF Parsed
<1>2. ReachesBoundary(plan, candidate.output)
  <2>1. 0 \in 0 .. Len(plan.operators)
    BY <1>1
  <2> QED BY <1>1, <2>1, BoundaryMeans
<1> QED BY <1>2 DEF Progress, Sound

\* One turn of the loop.
LEMMA ProgressTurns ==
  ASSUME Mergeable(obligations), Progress(plan, candidate.output, obligations \ remaining),
         NEW ob \in remaining, remaining \subseteq obligations, ~Unenforceable(ob),
         NEW q, q = IF ob.type = "VERSION_PIN" \/ Unenforceable(ob) THEN plan ELSE Append1(ob)
  PROVE  Progress(q, candidate.output, obligations \ (remaining \ {ob}))
<1>1. obligations \ (remaining \ {ob}) = (obligations \ remaining) \cup {ob}
  OBVIOUS
<1>2. CASE ob.type = "VERSION_PIN"
  BY <1>1, <1>2, PinIsHandled
<1>3. CASE ob.type # "VERSION_PIN"
  <2> DEFINE index == Cardinality(obligations) - Cardinality(remaining) + 1
             id == FreshId(index, EnforcerOf(ob.type))
             e == Enforcer(ob, id, plan.output)
  <2>1. ob.type # "EXPORT_CONTROL"
    BY DEF Unenforceable
  <2>2. q = [operators |-> Append(plan.operators, e), output |-> id]
    BY <1>3 DEF Append1
  <2>3. id \notin Ids(plan)
    BY FreshIdIsFresh DEF Progress, Parsed
  <2>4. e.id = id /\ e.inputs = <<plan.output>> /\ IsEnforcer(e, ob)
    <3> HIDE DEF id
    <3> QED BY DEF Enforcer, IsEnforcer
  <2> HIDE DEF e, id
  <2>5. Arity(e.type) = 1
    BY <1>3, <2>1, <2>4, EnforcerEnforces
  <2>6. Appends(q, plan, e)
    BY <2>2, <2>3, <2>4, <2>5 DEF Appends
  <2>7. obligations \ remaining \subseteq obligations /\ ob \in obligations
    OBVIOUS
  <2> QED BY <1>1, <1>3, <2>1, <2>4, <2>6, <2>7, ProgressStep
<1> QED BY <1>2, <1>3

\* What a stage answers.
LEMMA StageReason ==
  ASSUME NEW here, NEW next, NEW check, NEW reason,
         Stage(here, next, check, reason), response = NoResponse
  PROVE  response'.reason = "none" \/ (~check /\ response'.reason = reason)
BY DEF Stage, Answer, NoResponse
-----------------------------------------------------------------------------
\* The reasons that would say the rewriter and the checks disagree.
Refusals == {"REWRITTEN_GRAPH", "VERSION_UNRESOLVED", "OBLIGATION_NOT_ENFORCED"}

\* One stage of validate(), or one turn of its loop.
LEMMA StepAInv == IInv /\ IInv' /\ AInv /\ [Next]_validatorVars => AInv'
<1> SUFFICES ASSUME IInv, IInv', AInv, [Next]_validatorVars PROVE AInv'
  OBVIOUS
<1>s. candidate' = candidate /\ policy' = policy
  BY DEF Next, validatorVars, CheckPurpose, CheckGraph, CheckTypes, EvaluatePolicy,
         Normalize, Rewrite, EndRewrite, RecheckGraph, RecheckTypes, BindSnapshots,
         VerifyObligations
<1>r. pc # "answered" => response = NoResponse
  BY DEF IInv
<1>w. RewriterAgreesWithVerifier' <=> response'.reason \notin Refusals
  BY DEF RewriterAgreesWithVerifier, Refusals
<1>n. "none" \notin Refusals
  BY DEF Refusals
<1>p. ASSUME plan' = plan
      PROVE  /\ Untouched' <=> Untouched
             /\ Parsed(plan)' <=> Parsed(plan)
             /\ Sound(plan)' <=> Sound(plan)
             /\ TypeChecks(plan, candidate.requested)' <=> TypeChecks(plan, candidate.requested)
  BY <1>s, <1>p DEF Untouched
<1>1. CASE CheckPurpose
  <2>1. /\ pc = "purpose" /\ response = NoResponse
        /\ UNCHANGED <<obligations, remaining, plan, bindings>>
        /\ pc' \in {"answered", "graph"}
        /\ pc' = "graph" => response' = response
        /\ response'.status \in {"none", "CLARIFY"}
        /\ response'.reason \in {"none", "PURPOSE_MISSING"}
    BY <1>1, <1>r DEF CheckPurpose, Answer, NoResponse
  <2>2. ~Validated' /\ ~PastNormalization'
    BY <2>1 DEF Validated, PastNormalization
  <2>3. response'.reason \notin Refusals
    BY <2>1 DEF Refusals
  <2> QED BY <1>p, <1>w, <2>1, <2>2, <2>3 DEF AInv, EarlyStage
<1>2. CASE CheckGraph
  <2>1. /\ Stage("graph", "types", ValidGraph(plan), "GRAPH") /\ pc = "graph"
        /\ UNCHANGED <<obligations, remaining, plan, bindings>>
    BY <1>2 DEF CheckGraph, Stage
  <2>2. /\ ~Validated'
        /\ (ValidGraph(plan) /\ pc' = "types") \/ pc' = "answered"
    BY <1>r, <2>1, StageOutcome
  <2>3. ~PastNormalization'
    BY <2>2 DEF PastNormalization
  <2>4. response'.reason \notin Refusals
    BY <1>r, <2>1, StageReason DEF Refusals
  <2>5. Untouched /\ Parsed(plan)
    BY <2>1 DEF AInv, EarlyStage
  <2>6. pc' = "types" => Sound(plan)
    BY <2>2, <2>5, GraphMeans DEF Parsed, Listed
  <2> QED BY <1>p, <1>w, <2>1, <2>2, <2>3, <2>4, <2>5, <2>6 DEF AInv
<1>3. CASE CheckTypes
  <2>1. /\ Stage("types", "policy", TypeChecks(plan, candidate.requested), "TYPES")
        /\ pc = "types" /\ UNCHANGED <<obligations, remaining, plan, bindings>>
    BY <1>3 DEF CheckTypes, Stage
  <2>2. ~Validated' /\ (pc' = "policy" \/ pc' = "answered")
    BY <1>r, <2>1, StageOutcome
  <2>3. ~PastNormalization'
    BY <2>2 DEF PastNormalization
  <2>4. response'.reason \notin Refusals
    BY <1>r, <2>1, StageReason DEF Refusals
  <2>5. Untouched /\ Parsed(plan) /\ Sound(plan)
    BY <2>1 DEF AInv, EarlyStage
  <2> QED BY <1>p, <1>w, <2>1, <2>2, <2>3, <2>4, <2>5 DEF AInv
<1>4. CASE EvaluatePolicy
  <2>1. /\ Stage("policy", "normalize", Decision = "PERMIT", Decision) /\ pc = "policy"
        /\ UNCHANGED <<remaining, plan, bindings>>
    BY <1>4 DEF EvaluatePolicy, Stage
  <2>2. ~Validated' /\ (pc' = "normalize" \/ pc' = "answered")
    BY <1>r, <2>1, StageOutcome
  <2>3. ~PastNormalization'
    BY <2>2 DEF PastNormalization
  <2>4. response'.reason \notin Refusals
    <3>1. Decision \notin Refusals
      BY DEF Decision, Refusals
    <3>2. response'.reason = "none" \/ response'.reason = Decision
      BY <1>r, <2>1, StageReason
    <3> QED BY <1>n, <3>1, <3>2
  <2>5. Untouched /\ Parsed(plan) /\ Sound(plan)
    BY <2>1 DEF AInv, EarlyStage
  <2> QED BY <1>p, <1>w, <2>1, <2>2, <2>3, <2>4, <2>5 DEF AInv
<1>5. CASE Normalize
  <2> DEFINE canonical == {Canonical(ob) : ob \in obligations}
             sound == /\ \A ob \in obligations : WellFormed(ob)
                      /\ ~MasksConflict(canonical)
             merged == IF sound THEN Normalized(canonical) ELSE {}
  <2>1. /\ Stage("normalize", "rewrite", sound, "NORMALIZATION_CONFLICT")
        /\ pc = "normalize" /\ obligations' = merged /\ remaining' = merged
        /\ UNCHANGED <<plan, bindings>>
    BY <1>5 DEF Normalize, Stage
  <2>2. ~Validated' /\ ((sound /\ pc' = "rewrite") \/ pc' = "answered")
    <3> HIDE DEF sound
    <3> QED BY <1>r, <2>1, StageOutcome
  <2>3. response'.reason \notin Refusals
    <3> HIDE DEF sound
    <3> QED BY <1>r, <2>1, StageReason DEF Refusals
  <2>4. Untouched /\ Parsed(plan) /\ Sound(plan)
    BY <2>1 DEF AInv, EarlyStage
  <2>5. Progress(plan, candidate.output, {})
    BY <2>4, ProgressStarts DEF Untouched
  <2>6. pc' = "rewrite" => Mergeable(obligations')
    <3>1. obligations = Permitted /\ Permitted \in SUBSET Obligation
      BY <2>1, PermittedObligations DEF IInv
    <3>2. pc' = "rewrite" =>
            /\ \A ob \in Permitted : WellFormed(ob)
            /\ ~MasksConflict(CanonicalSet(Permitted))
            /\ obligations' = Normalized(CanonicalSet(Permitted))
      BY <2>1, <2>2, <3>1 DEF CanonicalSet
    <3> QED BY <3>1, <3>2, NormalizedIsMergeable
  <2> HIDE DEF merged, sound, canonical
  <2>7. PastNormalization' => pc' = "rewrite"
    BY <2>2 DEF PastNormalization
  <2>8. obligations' \ remaining' = {}
    BY <2>1
  <2>9. Progress(plan', candidate'.output, obligations' \ remaining')
    BY <1>s, <2>1, <2>5, <2>8
  <2> QED BY <1>w, <2>1, <2>2, <2>3, <2>6, <2>7, <2>9 DEF AInv, EarlyStage
<1>6. ASSUME NEW ob \in remaining, Rewrite(ob) PROVE AInv'
  <2>1. /\ Stage("rewrite", "rewrite", ~Unenforceable(ob), "OBLIGATION_CONFLICT")
        /\ pc = "rewrite"
        /\ remaining' = remaining \ {ob}
        /\ plan' = IF ob.type = "VERSION_PIN" \/ Unenforceable(ob) THEN plan ELSE Append1(ob)
        /\ UNCHANGED <<obligations, bindings>>
    BY <1>6 DEF Rewrite, Stage
  <2>2. /\ ~Validated'
        /\ (~Unenforceable(ob) /\ pc' = "rewrite") \/ pc' = "answered"
    BY <1>r, <2>1, StageOutcome
  <2>3. response'.reason \notin Refusals
    BY <1>r, <2>1, StageReason DEF Refusals
  <2>4. /\ Mergeable(obligations)
        /\ Progress(plan, candidate.output, obligations \ remaining)
        /\ remaining \subseteq obligations
    BY <2>1 DEF AInv, IInv, PastNormalization
  <2>5. ASSUME pc' = "rewrite"
        PROVE  Progress(plan', candidate'.output, obligations' \ remaining')
    <3>1. PICK q : q = plan'
      OBVIOUS
    <3>2. Progress(q, candidate.output, obligations \ (remaining \ {ob}))
      BY <2>1, <2>2, <2>4, <2>5, <3>1, ProgressTurns
    <3> QED BY <1>s, <2>1, <3>1, <3>2
  <2>6. PastNormalization' => pc' = "rewrite"
    BY <2>2 DEF PastNormalization
  <2> QED BY <1>w, <2>1, <2>2, <2>3, <2>4, <2>5, <2>6 DEF AInv, EarlyStage
<1>7. CASE EndRewrite
  <2>1. /\ Stage("rewrite", "regraph", TRUE, "none") /\ pc = "rewrite" /\ remaining = {}
        /\ UNCHANGED <<obligations, remaining, plan, bindings>>
    BY <1>7 DEF EndRewrite, Stage
  <2>2. ~Validated' /\ pc' = "regraph"
    BY <1>r, <2>1, StageOutcome
  <2>3. response'.reason \notin Refusals
    BY <1>r, <2>1, StageReason DEF Refusals
  <2>4. /\ Mergeable(obligations)
        /\ Progress(plan, candidate.output, obligations \ remaining)
    BY <2>1 DEF AInv, PastNormalization
  <2>5. Progress(plan', candidate'.output, obligations' \ remaining')
    BY <1>s, <2>1, <2>4
  <2> QED BY <1>w, <2>1, <2>2, <2>3, <2>4, <2>5 DEF AInv, EarlyStage
<1>8. CASE RecheckGraph
  <2>1. /\ Stage("regraph", "retype", ValidGraph(plan), "REWRITTEN_GRAPH")
        /\ pc = "regraph" /\ UNCHANGED <<obligations, remaining, plan, bindings>>
    BY <1>8 DEF RecheckGraph, Stage
  <2>2. ~Validated' /\ (pc' = "retype" \/ pc' = "answered")
    BY <1>r, <2>1, StageOutcome
  <2>3. /\ Mergeable(obligations) /\ remaining = {}
        /\ Progress(plan, candidate.output, obligations \ remaining)
    BY <2>1 DEF AInv, PastNormalization
  <2>4. ValidGraph(plan)
    BY <2>3, GraphMeans DEF Progress, Parsed, Listed
  <2>5. response'.reason = "none"
    BY <1>r, <2>1, <2>4, StageReason
  <2>6. Progress(plan', candidate'.output, obligations' \ remaining')
    BY <1>s, <2>1, <2>3
  <2> QED BY <1>n, <1>w, <2>1, <2>2, <2>3, <2>5, <2>6 DEF AInv, EarlyStage
<1>9. CASE RecheckTypes
  <2>1. /\ Stage("retype", "bind", TypeChecks(plan, candidate.requested), "REWRITTEN_TYPES")
        /\ pc = "retype" /\ UNCHANGED <<obligations, remaining, plan, bindings>>
    BY <1>9 DEF RecheckTypes, Stage
  <2>2. /\ ~Validated'
        /\ (TypeChecks(plan, candidate.requested) /\ pc' = "bind") \/ pc' = "answered"
    BY <1>r, <2>1, StageOutcome
  <2>3. /\ Mergeable(obligations) /\ remaining = {}
        /\ Progress(plan, candidate.output, obligations \ remaining)
    BY <2>1 DEF AInv, PastNormalization
  <2>4. response'.reason \notin Refusals
    BY <1>r, <2>1, StageReason DEF Refusals
  <2>5. Progress(plan', candidate'.output, obligations' \ remaining')
    BY <1>s, <2>1, <2>3
  <2> QED BY <1>p, <1>w, <2>1, <2>2, <2>3, <2>4, <2>5 DEF AInv, EarlyStage
<1>10. CASE BindSnapshots
  <2>1. /\ Stage("bind", "verify", ScansResolvable, "VERSION_UNRESOLVED")
        /\ pc = "bind" /\ UNCHANGED <<obligations, remaining, plan>>
    BY <1>10 DEF BindSnapshots, Stage, ScansResolvable
  <2>2. ~Validated' /\ (pc' = "verify" \/ pc' = "answered")
    BY <1>r, <2>1, StageOutcome
  <2>3. /\ Mergeable(obligations) /\ remaining = {}
        /\ Progress(plan, candidate.output, obligations \ remaining)
        /\ TypeChecks(plan, candidate.requested)
    BY <2>1 DEF AInv, PastNormalization
  <2>4. ScansResolvable
    BY <2>3, TypedIsResolvable DEF Progress
  <2>5. response'.reason = "none"
    BY <1>r, <2>1, <2>4, StageReason
  <2>6. Progress(plan', candidate'.output, obligations' \ remaining')
    BY <1>s, <2>1, <2>3
  <2> QED BY <1>n, <1>p, <1>w, <2>1, <2>2, <2>3, <2>5, <2>6 DEF AInv, EarlyStage
<1>11. CASE VerifyObligations
  <2>1. pc = "verify" /\ pc' = "answered" /\ UNCHANGED <<obligations, remaining, plan, bindings>>
    BY <1>11 DEF VerifyObligations, Answer
  <2>2. /\ Mergeable(obligations) /\ remaining = {} /\ bindings = Bound
        /\ Progress(plan, candidate.output, obligations \ remaining)
        /\ TypeChecks(plan, candidate.requested)
    BY <2>1 DEF AInv, IInv, PastNormalization
  <2>3. obligations \ remaining = obligations
    BY <2>2
  <2>4. PostconditionsHold
    BY <2>2, <2>3, ProgressIsEnough
  <2>5. response'.reason = "none"
    BY <1>11, <2>4 DEF VerifyObligations, Answer
  <2>6. Progress(plan', candidate'.output, obligations' \ remaining')
    BY <1>s, <2>1, <2>2
  <2> QED BY <1>n, <1>p, <1>w, <2>1, <2>2, <2>5, <2>6 DEF AInv, EarlyStage
<1>12. CASE UNCHANGED validatorVars
  <2>1. UNCHANGED <<candidate, policy, obligations, remaining, plan, bindings, pc, response>>
    BY <1>12 DEF validatorVars
  <2>2. /\ Validated' <=> Validated
        /\ PastNormalization' <=> PastNormalization
        /\ RewriterAgreesWithVerifier' <=> RewriterAgreesWithVerifier
    BY <2>1 DEF Validated, PastNormalization, RewriterAgreesWithVerifier
  <2>3. PastNormalization' =>
          Mergeable(obligations') /\ Progress(plan', candidate'.output, obligations' \ remaining')
    BY <2>1, <2>2 DEF AInv
  <2> QED BY <1>p, <2>1, <2>2, <2>3 DEF AInv, EarlyStage
<1> QED BY <1>1, <1>2, <1>3, <1>4, <1>5, <1>6, <1>7, <1>8, <1>9, <1>10, <1>11, <1>12
        DEF Next
-----------------------------------------------------------------------------
\* Both halves.
Inv == IInv /\ AInv

\* The invariant of validate().
LEMMA InvariantHolds == Spec => []Inv
<1>1. Init => Inv
  BY InitIInv, InitAInv DEF Inv
<1>2. Inv /\ [Next]_validatorVars => Inv'
  BY StepIInv, StepAInv DEF Inv
<1> QED BY <1>1, <1>2, PTL DEF Spec

(* _rewrite_obligations and the checks after it agree, for every catalog,  *)
(* candidate and policy: the rewritten plan is always a graph, its scans   *)
(* always resolve, and every normalized obligation is found enforced, even *)
(* when an agent has used ids of the rewriter's form.                      *)
THEOREM RewritingIsNeverRefused == Spec => []RewriterAgreesWithVerifier
<1>1. Inv => RewriterAgreesWithVerifier
  BY DEF Inv, AInv
<1> QED BY <1>1, InvariantHolds, PTL

(* Masking is final, for every catalog and candidate: in a plan validate() *)
(* answers with, no operator that a masked field reaches, through joins,   *)
(* projections and aggregates, computes with it.                           *)
THEOREM MaskingIsFinal == Spec => []MaskedNeverUsed
<1>1. Inv => MaskedNeverUsed
  <2> SUFFICES ASSUME Inv, Validated,
                      NEW m \in Ids(plan), OperatorOf(plan, m).type = "Mask",
                      NEW f \in OperatorOf(plan, m).fields, NEW u \in Receivers(m, f)
               PROVE  f \notin Uses(OperatorOf(plan, u))
    BY DEF MaskedNeverUsed
  <2>1. Parsed(plan) /\ Sound(plan) /\ TypeChecks(plan, candidate.requested)
    BY DEF Inv, AInv, PastNormalization, Progress
  <2>2. AllTyped(plan)
    BY <2>1 DEF TypeChecks, AllTyped, SchemaAt
  <2> QED BY <2>1, <2>2, MaskedReaches
<1> QED BY <1>1, InvariantHolds, PTL

\* Schemas that are as the merged obligations ask are as the rules ask.
LEMMA GovernedAsWritten ==
  ASSUME NEW obs \in SUBSET Obligation, \A ob \in obs : WellFormed(ob),
         NEW s, \A m \in Normalized(CanonicalSet(obs)) : Governs(s, m),
         NEW ob \in obs, NEW f \in ob.fields
  PROVE  /\ ob.type = "MASK" => s.fields[f].state = MaskState(Canonical(ob).method)
         /\ ob.type = "GENERALIZE_LOCATION" =>
              s.fields[f].precision > 0 \/ s.fields[f].state # "raw"
<1> DEFINE C == CanonicalSet(obs)
           c == Canonical(ob)
<1>1. C \in SUBSET Obligation /\ c \in C
  BY CanonicalObligation DEF CanonicalSet
<1>2. c \in Obligation /\ c.type = ob.type /\ c.fields = ob.fields
  BY CanonicalObligation
<1>3. \A m \in Normalized(C) : Governs(s, m)
  OBVIOUS
<1> HIDE DEF C, c
<1>4. CASE ob.type = "MASK"
  <2>1. c \in OfKind(C, "MASK")
    BY <1>1, <1>2, <1>4 DEF OfKind
  <2>2. PICK m \in MergedMasks(C) :
          m.type = "MASK" /\ m.method = c.method /\ c.fields \subseteq m.fields
    BY <1>1, <2>1, MaskCovers
  <2>3. m \in Normalized(C) /\ f \in m.fields
    BY <1>2, <2>2 DEF Normalized
  <2>4. s.fields[f].state = MaskState(c.method)
    BY <1>3, <2>2, <2>3 DEF Governs
  <2> QED BY <1>4, <2>4 DEF c
<1>5. CASE ob.type = "GENERALIZE_LOCATION"
  <2>1. c \in OfKind(C, "GENERALIZE_LOCATION")
    BY <1>1, <1>2, <1>5 DEF OfKind
  <2>2. PICK m \in MergedGeneralizations(C) : m.type = c.type /\ m.fields = c.fields
    BY <1>1, <2>1, GeneralizationCovers
  <2>3. m \in Normalized(C) /\ f \in m.fields
    BY <1>2, <2>2 DEF Normalized
  <2>4. s.fields[f].precision > 0 \/ s.fields[f].state # "raw"
    BY <1>2, <1>3, <1>5, <2>2, <2>3 DEF Governs
  <2> QED BY <1>5, <2>4
<1> QED BY <1>4, <1>5

(* What an answer promises of its output, for every catalog, candidate and *)
(* policy: fields that a permitting rule masks arrive masked by its method *)
(* and those it generalizes arrive coarse or masked, whatever the other    *)
(* enforcers of the suffix do (_merge_masks, the loop, the Mask rule).     *)
THEOREM OutputIsGoverned == Spec => []OutputGoverned
<1>1. Inv => OutputGoverned
  <2> SUFFICES ASSUME Inv, Validated, NEW ob \in Permitted, NEW f \in ob.fields
               PROVE  LET info == Schemas(plan)[plan.output].fields
                      IN /\ ob.type = "MASK" =>
                              info[f].state = MaskState(Canonical(ob).method)
                         /\ ob.type = "GENERALIZE_LOCATION" =>
                              info[f].precision > 0 \/ info[f].state # "raw"
    BY DEF OutputGoverned
  <2>1. /\ \A o \in Permitted : WellFormed(o)
        /\ obligations = Normalized(CanonicalSet(Permitted))
        /\ Permitted \in SUBSET Obligation
    BY PermittedObligations DEF Inv, IInv, PastNormalization
  <2>2. /\ remaining = {} /\ Progress(plan, candidate.output, obligations \ remaining)
        /\ TypeChecks(plan, candidate.requested)
    BY DEF Inv, AInv, PastNormalization
  <2>3. plan.output \in Ids(plan) /\ SchemaAt(plan, plan.output).ok
    BY <2>2 DEF Progress, Sound, TypeChecks, SchemaAt
  <2> PICK s : s = SchemaAt(plan, plan.output)
    OBVIOUS
  <2>4. \A m \in Normalized(CanonicalSet(Permitted)) : Governs(s, m)
    BY <2>1, <2>2, <2>3 DEF Progress, Handled
  <2>5. /\ ob.type = "MASK" => s.fields[f].state = MaskState(Canonical(ob).method)
        /\ ob.type = "GENERALIZE_LOCATION" =>
             s.fields[f].precision > 0 \/ s.fields[f].state # "raw"
    <3>1. PICK obs : obs = Permitted
      OBVIOUS
    <3> QED BY <2>1, <2>4, <3>1, GovernedAsWritten
  <2> QED BY <2>5 DEF SchemaAt
<1> QED BY <1>1, InvariantHolds, PTL
=============================================================================
