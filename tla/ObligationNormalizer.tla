------------------------- MODULE ObligationNormalizer -------------------------
(***************************************************************************)
(* Policy obligations: their well-formedness, the merge algebra that makes *)
(* one canonical set of them (src/trustaero/validator/                     *)
(* obligation_normalizer.py) and what an output operator must be to        *)
(* enforce one (validator/obligations.py).                                 *)
(*                                                                         *)
(* An obligation is [type, fields, method, amount]; a type uses the        *)
(* parameters it has and leaves the others at {}, NoMethod, 0.  amount is  *)
(* the fixed-grid precision, the minimum group size or the lineage level   *)
(* (none < source < record as 0 < 1 < 2); only its order matters.          *)
(* Obligations are kept in sets: the code walks a tuple, but every merge   *)
(* is a maximum, a union or a deduplication.                               *)
(***************************************************************************)
EXTENDS Integers, FiniteSetsExt

CONSTANTS Field,      \* field names
          MaxAmount,  \* bound on precisions and group sizes
          NoMethod    \* the method parameter is absent

ASSUME AmountAssumption == MaxAmount \in Nat \ {0, 1}

MaskMethod == {"redact", "hash", "null"}

ObligationType ==
  {"VERSION_PIN", "MASK", "GENERALIZE_LOCATION", "MIN_GROUP_SIZE",
   "EXPORT_CONTROL", "LINEAGE_CAPTURE"}

Obligation ==
  [type : ObligationType, fields : SUBSET Field,
   method : MaskMethod \cup {"fixed_grid", NoMethod}, amount : 0 .. MaxAmount]

(* _canonicalize makes the default method explicit ...                     *)
Canonical(ob) ==
  IF ob.method # NoMethod THEN ob
  ELSE IF ob.type = "MASK" THEN [ob EXCEPT !.method = "redact"]
  ELSE IF ob.type = "GENERALIZE_LOCATION" THEN [ob EXCEPT !.method = "fixed_grid"]
  ELSE ob

(* ... and refuses parameters the type does not define; unsupported types  *)
(* pass through, for the rewriter to refuse.                               *)
WellFormed(ob) ==
  /\ ob.type = "VERSION_PIN" =>
       ob.fields = {} /\ ob.method = NoMethod /\ ob.amount = 0
  /\ ob.type = "MASK" =>
       ob.fields # {} /\ ob.method \in MaskMethod \cup {NoMethod} /\ ob.amount = 0
  /\ ob.type = "GENERALIZE_LOCATION" =>
       ob.fields # {} /\ ob.method \in {"fixed_grid", NoMethod} /\ ob.amount > 0
  /\ ob.type = "MIN_GROUP_SIZE" =>
       ob.fields = {} /\ ob.method = NoMethod /\ ob.amount >= 2
  /\ ob.type = "LINEAGE_CAPTURE" =>
       ob.fields = {} /\ ob.method = NoMethod /\ ob.amount <= 2

OfKind(obs, type) == {ob \in obs : ob.type = type}

\* Mutant of MasksConflict: the methods are taken for compatible.
NeverConflict(obs) == FALSE

\* One field with two masking methods: the methods are not ordered.
MasksConflict(obs) ==
  \E a, b \in OfKind(obs, "MASK") :
    a.method # b.method /\ a.fields \cap b.fields # {}

\* Equal field set and method: the largest grid cell.
MergedGeneralizations(obs) ==
  {[a EXCEPT !.amount =
      Max({b.amount : b \in {c \in OfKind(obs, "GENERALIZE_LOCATION") :
                               c.fields = a.fields /\ c.method = a.method}})] :
     a \in OfKind(obs, "GENERALIZE_LOCATION")}

\* One mask per method, over the union of the fields.
MergedMasks(obs) ==
  {[a EXCEPT !.fields =
      UNION {b.fields : b \in {c \in OfKind(obs, "MASK") : c.method = a.method}}] :
     a \in OfKind(obs, "MASK")}

\* Mutant of MergedMaximum: the smallest instead.
MergedMinimum(obs, type) ==
  {ob \in OfKind(obs, type) : \A other \in OfKind(obs, type) : other.amount >= ob.amount}

\* Minimum group sizes, and lineage levels: the largest.
MergedMaximum(obs, type) ==
  {ob \in OfKind(obs, type) : \A other \in OfKind(obs, type) : other.amount <= ob.amount}

(* normalize_obligations on canonical obligations without a mask conflict. *)
(* Pins and unsupported obligations are only deduplicated.                 *)
Normalized(obs) ==
  OfKind(obs, "VERSION_PIN")
    \cup MergedGeneralizations(obs)
    \cup MergedMasks(obs)
    \cup MergedMaximum(obs, "MIN_GROUP_SIZE")
    \cup MergedMaximum(obs, "LINEAGE_CAPTURE")
    \cup OfKind(obs, "EXPORT_CONTROL")

(* The suffix order _sort_key gives the types; inside a type it is only a  *)
(* stable tie-break, left open here.                                       *)
Priority(ob) ==
  CASE ob.type = "VERSION_PIN" -> 0
    [] ob.type = "GENERALIZE_LOCATION" -> 10
    [] ob.type = "MASK" -> 20
    [] ob.type = "MIN_GROUP_SIZE" -> 30
    [] ob.type = "LINEAGE_CAPTURE" -> 40
    [] ob.type = "EXPORT_CONTROL" -> 90
-----------------------------------------------------------------------------
EnforcerOf(type) ==
  CASE type = "MASK" -> "Mask"
    [] type = "GENERALIZE_LOCATION" -> "GeneralizeLocation"
    [] type = "MIN_GROUP_SIZE" -> "MinGroupSize"
    [] type = "LINEAGE_CAPTURE" -> "LineageCapture"

(* _matches_suffix, and the level test of _lineage_instrumentation: op     *)
(* does what ob asks for, or more.                                         *)
Enforces(op, ob) ==
  /\ ob.type \notin {"VERSION_PIN", "EXPORT_CONTROL"}
  /\ op.type = EnforcerOf(ob.type)
  /\ ob.fields \subseteq op.fields
  /\ op.method = ob.method
  /\ op.amount >= ob.amount
=============================================================================
