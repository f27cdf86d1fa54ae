------------------------ MODULE CertificateAuditProofs ------------------------
(***************************************************************************)
(* Theorems about the executor, the recorder and the verifier, for every   *)
(* valid physical plan and every number of disturbed events.               *)
(***************************************************************************)
EXTENDS CertificateAudit, FiniteLemmas, SequenceTheorems

EventRecord ==
  [sequence : Nat, event_type : EventTypes, operator_id : OperatorId \cup {NoOperator}]

-----------------------------------------------------------------------------
LEMMA SeqElement ==
  ASSUME NEW R, NEW s \in Seq(R), NEW i \in DOMAIN s
  PROVE  i \in Nat /\ 1 <= i /\ i <= Len(s) /\ s[i] \in R
OBVIOUS

LEMMA EventFields ==
  ASSUME NEW s \in Seq(EventRecord), NEW i \in DOMAIN s
  PROVE  /\ i \in Nat
         /\ s[i].sequence \in Nat
         /\ s[i].event_type \in EventTypes
         /\ s[i].operator_id \in OperatorId \cup {NoOperator}
<1>1. i \in Nat /\ s[i] \in EventRecord
  BY SeqElement
<1> QED BY <1>1 DEF EventRecord

(* In a valid plan an operator id names one specification, and the inputs  *)
(* of a known operator are known.                                          *)
LEMMA InputsAreKnown ==
  ASSUME NEW o \in Known(Plan)
  PROVE  Inputs(Plan, o) \subseteq Known(Plan)
<1>1. PICK k \in Indices(Plan) : Plan.operators[k].id = o
  BY DEF Known
<1>2. Indices(Plan) \subseteq Nat
  BY PlanAssumption DEF Indices
<1>3. \A j \in Indices(Plan) : Plan.operators[j].id = o => j = k
  BY <1>1, PlanAssumption DEF ValidPhysicalPlanDag, DuplicateFree
<1>4. LastIndex(Plan, o) \in Indices(Plan)
  BY <1>1, <1>2, <1>3 DEF LastIndex
<1> QED BY <1>4, PlanAssumption DEF Inputs, ValidPhysicalPlanDag, InputsKnown

LEMMA KnownOperators == Known(Plan) \subseteq OperatorId
<1>1. \A k \in DOMAIN Plan.operators :
        Plan.operators[k] \in [id : OperatorId, inputs : SUBSET OperatorId]
  BY PlanAssumption, SeqElement
<1> QED BY <1>1 DEF Known, Indices

(* Ancestors are closed: whatever holds of an operator's inputs and is     *)
(* inherited from an operator by its inputs holds of all its ancestors.    *)
LEMMA AncestorsInduction ==
  ASSUME NEW o \in Known(Plan), NEW S \in SUBSET Known(Plan),
         Inputs(Plan, o) \subseteq S,
         \A a \in S : Inputs(Plan, a) \subseteq S
  PROVE  Ancestors(Plan, o) \subseteq S
BY DEF Ancestors, InputClosed
-----------------------------------------------------------------------------
(* The first sequence number of a nonempty set of events of an ordered log *)
(* is the one at its least position.                                       *)
LEMMA LeastSequence ==
  ASSUME NEW s \in Seq(EventRecord), OrderedSequences(s),
         NEW I \in SUBSET DOMAIN s, NEW i \in I, \A j \in I : i <= j
  PROVE  Least(SequencesOf(s, I)) = s[i].sequence
<1>1. \A j \in I : j \in Nat /\ s[j].sequence \in Nat /\ s[i].sequence <= s[j].sequence
  <2>1. \A j \in DOMAIN s : j \in Nat /\ s[j].sequence \in Nat
    BY EventFields
  <2> QED BY <2>1 DEF OrderedSequences
<1>2. \A n \in SequencesOf(s, I) : n \in Nat /\ s[i].sequence <= n
  BY <1>1 DEF SequencesOf
<1>3. s[i].sequence \in SequencesOf(s, I)
  BY DEF SequencesOf
<1> HIDE DEF SequencesOf
<1> QED BY <1>2, <1>3 DEF Least

LEMMA FirstPosition ==
  ASSUME NEW s \in Seq(EventRecord), OrderedSequences(s),
         NEW I \in SUBSET DOMAIN s, I # {}
  PROVE  \E i \in I : /\ \A j \in I : i <= j
                      /\ Least(SequencesOf(s, I)) = s[i].sequence
<1>1. I \subseteq Nat
  OBVIOUS
<1>2. PICK i \in I : \A j \in I : i <= j
  BY <1>1, LeastNat
<1> QED BY <1>2, LeastSequence

(* Both indexings of the code agree on an ordered log: the first in list   *)
(* order (_event_index) is the smallest sequence number (first_sequence).  *)
LEMMA IndexIsFirst ==
  ASSUME NEW s \in Seq(EventRecord), OrderedSequences(s),
         NEW type, NEW o, OfOperator(s, type, o) # {}
  PROVE  /\ EventIndex(s, type, o) = FirstFor(s, type, o)
         /\ FirstFor(s, type, o) \in Nat
<1> DEFINE I == OfOperator(s, type, o)
<1>1. PICK i \in I : /\ \A j \in I : i <= j
                     /\ Least(SequencesOf(s, I)) = s[i].sequence
  BY FirstPosition DEF OfOperator
<1>2. \A k \in DOMAIN s :
        (IsEvent(s, k, type, o) /\ \A j \in DOMAIN s : IsEvent(s, j, type, o) => k <= j)
          => k = i
  BY <1>1 DEF OfOperator
<1>3. i \in DOMAIN s /\ IsEvent(s, i, type, o)
         /\ \A j \in DOMAIN s : IsEvent(s, j, type, o) => i <= j
  BY <1>1 DEF OfOperator
<1>4. EventIndex(s, type, o) = s[i].sequence
  BY <1>2, <1>3 DEF EventIndex
<1>5. s[i].sequence \in Nat
  BY <1>3, EventFields
<1> QED BY <1>1, <1>4, <1>5 DEF FirstFor

(* An accepted log orders an operator after every operator it transitively *)
(* depends on.                                                             *)
LEMMA CoverageOrdersAncestors ==
  ASSUME NEW s \in Seq(EventRecord), NEW evidence \in BOOLEAN,
         ValidEventCoverage(Plan, s, evidence),
         NEW o \in Known(Plan), NEW a \in Ancestors(Plan, o)
  PROVE  FirstFor(s, "OperatorCompleted", a) < FirstFor(s, "OperatorStarted", o)
<1> DEFINE st(x) == FirstFor(s, "OperatorStarted", x)
           co(x) == FirstFor(s, "OperatorCompleted", x)
           S == {x \in Known(Plan) : co(x) < st(o)}
<1>1. OrderedSequences(s)
  BY DEF ValidEventCoverage
<1>2. \A x \in Known(Plan) :
        /\ st(x) \in Nat /\ co(x) \in Nat /\ st(x) < co(x)
        /\ EventIndex(s, "OperatorStarted", x) = st(x)
        /\ EventIndex(s, "OperatorCompleted", x) = co(x)
        /\ Occurs(s, "OperatorStarted", x) /\ Occurs(s, "OperatorCompleted", x)
  BY <1>1, IndexIsFirst DEF ValidEventCoverage, OperatorCovered, Occurs, OfOperator
<1>3. \A x \in Known(Plan) : \A d \in Inputs(Plan, x) : d \in Known(Plan) /\ co(d) < st(x)
  BY <1>2, InputsAreKnown DEF ValidEventCoverage, ValidDependencyEvents
<1>4. Inputs(Plan, o) \subseteq S
  BY <1>3
<1>5. \A x \in S : Inputs(Plan, x) \subseteq S
  <2> SUFFICES ASSUME NEW x \in S, NEW d \in Inputs(Plan, x)
               PROVE  d \in S
    OBVIOUS
  <2>1. d \in Known(Plan) /\ co(d) < st(x) /\ st(x) < co(x) /\ co(x) < st(o)
    BY <1>2, <1>3
  <2>2. st(o) \in Nat /\ st(x) \in Nat /\ co(x) \in Nat /\ co(d) \in Nat
    BY <1>2, <2>1
  <2> HIDE DEF st, co
  <2> QED BY <2>1, <2>2
<1>6. a \in S
  BY <1>4, <1>5, AncestorsInduction
<1> QED BY <1>6
-----------------------------------------------------------------------------
(* The execution itself.                                                   *)
LEMMA ExecutionStep ==
  ASSUME ExecTypeOK, DependenciesRespected, [ExecNext]_execVars
  PROVE  ExecTypeOK' /\ DependenciesRespected'
<1> USE DEF ExecTypeOK, DependenciesRespected, Stages, Finished
<1>1. CASE Approve
  BY <1>1 DEF Approve
<1>2. ASSUME NEW o \in Known(Plan), Start(o)
      PROVE  ExecTypeOK' /\ DependenciesRespected'
  BY <1>2 DEF Start
<1>3. ASSUME NEW o \in Known(Plan), Complete(o)
      PROVE  ExecTypeOK' /\ DependenciesRespected'
  BY <1>3 DEF Complete
<1>4. CASE Materialize
  BY <1>4 DEF Materialize
<1>5. CASE RecordLineage
  BY <1>5 DEF RecordLineage
<1>6. CASE Emit
  BY <1>6 DEF Emit
<1>7. CASE UNCHANGED execVars
  BY <1>7 DEF execVars
<1> QED BY <1>1, <1>2, <1>3, <1>4, <1>5, <1>6, <1>7 DEF ExecNext

(* An execution in dependency order keeps that order, and never stops      *)
(* before every operator has completed: acyclicity gives the operators     *)
(* that have not completed one that waits for none of them.                *)
THEOREM ExecutionSafety == ExecSpec => [](DependenciesRespected /\ NeverStuck)
<1>1. ExecInit => ExecTypeOK /\ DependenciesRespected
  BY DEF ExecInit, ExecTypeOK, Stages, DependenciesRespected, Finished
<1>2. ExecTypeOK /\ DependenciesRespected => NeverStuck
  <2> SUFFICES ASSUME ExecTypeOK, DependenciesRespected,
                      completed # Known(Plan), started = completed
               PROVE  \E o \in Known(Plan) \ started : Inputs(Plan, o) \subseteq completed
    BY DEF NeverStuck
  <2> DEFINE Rest == Known(Plan) \ completed
  <2>1. PICK o \in Rest : Inputs(Plan, o) \cap Rest = {}
    BY PlanAssumption DEF ValidPhysicalPlanDag, Acyclic, ExecTypeOK
  <2> QED BY <2>1, InputsAreKnown
<1> QED BY <1>1, <1>2, ExecutionStep, PTL DEF ExecSpec
-----------------------------------------------------------------------------
(* Recording appends one event: the positions of its kind gain the end of  *)
(* the log, the positions of every other kind are unchanged.               *)
LEMMA AppendEvent ==
  ASSUME NEW s \in Seq(EventRecord), NEW e \in EventRecord
  PROVE  /\ Append(s, e) \in Seq(EventRecord)
         /\ DOMAIN Append(s, e) = DOMAIN s \cup {Len(s) + 1}
         /\ \A i \in DOMAIN s : i \in Nat /\ 1 <= i /\ i <= Len(s) /\ Append(s, e)[i] = s[i]
         /\ Append(s, e)[Len(s) + 1] = e
         /\ Len(s) \in Nat
BY AppendProperties

LEMMA AppendPositions ==
  ASSUME NEW s \in Seq(EventRecord), NEW e \in EventRecord, NEW type, NEW o
  PROVE  /\ OfType(Append(s, e), type) =
              OfType(s, type) \cup {i \in {Len(s) + 1} : e.event_type = type}
         /\ OfOperator(Append(s, e), type, o) =
              OfOperator(s, type, o) \cup
                {i \in {Len(s) + 1} : e.event_type = type /\ e.operator_id = o}
BY AppendEvent DEF OfType, OfOperator, IsEvent

RecordedTypeOK == ExecTypeOK /\ events \in Seq(EventRecord)

LEMMA RecordKeepsNumbers ==
  ASSUME events \in Seq(EventRecord), NEW type \in EventTypes,
         NEW o \in OperatorId \cup {NoOperator}, Record(type, o),
         \A i \in DOMAIN events : events[i].sequence = i - 1
  PROVE  /\ events' \in Seq(EventRecord)
         /\ \A i \in DOMAIN events' : events'[i].sequence = i - 1
         /\ \A t, i : i \in OfType(events', t) <=>
               i \in OfType(events, t) \/ (i = Len(events) + 1 /\ type = t)
         /\ \A t, p, i : i \in OfOperator(events', t, p) <=>
               i \in OfOperator(events, t, p)
                 \/ (i = Len(events) + 1 /\ type = t /\ o = p)
<1> DEFINE e == Event(Len(events), type, o)
<1>1. /\ e \in EventRecord /\ e.event_type = type /\ e.operator_id = o
      /\ e.sequence = Len(events) /\ Len(events) \in Nat
  BY DEF Event, EventRecord
<1>2. events' = Append(events, e)
  BY DEF Record
<1> HIDE DEF e
<1>3. events' \in Seq(EventRecord) /\ \A i \in DOMAIN events' : events'[i].sequence = i - 1
  BY <1>1, <1>2, AppendEvent
<1>4. ASSUME NEW t, NEW i
      PROVE  i \in OfType(events', t) <=>
               i \in OfType(events, t) \/ (i = Len(events) + 1 /\ type = t)
  BY <1>1, <1>2, AppendPositions
<1>5. ASSUME NEW t, NEW p, NEW i
      PROVE  i \in OfOperator(events', t, p) <=>
               i \in OfOperator(events, t, p)
                 \/ (i = Len(events) + 1 /\ type = t /\ o = p)
  BY <1>1, <1>2, AppendPositions
<1> QED BY <1>3, <1>4, <1>5

LEMMA PositionsBounded ==
  ASSUME events \in Seq(EventRecord)
  PROVE  /\ Len(events) \in Nat
         /\ \A t : \A i \in OfType(events, t) : i \in Nat /\ i <= Len(events)
         /\ \A t, p : \A i \in OfOperator(events, t, p) :
               i \in Nat /\ 1 <= i /\ i <= Len(events)
         /\ \A t, p : OfOperator(events, t, p) \subseteq OfType(events, t)
BY SeqElement DEF OfType, OfOperator, IsEvent

LEMMA RecordingStep ==
  ASSUME RecordedTypeOK, DependenciesRespected, LogInvariant, [Next]_vars
  PROVE  events' \in Seq(EventRecord) /\ LogInvariant'
<1> DEFINE Goal == events' \in Seq(EventRecord) /\ LogInvariant'
           n == Len(events) + 1
<1>0. events \in Seq(EventRecord) /\ \A i \in DOMAIN events : events[i].sequence = i - 1
  BY DEF RecordedTypeOK, LogInvariant, LogOrdered
<1>1. CASE ApprovePlan
  <2>1. /\ Record("PlanApproved", NoOperator) /\ "PlanApproved" \in EventTypes
        /\ NoOperator \in OperatorId \cup {NoOperator}
    BY <1>1, KnownOperators DEF ApprovePlan, EventTypes
  <2>2. /\ events' \in Seq(EventRecord)
        /\ \A i \in DOMAIN events' : events'[i].sequence = i - 1
        /\ \A t, i : i \in OfType(events', t) <=>
             i \in OfType(events, t) \/ (i = n /\ "PlanApproved" = t)
        /\ \A t, p, i : i \in OfOperator(events', t, p) <=>
             i \in OfOperator(events, t, p) \/ (i = n /\ "PlanApproved" = t /\ NoOperator = p)
    BY <1>0, <2>1, RecordKeepsNumbers
  <2>3. LogComplete'
    BY <1>1, <2>2, KnownOperators, OperatorAssumption
    DEF ApprovePlan, Approve, LogInvariant, LogComplete, HasEvent, Finished,
        RecordedTypeOK, ExecTypeOK, Stages, DependenciesRespected
  <2> USE DEF ApprovePlan, Approve, LogInvariant, LogComplete, LogOrdered, HasEvent, Finished,
            RecordedTypeOK, ExecTypeOK, Stages, DependenciesRespected
  <2>4. LogOrdered'
    <3>1. \A i \in OfType(events', "PlanApproved") : i = 1
      BY <1>1, <2>2, PositionsBounded
    <3>2. ASSUME NEW p \in Known(Plan), NEW i \in OfOperator(events', "OperatorStarted", p)
          PROVE  /\ 1 < i
                 /\ \A j \in OfOperator(events', "OperatorCompleted", p) : i < j
      BY <1>1, <2>2, PositionsBounded, KnownOperators, OperatorAssumption
    <3>3. ASSUME NEW p \in Known(Plan), NEW d \in Inputs(Plan, p),
                 NEW i \in OfOperator(events', "OperatorCompleted", d),
                 NEW j \in OfOperator(events', "OperatorStarted", p)
          PROVE  i < j
      <4>1. d \in Known(Plan)
        BY InputsAreKnown
      <4> QED BY <1>1, <2>2, <4>1, PositionsBounded, KnownOperators, OperatorAssumption
    <3>4. Before("OperatorCompleted", "ResultMaterialized")'
      BY <1>1, <2>2, PositionsBounded DEF Before
    <3>5. Before("ResultMaterialized", "LineageRecorded")'
      BY <1>1, <2>2, PositionsBounded DEF Before
    <3>6. Before("ResultMaterialized", "CertificateEmitted")'
      BY <1>1, <2>2, PositionsBounded DEF Before
    <3>7. Before("LineageRecorded", "CertificateEmitted")'
      BY <1>1, <2>2, PositionsBounded DEF Before
    <3> QED BY <2>2, <3>1, <3>2, <3>3, <3>4, <3>5, <3>6, <3>7
  <2> QED BY <2>2, <2>3, <2>4 DEF LogInvariant
<1>2. CASE RecordDecision
  <2>1. /\ Record("PolicyDecisionRecorded", NoOperator) /\ "PolicyDecisionRecorded" \in EventTypes
        /\ NoOperator \in OperatorId \cup {NoOperator}
    BY <1>2, KnownOperators DEF RecordDecision, EventTypes
  <2>2. /\ events' \in Seq(EventRecord)
        /\ \A i \in DOMAIN events' : events'[i].sequence = i - 1
        /\ \A t, i : i \in OfType(events', t) <=>
             i \in OfType(events, t) \/ (i = n /\ "PolicyDecisionRecorded" = t)
        /\ \A t, p, i : i \in OfOperator(events', t, p) <=>
             i \in OfOperator(events, t, p) \/ (i = n /\ "PolicyDecisionRecorded" = t /\ NoOperator = p)
    BY <1>0, <2>1, RecordKeepsNumbers
  <2>3. LogComplete'
    BY <1>2, <2>2, KnownOperators, OperatorAssumption
    DEF RecordDecision, execVars, LogInvariant, LogComplete, HasEvent, Finished,
        RecordedTypeOK, ExecTypeOK, Stages, DependenciesRespected
  <2> USE DEF RecordDecision, execVars, LogInvariant, LogComplete, LogOrdered, HasEvent, Finished,
            RecordedTypeOK, ExecTypeOK, Stages, DependenciesRespected
  <2>4. LogOrdered'
    <3>1. \A i \in OfType(events', "PlanApproved") : i = 1
      BY <1>2, <2>2, PositionsBounded
    <3>2. ASSUME NEW p \in Known(Plan), NEW i \in OfOperator(events', "OperatorStarted", p)
          PROVE  /\ 1 < i
                 /\ \A j \in OfOperator(events', "OperatorCompleted", p) : i < j
      BY <1>2, <2>2, PositionsBounded, KnownOperators, OperatorAssumption
    <3>3. ASSUME NEW p \in Known(Plan), NEW d \in Inputs(Plan, p),
                 NEW i \in OfOperator(events', "OperatorCompleted", d),
                 NEW j \in OfOperator(events', "OperatorStarted", p)
          PROVE  i < j
      <4>1. d \in Known(Plan)
        BY InputsAreKnown
      <4> QED BY <1>2, <2>2, <4>1, PositionsBounded, KnownOperators, OperatorAssumption
    <3>4. Before("OperatorCompleted", "ResultMaterialized")'
      BY <1>2, <2>2, PositionsBounded DEF Before
    <3>5. Before("ResultMaterialized", "LineageRecorded")'
      BY <1>2, <2>2, PositionsBounded DEF Before
    <3>6. Before("ResultMaterialized", "CertificateEmitted")'
      BY <1>2, <2>2, PositionsBounded DEF Before
    <3>7. Before("LineageRecorded", "CertificateEmitted")'
      BY <1>2, <2>2, PositionsBounded DEF Before
    <3> QED BY <2>2, <3>1, <3>2, <3>3, <3>4, <3>5, <3>6, <3>7
  <2> QED BY <2>2, <2>3, <2>4 DEF LogInvariant
<1>3. ASSUME NEW o \in Known(Plan), StartOperator(o) PROVE Goal
  <2>1. /\ Record("OperatorStarted", o) /\ "OperatorStarted" \in EventTypes
        /\ o \in OperatorId \cup {NoOperator}
    BY <1>3, KnownOperators DEF StartOperator, EventTypes
  <2>2. /\ events' \in Seq(EventRecord)
        /\ \A i \in DOMAIN events' : events'[i].sequence = i - 1
        /\ \A t, i : i \in OfType(events', t) <=>
             i \in OfType(events, t) \/ (i = n /\ "OperatorStarted" = t)
        /\ \A t, p, i : i \in OfOperator(events', t, p) <=>
             i \in OfOperator(events, t, p) \/ (i = n /\ "OperatorStarted" = t /\ o = p)
    BY <1>0, <2>1, RecordKeepsNumbers
  <2>3. LogComplete'
    BY <1>3, <2>2, KnownOperators, OperatorAssumption
    DEF StartOperator, Start, LogInvariant, LogComplete, HasEvent, Finished,
        RecordedTypeOK, ExecTypeOK, Stages, DependenciesRespected
  <2> USE DEF StartOperator, Start, LogInvariant, LogComplete, LogOrdered, HasEvent, Finished,
            RecordedTypeOK, ExecTypeOK, Stages, DependenciesRespected
  <2>4. LogOrdered'
    <3>1. \A i \in OfType(events', "PlanApproved") : i = 1
      BY <1>3, <2>2, PositionsBounded
    <3>2. ASSUME NEW p \in Known(Plan), NEW i \in OfOperator(events', "OperatorStarted", p)
          PROVE  /\ 1 < i
                 /\ \A j \in OfOperator(events', "OperatorCompleted", p) : i < j
      BY <1>3, <2>2, PositionsBounded, KnownOperators, OperatorAssumption
    <3>3. ASSUME NEW p \in Known(Plan), NEW d \in Inputs(Plan, p),
                 NEW i \in OfOperator(events', "OperatorCompleted", d),
                 NEW j \in OfOperator(events', "OperatorStarted", p)
          PROVE  i < j
      <4>1. d \in Known(Plan)
        BY InputsAreKnown
      <4> QED BY <1>3, <2>2, <4>1, PositionsBounded, KnownOperators, OperatorAssumption
    <3>4. Before("OperatorCompleted", "ResultMaterialized")'
      BY <1>3, <2>2, PositionsBounded DEF Before
    <3>5. Before("ResultMaterialized", "LineageRecorded")'
      BY <1>3, <2>2, PositionsBounded DEF Before
    <3>6. Before("ResultMaterialized", "CertificateEmitted")'
      BY <1>3, <2>2, PositionsBounded DEF Before
    <3>7. Before("LineageRecorded", "CertificateEmitted")'
      BY <1>3, <2>2, PositionsBounded DEF Before
    <3> QED BY <2>2, <3>1, <3>2, <3>3, <3>4, <3>5, <3>6, <3>7
  <2> QED BY <2>2, <2>3, <2>4 DEF LogInvariant
<1>4. ASSUME NEW o \in Known(Plan), CompleteOperator(o) PROVE Goal
  <2>1. /\ Record("OperatorCompleted", o) /\ "OperatorCompleted" \in EventTypes
        /\ o \in OperatorId \cup {NoOperator}
    BY <1>4, KnownOperators DEF CompleteOperator, EventTypes
  <2>2. /\ events' \in Seq(EventRecord)
        /\ \A i \in DOMAIN events' : events'[i].sequence = i - 1
        /\ \A t, i : i \in OfType(events', t) <=>
             i \in OfType(events, t) \/ (i = n /\ "OperatorCompleted" = t)
        /\ \A t, p, i : i \in OfOperator(events', t, p) <=>
             i \in OfOperator(events, t, p) \/ (i = n /\ "OperatorCompleted" = t /\ o = p)
    BY <1>0, <2>1, RecordKeepsNumbers
  <2>3. LogComplete'
    BY <1>4, <2>2, KnownOperators, OperatorAssumption
    DEF CompleteOperator, Complete, LogInvariant, LogComplete, HasEvent, Finished,
        RecordedTypeOK, ExecTypeOK, Stages, DependenciesRespected
  <2> USE DEF CompleteOperator, Complete, LogInvariant, LogComplete, LogOrdered, HasEvent, Finished,
            RecordedTypeOK, ExecTypeOK, Stages, DependenciesRespected
  <2>4. LogOrdered'
    <3>1. \A i \in OfType(events', "PlanApproved") : i = 1
      BY <1>4, <2>2, PositionsBounded
    <3>2. ASSUME NEW p \in Known(Plan), NEW i \in OfOperator(events', "OperatorStarted", p)
          PROVE  /\ 1 < i
                 /\ \A j \in OfOperator(events', "OperatorCompleted", p) : i < j
      BY <1>4, <2>2, PositionsBounded, KnownOperators, OperatorAssumption
    <3>3. ASSUME NEW p \in Known(Plan), NEW d \in Inputs(Plan, p),
                 NEW i \in OfOperator(events', "OperatorCompleted", d),
                 NEW j \in OfOperator(events', "OperatorStarted", p)
          PROVE  i < j
      <4>1. d \in Known(Plan)
        BY InputsAreKnown
      <4> QED BY <1>4, <2>2, <4>1, PositionsBounded, KnownOperators, OperatorAssumption
    <3>4. Before("OperatorCompleted", "ResultMaterialized")'
      BY <1>4, <2>2, PositionsBounded DEF Before
    <3>5. Before("ResultMaterialized", "LineageRecorded")'
      BY <1>4, <2>2, PositionsBounded DEF Before
    <3>6. Before("ResultMaterialized", "CertificateEmitted")'
      BY <1>4, <2>2, PositionsBounded DEF Before
    <3>7. Before("LineageRecorded", "CertificateEmitted")'
      BY <1>4, <2>2, PositionsBounded DEF Before
    <3> QED BY <2>2, <3>1, <3>2, <3>3, <3>4, <3>5, <3>6, <3>7
  <2> QED BY <2>2, <2>3, <2>4 DEF LogInvariant
<1>5. CASE MaterializeResult
  <2>1. /\ Record("ResultMaterialized", NoOperator) /\ "ResultMaterialized" \in EventTypes
        /\ NoOperator \in OperatorId \cup {NoOperator}
    BY <1>5, KnownOperators DEF MaterializeResult, EventTypes
  <2>2. /\ events' \in Seq(EventRecord)
        /\ \A i \in DOMAIN events' : events'[i].sequence = i - 1
        /\ \A t, i : i \in OfType(events', t) <=>
             i \in OfType(events, t) \/ (i = n /\ "ResultMaterialized" = t)
        /\ \A t, p, i : i \in OfOperator(events', t, p) <=>
             i \in OfOperator(events, t, p) \/ (i = n /\ "ResultMaterialized" = t /\ NoOperator = p)
    BY <1>0, <2>1, RecordKeepsNumbers
  <2>3. LogComplete'
    BY <1>5, <2>2, KnownOperators, OperatorAssumption
    DEF MaterializeResult, Materialize, LogInvariant, LogComplete, HasEvent, Finished,
        RecordedTypeOK, ExecTypeOK, Stages, DependenciesRespected
  <2> USE DEF MaterializeResult, Materialize, LogInvariant, LogComplete, LogOrdered, HasEvent, Finished,
            RecordedTypeOK, ExecTypeOK, Stages, DependenciesRespected
  <2>4. LogOrdered'
    <3>1. \A i \in OfType(events', "PlanApproved") : i = 1
      BY <1>5, <2>2, PositionsBounded
    <3>2. ASSUME NEW p \in Known(Plan), NEW i \in OfOperator(events', "OperatorStarted", p)
          PROVE  /\ 1 < i
                 /\ \A j \in OfOperator(events', "OperatorCompleted", p) : i < j
      BY <1>5, <2>2, PositionsBounded, KnownOperators, OperatorAssumption
    <3>3. ASSUME NEW p \in Known(Plan), NEW d \in Inputs(Plan, p),
                 NEW i \in OfOperator(events', "OperatorCompleted", d),
                 NEW j \in OfOperator(events', "OperatorStarted", p)
          PROVE  i < j
      <4>1. d \in Known(Plan)
        BY InputsAreKnown
      <4> QED BY <1>5, <2>2, <4>1, PositionsBounded, KnownOperators, OperatorAssumption
    <3>4. Before("OperatorCompleted", "ResultMaterialized")'
      BY <1>5, <2>2, PositionsBounded DEF Before
    <3>5. Before("ResultMaterialized", "LineageRecorded")'
      BY <1>5, <2>2, PositionsBounded DEF Before
    <3>6. Before("ResultMaterialized", "CertificateEmitted")'
      BY <1>5, <2>2, PositionsBounded DEF Before
    <3>7. Before("LineageRecorded", "CertificateEmitted")'
      BY <1>5, <2>2, PositionsBounded DEF Before
    <3> QED BY <2>2, <3>1, <3>2, <3>3, <3>4, <3>5, <3>6, <3>7
  <2> QED BY <2>2, <2>3, <2>4 DEF LogInvariant
<1>6. CASE RecordLineageEvent
  <2>1. /\ Record("LineageRecorded", NoOperator) /\ "LineageRecorded" \in EventTypes
        /\ NoOperator \in OperatorId \cup {NoOperator}
    BY <1>6, KnownOperators DEF RecordLineageEvent, EventTypes
  <2>2. /\ events' \in Seq(EventRecord)
        /\ \A i \in DOMAIN events' : events'[i].sequence = i - 1
        /\ \A t, i : i \in OfType(events', t) <=>
             i \in OfType(events, t) \/ (i = n /\ "LineageRecorded" = t)
        /\ \A t, p, i : i \in OfOperator(events', t, p) <=>
             i \in OfOperator(events, t, p) \/ (i = n /\ "LineageRecorded" = t /\ NoOperator = p)
    BY <1>0, <2>1, RecordKeepsNumbers
  <2>3. LogComplete'
    BY <1>6, <2>2, KnownOperators, OperatorAssumption
    DEF RecordLineageEvent, RecordLineage, LogInvariant, LogComplete, HasEvent, Finished,
        RecordedTypeOK, ExecTypeOK, Stages, DependenciesRespected
  <2> USE DEF RecordLineageEvent, RecordLineage, LogInvariant, LogComplete, LogOrdered, HasEvent, Finished,
            RecordedTypeOK, ExecTypeOK, Stages, DependenciesRespected
  <2>4. LogOrdered'
    <3>1. \A i \in OfType(events', "PlanApproved") : i = 1
      BY <1>6, <2>2, PositionsBounded
    <3>2. ASSUME NEW p \in Known(Plan), NEW i \in OfOperator(events', "OperatorStarted", p)
          PROVE  /\ 1 < i
                 /\ \A j \in OfOperator(events', "OperatorCompleted", p) : i < j
      BY <1>6, <2>2, PositionsBounded, KnownOperators, OperatorAssumption
    <3>3. ASSUME NEW p \in Known(Plan), NEW d \in Inputs(Plan, p),
                 NEW i \in OfOperator(events', "OperatorCompleted", d),
                 NEW j \in OfOperator(events', "OperatorStarted", p)
          PROVE  i < j
      <4>1. d \in Known(Plan)
        BY InputsAreKnown
      <4> QED BY <1>6, <2>2, <4>1, PositionsBounded, KnownOperators, OperatorAssumption
    <3>4. Before("OperatorCompleted", "ResultMaterialized")'
      BY <1>6, <2>2, PositionsBounded DEF Before
    <3>5. Before("ResultMaterialized", "LineageRecorded")'
      BY <1>6, <2>2, PositionsBounded DEF Before
    <3>6. Before("ResultMaterialized", "CertificateEmitted")'
      BY <1>6, <2>2, PositionsBounded DEF Before
    <3>7. Before("LineageRecorded", "CertificateEmitted")'
      BY <1>6, <2>2, PositionsBounded DEF Before
    <3> QED BY <2>2, <3>1, <3>2, <3>3, <3>4, <3>5, <3>6, <3>7
  <2> QED BY <2>2, <2>3, <2>4 DEF LogInvariant
<1>7. CASE EmitCertificate
  <2>1. /\ Record("CertificateEmitted", NoOperator) /\ "CertificateEmitted" \in EventTypes
        /\ NoOperator \in OperatorId \cup {NoOperator}
    BY <1>7, KnownOperators DEF EmitCertificate, EventTypes
  <2>2. /\ events' \in Seq(EventRecord)
        /\ \A i \in DOMAIN events' : events'[i].sequence = i - 1
        /\ \A t, i : i \in OfType(events', t) <=>
             i \in OfType(events, t) \/ (i = n /\ "CertificateEmitted" = t)
        /\ \A t, p, i : i \in OfOperator(events', t, p) <=>
             i \in OfOperator(events, t, p) \/ (i = n /\ "CertificateEmitted" = t /\ NoOperator = p)
    BY <1>0, <2>1, RecordKeepsNumbers
  <2>3. LogComplete'
    BY <1>7, <2>2, KnownOperators, OperatorAssumption
    DEF EmitCertificate, Emit, LogInvariant, LogComplete, HasEvent, Finished,
        RecordedTypeOK, ExecTypeOK, Stages, DependenciesRespected
  <2> USE DEF EmitCertificate, Emit, LogInvariant, LogComplete, LogOrdered, HasEvent, Finished,
            RecordedTypeOK, ExecTypeOK, Stages, DependenciesRespected
  <2>4. LogOrdered'
    <3>1. \A i \in OfType(events', "PlanApproved") : i = 1
      BY <1>7, <2>2, PositionsBounded
    <3>2. ASSUME NEW p \in Known(Plan), NEW i \in OfOperator(events', "OperatorStarted", p)
          PROVE  /\ 1 < i
                 /\ \A j \in OfOperator(events', "OperatorCompleted", p) : i < j
      BY <1>7, <2>2, PositionsBounded, KnownOperators, OperatorAssumption
    <3>3. ASSUME NEW p \in Known(Plan), NEW d \in Inputs(Plan, p),
                 NEW i \in OfOperator(events', "OperatorCompleted", d),
                 NEW j \in OfOperator(events', "OperatorStarted", p)
          PROVE  i < j
      <4>1. d \in Known(Plan)
        BY InputsAreKnown
      <4> QED BY <1>7, <2>2, <4>1, PositionsBounded, KnownOperators, OperatorAssumption
    <3>4. Before("OperatorCompleted", "ResultMaterialized")'
      BY <1>7, <2>2, PositionsBounded DEF Before
    <3>5. Before("ResultMaterialized", "LineageRecorded")'
      BY <1>7, <2>2, PositionsBounded DEF Before
    <3>6. Before("ResultMaterialized", "CertificateEmitted")'
      BY <1>7, <2>2, PositionsBounded DEF Before
    <3>7. Before("LineageRecorded", "CertificateEmitted")'
      BY <1>7, <2>2, PositionsBounded DEF Before
    <3> QED BY <2>2, <3>1, <3>2, <3>3, <3>4, <3>5, <3>6, <3>7
  <2> QED BY <2>2, <2>3, <2>4 DEF LogInvariant
<1>8. CASE UNCHANGED vars
  BY <1>8 DEF vars, execVars, LogInvariant, LogComplete, LogOrdered, RecordedTypeOK,
              Finished, Before, OfType, OfOperator, IsEvent, HasEvent
<1> QED BY <1>1, <1>2, <1>3, <1>4, <1>5, <1>6, <1>7, <1>8 DEF Next
-----------------------------------------------------------------------------
(* The verifier accepts the log of every finished execution.               *)
LEMMA FirstBefore ==
  ASSUME NEW s \in Seq(EventRecord), OrderedSequences(s),
         NEW I \in SUBSET DOMAIN s, I # {}, NEW J \in SUBSET DOMAIN s, J # {},
         \A i \in I, j \in J : i < j
  PROVE  Least(SequencesOf(s, I)) < Least(SequencesOf(s, J))
<1>1. PICK i \in I : Least(SequencesOf(s, I)) = s[i].sequence
  BY FirstPosition
<1>2. PICK j \in J : Least(SequencesOf(s, J)) = s[j].sequence
  BY FirstPosition
<1> QED BY <1>1, <1>2 DEF OrderedSequences

LEMMA EmittedLogAccepted ==
  ASSUME RecordedTypeOK, DependenciesRespected, LogInvariant, stage = "emitted"
  PROVE  HasEvent(events, "ResultMaterialized")
           /\ ValidEventCoverage(Plan, events, recorded)
<1>1. events \in Seq(EventRecord) /\ OrderedSequences(events)
  <2>1. \A i \in DOMAIN events : i \in Nat /\ events[i].sequence = i - 1
    BY EventFields DEF RecordedTypeOK, LogInvariant, LogOrdered
  <2> QED BY <2>1 DEF RecordedTypeOK, OrderedSequences
<1>2. /\ HasEvent(events, "PlanApproved") /\ HasEvent(events, "ResultMaterialized")
      /\ HasEvent(events, "CertificateEmitted")
      /\ recorded <=> HasEvent(events, "LineageRecorded")
  BY DEF LogInvariant, LogComplete, Finished
<1>3. \A t, o : OfType(events, t) \subseteq DOMAIN events
                /\ OfOperator(events, t, o) \subseteq OfType(events, t)
  BY DEF OfType, OfOperator, IsEvent
<1>4. \A o \in Known(Plan) : /\ OfOperator(events, "OperatorStarted", o) # {}
                            /\ OfOperator(events, "OperatorCompleted", o) # {}
  BY DEF LogInvariant, LogComplete, DependenciesRespected, Finished
<1>5. ASSUME NEW o \in Known(Plan) PROVE OperatorCovered(events, o)
  <2>1. FirstFor(events, "OperatorStarted", o) < FirstFor(events, "OperatorCompleted", o)
    BY <1>1, <1>3, <1>4, FirstBefore DEF FirstFor, LogInvariant, LogOrdered
  <2>2. \A i \in OfType(events, "PlanApproved"),
           j \in OfOperator(events, "OperatorStarted", o) : i < j
    BY DEF LogInvariant, LogOrdered
  <2>3. First(events, "PlanApproved") < FirstFor(events, "OperatorStarted", o)
    BY <1>1, <1>2, <1>3, <1>4, <2>2, FirstBefore DEF First, FirstFor, HasEvent
  <2> QED BY <1>4, <2>1, <2>3 DEF OperatorCovered
<1>6. ResultAfterOperators(Plan, events)
  <2>1. ASSUME NEW o \in Known(Plan)
        PROVE  FirstFor(events, "OperatorCompleted", o) < First(events, "ResultMaterialized")
    <3>1. \A i \in OfOperator(events, "OperatorCompleted", o),
             j \in OfType(events, "ResultMaterialized") : i < j
      BY <1>3 DEF LogInvariant, LogOrdered, Before
    <3> QED BY <1>1, <1>2, <1>3, <1>4, <3>1, FirstBefore DEF First, FirstFor, HasEvent
  <2> QED BY <2>1 DEF ResultAfterOperators
<1>7. ASSUME NEW a, NEW b, Before(a, b) PROVE Precedes(events, a, b)
  BY <1>1, <1>3, <1>7, FirstBefore DEF Before, Precedes, First, HasEvent
<1>8. ValidDependencyEvents(Plan, events)
  <2>1. DuplicateFree(Plan)
    BY PlanAssumption DEF ValidPhysicalPlanDag
  <2>2. ASSUME NEW o \in Known(Plan), NEW d \in Inputs(Plan, o)
        PROVE  EventIndex(events, "OperatorCompleted", d)
                 < EventIndex(events, "OperatorStarted", o)
    <3>1. d \in Known(Plan)
      BY InputsAreKnown
    <3>2. \A i \in OfOperator(events, "OperatorCompleted", d),
             j \in OfOperator(events, "OperatorStarted", o) : i < j
      BY DEF LogInvariant, LogOrdered
    <3>3. FirstFor(events, "OperatorCompleted", d) < FirstFor(events, "OperatorStarted", o)
      BY <1>1, <1>3, <1>4, <3>1, <3>2, FirstBefore DEF FirstFor
    <3> QED BY <1>1, <1>4, <3>1, <3>3, IndexIsFirst
  <2> QED BY <2>1, <2>2 DEF ValidDependencyEvents
<1> QED
  BY <1>1, <1>2, <1>5, <1>6, <1>7, <1>8, PlanAssumption
  DEF ValidEventCoverage, LogInvariant, LogOrdered
-----------------------------------------------------------------------------
(* The recorder's disturbances keep a log a log.                           *)
AuditTyped ==
  /\ RecordedTypeOK
  /\ log \in Seq(EventRecord)
  /\ faults \in 0 .. MaxFaults
  /\ verdict \in {"none", "PARTIAL", "REJECT"}
  /\ cursor \in 0 .. Len(log)

LEMMA RenumberedType ==
  ASSUME NEW s \in Seq(EventRecord)
  PROVE  Renumbered(s) \in Seq(EventRecord)
<1>1. \A i \in DOMAIN s : i \in Nat /\ 1 <= i /\ s[i] \in EventRecord
  BY SeqElement
<1>2. ASSUME NEW i \in DOMAIN s PROVE [s[i] EXCEPT !.sequence = i - 1] \in EventRecord
  <2>1. i - 1 \in Nat /\ s[i] \in EventRecord
    BY <1>1
  <2> QED BY <2>1 DEF EventRecord
<1>3. DOMAIN s = 1 .. Len(s) /\ Len(s) \in Nat
  OBVIOUS
<1> QED BY <1>2, <1>3 DEF Renumbered

LEMMA DisturbanceTyped ==
  ASSUME AuditTyped, Lose \/ Repeat \/ Exchange
  PROVE  log' \in Seq(EventRecord)
<1>1. log \in Seq(EventRecord) /\ Len(log) \in Nat /\ DOMAIN log = 1 .. Len(log)
  BY DEF AuditTyped
<1>2. ASSUME NEW s \in Seq(EventRecord), Disturb(s)
      PROVE  log' \in Seq(EventRecord)
  BY <1>2, RenumberedType DEF Disturb
<1>3. CASE Lose
  <2>1. PICK i \in DOMAIN log : Disturb(Without(log, i))
    BY <1>3 DEF Lose
  <2>2. SubSeq(log, 1, i - 1) \in Seq(EventRecord) /\ SubSeq(log, i + 1, Len(log)) \in Seq(EventRecord)
    BY <1>1
  <2> QED BY <1>2, <2>1, <2>2, ConcatProperties DEF Without
<1>4. CASE Repeat
  <2>1. PICK i \in DOMAIN log, j \in 0 .. Len(log) :
          Disturb(SubSeq(log, 1, j) \o <<log[i]>> \o SubSeq(log, j + 1, Len(log)))
    BY <1>4 DEF Repeat
  <2>2. /\ SubSeq(log, 1, j) \in Seq(EventRecord) /\ <<log[i]>> \in Seq(EventRecord)
        /\ SubSeq(log, j + 1, Len(log)) \in Seq(EventRecord)
    BY <1>1
  <2> QED BY <1>2, <2>1, <2>2, ConcatProperties
<1>5. CASE Exchange
  <2>1. PICK i \in DOMAIN log, j \in DOMAIN log :
          Disturb([log EXCEPT ![i] = log[j], ![j] = log[i]])
    BY <1>5 DEF Exchange
  <2>2. [log EXCEPT ![i] = log[j], ![j] = log[i]] \in Seq(EventRecord)
    BY <1>1
  <2> QED BY <1>2, <2>1, <2>2
<1> QED BY <1>3, <1>4, <1>5

LEMMA RecordedStep ==
  ASSUME RecordedTypeOK, DependenciesRespected, LogInvariant, [Next]_vars
  PROVE  RecordedTypeOK' /\ DependenciesRespected' /\ LogInvariant'
<1>1. [ExecNext]_execVars
  BY DEF Next, ExecNext, vars, ApprovePlan, RecordDecision, StartOperator,
         CompleteOperator, MaterializeResult, RecordLineageEvent, EmitCertificate
<1> QED BY <1>1, ExecutionStep, RecordingStep DEF RecordedTypeOK

LEMMA EmittedIsFinal ==
  ASSUME RecordedTypeOK, stage = "emitted"
  PROVE  ~Next
BY DEF Next, ApprovePlan, Approve, RecordDecision, StartOperator, Start, CompleteOperator,
       Complete, MaterializeResult, Materialize, RecordLineageEvent, RecordLineage,
       EmitCertificate, Emit

LEMMA AuditStep ==
  ASSUME AuditTyped, AuditInvariant, [AuditNext]_auditVars
  PROVE  AuditTyped' /\ AuditInvariant'
<1> USE DEF AuditTyped, AuditInvariant
<1>1. CASE Execute
  <2>1. stage # "emitted" /\ verdict = "none" /\ faults = 0 /\ cursor = 0
    BY <1>1, EmittedIsFinal DEF Execute
  <2>2. RecordedTypeOK' /\ DependenciesRespected' /\ LogInvariant'
    BY <1>1, RecordedStep DEF Execute
  <2>3. log' = events' /\ UNCHANGED <<faults, verdict, cursor>>
    BY <1>1 DEF Execute
  <2>4. log' \in Seq(EventRecord) /\ Len(log') \in Nat
    BY <2>2, <2>3 DEF RecordedTypeOK
  <2> QED BY <2>1, <2>2, <2>3, <2>4
<1>2. CASE Lose \/ Repeat \/ Exchange
  <2>1. log' \in Seq(EventRecord)
    BY <1>2, DisturbanceTyped
  <2>2. /\ stage = "emitted" /\ verdict = "none" /\ faults' = faults + 1 /\ faults < MaxFaults
        /\ UNCHANGED <<vars, verdict, cursor>>
    BY <1>2 DEF Lose, Repeat, Exchange, Disturb
  <2>3. RecordedTypeOK' /\ DependenciesRespected' /\ LogInvariant'
    BY <2>2, RecordedStep
  <2>4. stage' = "emitted" /\ verdict' = "none" /\ cursor' = 0 /\ faults' > 0
        /\ faults' \in 0 .. MaxFaults
    BY <2>2, MaxFaultsAssumption DEF vars, execVars
  <2>5. Len(log') \in Nat
    BY <2>1
  <2> QED BY <2>1, <2>3, <2>4, <2>5
<1>3. CASE Verify
  <2>1. RecordedTypeOK' /\ DependenciesRespected' /\ LogInvariant'
    BY <1>3, RecordedStep DEF Verify
  <2>2. /\ stage = "emitted" /\ UNCHANGED <<stage, recorded, events, log, faults, cursor>>
        /\ cursor = 0
        /\ verdict' = IF AcceptedEvents THEN "PARTIAL" ELSE "REJECT"
    BY <1>3 DEF Verify, vars, execVars
  <2>3. AcceptedEvents' <=> AcceptedEvents
    BY <2>2 DEF AcceptedEvents
  <2>4. faults = 0 => AcceptedEvents
    BY <2>2, EmittedLogAccepted DEF AcceptedEvents
  <2>5. CASE AcceptedEvents
    BY <2>1, <2>2, <2>3, <2>5
  <2>6. CASE ~AcceptedEvents
    BY <2>1, <2>2, <2>3, <2>4, <2>6
  <2> QED BY <2>5, <2>6
<1>4. CASE Replay
  <2>1. RecordedTypeOK' /\ DependenciesRespected' /\ LogInvariant'
    BY <1>4, RecordedStep DEF Replay
  <2>2. /\ UNCHANGED <<stage, recorded, events, log, faults, verdict>>
        /\ verdict = "PARTIAL" /\ cursor < Len(log) /\ cursor' = cursor + 1
    BY <1>4 DEF Replay, vars, execVars
  <2>3. AcceptedEvents' <=> AcceptedEvents
    BY <2>2 DEF AcceptedEvents
  <2> QED BY <2>1, <2>2, <2>3
<1>5. CASE UNCHANGED auditVars
  <2>1. RecordedTypeOK' /\ DependenciesRespected' /\ LogInvariant'
    BY <1>5, RecordedStep DEF auditVars
  <2>2. UNCHANGED <<stage, recorded, events, log, faults, verdict, cursor>>
    BY <1>5 DEF auditVars, vars, execVars
  <2>3. AcceptedEvents' <=> AcceptedEvents
    BY <2>2 DEF AcceptedEvents
  <2> QED BY <2>1, <2>2, <2>3
<1> QED BY <1>1, <1>2, <1>3, <1>4, <1>5 DEF AuditNext

LEMMA AuditInitially == AuditInit => AuditTyped /\ AuditInvariant
<1> SUFFICES ASSUME AuditInit PROVE AuditTyped /\ AuditInvariant
  OBVIOUS
<1>1. /\ events = << >> /\ log = << >> /\ << >> \in Seq(EventRecord)
      /\ Len(<< >>) = 0 /\ DOMAIN events = {}
      /\ faults = 0 /\ verdict = "none" /\ cursor = 0
  BY DEF AuditInit, Init
<1>2. ExecTypeOK /\ DependenciesRespected /\ stage = "pending" /\ recorded = FALSE
        /\ started = {} /\ completed = {}
  BY DEF AuditInit, Init, ExecInit, ExecTypeOK, Stages, DependenciesRespected, Finished
<1>3. \A t, o : OfType(events, t) = {} /\ OfOperator(events, t, o) = {}
  BY <1>1 DEF OfType, OfOperator
<1>4. LogInvariant
  BY <1>1, <1>2, <1>3
  DEF LogInvariant, LogComplete, LogOrdered, HasEvent, Before, Finished
<1>5. 0 \in 0 .. MaxFaults
  BY MaxFaultsAssumption
<1> QED BY <1>1, <1>2, <1>4, <1>5 DEF AuditTyped, RecordedTypeOK, AuditInvariant

(* Every interleaving the dependencies allow is accepted if nothing        *)
(* disturbs the log: a rejected log is a disturbed one.                    *)
THEOREM ConcurrencyAccepted == AuditSpec => []ParallelismAccepted
<1>1. AuditInvariant => ParallelismAccepted
  BY DEF AuditInvariant, ParallelismAccepted
<1> QED BY <1>1, AuditInitially, AuditStep, PTL DEF AuditSpec

(* The order of an accepted log holds along every path of the plan,        *)
(* whatever disturbed it.                                                  *)
THEOREM VerifierSafety == AuditSpec => []AcceptedOrder
<1>1. AuditTyped /\ AuditInvariant => AcceptedOrder
  <2> SUFFICES ASSUME AuditTyped, AuditInvariant, verdict = "PARTIAL",
                      NEW o \in Known(Plan), NEW a \in Ancestors(Plan, o)
               PROVE  FirstFor(log, "OperatorCompleted", a) < FirstFor(log, "OperatorStarted", o)
    BY DEF AcceptedOrder, AncestorsOf
  <2>1. log \in Seq(EventRecord) /\ recorded \in BOOLEAN
    BY DEF AuditTyped, RecordedTypeOK, ExecTypeOK
  <2>2. ValidEventCoverage(Plan, log, recorded)
    BY DEF AuditInvariant, AcceptedEvents
  <2> QED BY <2>1, <2>2, CoverageOrdersAncestors
<1> QED BY <1>1, AuditInitially, AuditStep, PTL DEF AuditSpec
-----------------------------------------------------------------------------
(* Replaying an accepted log.  If the first a precedes the first b, some a *)
(* is before every b: what a step needs is replayed before the step.       *)
LEMMA EarlierPosition ==
  ASSUME NEW s \in Seq(EventRecord), OrderedSequences(s),
         NEW I \in SUBSET DOMAIN s, I # {}, NEW J \in SUBSET DOMAIN s, NEW j \in J,
         Least(SequencesOf(s, I)) < Least(SequencesOf(s, J))
  PROVE  \E i \in I : i < j
<1>1. PICK i \in I : Least(SequencesOf(s, I)) = s[i].sequence
  BY FirstPosition
<1>2. PICK k \in J : k <= j /\ Least(SequencesOf(s, J)) = s[k].sequence
  BY FirstPosition
<1>3. /\ i \in Nat /\ k \in Nat /\ j \in Nat
      /\ s[i].sequence \in Nat /\ s[k].sequence \in Nat
  BY EventFields
<1>4. i < k
  BY <1>1, <1>2, <1>3 DEF OrderedSequences
<1> QED BY <1>2, <1>3, <1>4

LEMMA AcceptedPositions ==
  ASSUME NEW s \in Seq(EventRecord), NEW evidence \in BOOLEAN,
         HasEvent(s, "ResultMaterialized"), ValidEventCoverage(Plan, s, evidence)
  PROVE  /\ \A o \in Known(Plan) :
              /\ \A j \in OfOperator(s, "OperatorStarted", o) :
                   /\ \E i \in OfType(s, "PlanApproved") : i < j
                   /\ \A d \in Inputs(Plan, o) :
                        \E i \in OfOperator(s, "OperatorCompleted", d) : i < j
              /\ \A j \in OfOperator(s, "OperatorCompleted", o) :
                   \E i \in OfOperator(s, "OperatorStarted", o) : i < j
              /\ \A j \in OfType(s, "ResultMaterialized") :
                   \E i \in OfOperator(s, "OperatorCompleted", o) : i < j
         /\ \A t \in {"LineageRecorded", "CertificateEmitted"} :
              \A j \in OfType(s, t) : \E i \in OfType(s, "ResultMaterialized") : i < j
         /\ HasEvent(s, "LineageRecorded") =>
              \A j \in OfType(s, "CertificateEmitted") :
                \E i \in OfType(s, "LineageRecorded") : i < j
<1>1. OrderedSequences(s)
  BY DEF ValidEventCoverage
<1>2. \A t, o : OfType(s, t) \subseteq DOMAIN s /\ OfOperator(s, t, o) \subseteq DOMAIN s
  BY DEF OfType, OfOperator
<1>3. ASSUME NEW o \in Known(Plan)
      PROVE  /\ OperatorCovered(s, o)
             /\ OfOperator(s, "OperatorStarted", o) # {}
             /\ OfOperator(s, "OperatorCompleted", o) # {}
  BY DEF ValidEventCoverage, OperatorCovered
<1>4. ASSUME NEW o \in Known(Plan), NEW j \in OfOperator(s, "OperatorStarted", o)
      PROVE  \E i \in OfType(s, "PlanApproved") : i < j
  BY <1>1, <1>2, <1>3, EarlierPosition
  DEF OperatorCovered, ValidEventCoverage, HasEvent, First, FirstFor
<1>5. ASSUME NEW o \in Known(Plan), NEW j \in OfOperator(s, "OperatorStarted", o),
             NEW d \in Inputs(Plan, o)
      PROVE  \E i \in OfOperator(s, "OperatorCompleted", d) : i < j
  <2>1. d \in Known(Plan)
    BY InputsAreKnown
  <2>2. EventIndex(s, "OperatorCompleted", d) < EventIndex(s, "OperatorStarted", o)
    BY <1>3, <2>1 DEF ValidEventCoverage, ValidDependencyEvents, Occurs, OfOperator
  <2>3. FirstFor(s, "OperatorCompleted", d) < FirstFor(s, "OperatorStarted", o)
    BY <1>1, <1>3, <2>1, <2>2, IndexIsFirst
  <2> QED BY <1>1, <1>2, <1>3, <2>1, <2>3, EarlierPosition DEF FirstFor
<1>6. ASSUME NEW o \in Known(Plan), NEW j \in OfOperator(s, "OperatorCompleted", o)
      PROVE  \E i \in OfOperator(s, "OperatorStarted", o) : i < j
  BY <1>1, <1>2, <1>3, EarlierPosition DEF OperatorCovered, FirstFor
<1>7. ASSUME NEW o \in Known(Plan), NEW j \in OfType(s, "ResultMaterialized")
      PROVE  \E i \in OfOperator(s, "OperatorCompleted", o) : i < j
  <2>1. FirstFor(s, "OperatorCompleted", o) < First(s, "ResultMaterialized")
    BY <1>3 DEF ValidEventCoverage, ResultAfterOperators
  <2> QED BY <1>1, <1>2, <1>3, <2>1, EarlierPosition DEF First, FirstFor
<1>8. ASSUME NEW a, NEW b, Precedes(s, a, b), HasEvent(s, a), NEW j \in OfType(s, b)
      PROVE  \E i \in OfType(s, a) : i < j
  BY <1>1, <1>2, <1>8, EarlierPosition DEF Precedes, HasEvent, First
<1> QED BY <1>4, <1>5, <1>6, <1>7, <1>8 DEF ValidEventCoverage

LEMMA AbstractPlan ==
  /\ Abstract!Known(Plan) = Known(Plan)
  /\ \A o : Abstract!Inputs(Plan, o) = Inputs(Plan, o)
BY DEF Abstract!Known, Abstract!Inputs, Abstract!LastIndex, Abstract!Indices,
       Known, Inputs, LastIndex, Indices

LEMMA ReplayRecordedType == replayRecorded \in BOOLEAN /\ replayRecorded' \in BOOLEAN
BY DEF replayRecorded, ReplayedType

(* A replay step is a step of the execution or leaves it unchanged.        *)
LEMMA ReplayStep ==
  ASSUME AuditTyped, AuditInvariant, Replay
  PROVE  [Abstract!ExecNext]_(Abstract!execVars)
<1> DEFINE n == cursor + 1
           e == log[n]
<1>1. /\ log \in Seq(EventRecord) /\ recorded \in BOOLEAN /\ cursor \in Nat
      /\ cursor' = n /\ log' = log /\ n \in DOMAIN log
  BY DEF AuditTyped, RecordedTypeOK, ExecTypeOK, Replay
<1>2. HasEvent(log, "ResultMaterialized") /\ ValidEventCoverage(Plan, log, recorded)
  BY DEF AuditInvariant, AcceptedEvents, Replay
<1>3. \A t, o : Replayed(t, o)' <=> Replayed(t, o) \/ (e.event_type = t /\ e.operator_id = o)
  BY <1>1 DEF Replayed, IsEvent
<1>4. \A t : ReplayedType(t)' <=> ReplayedType(t) \/ e.event_type = t
  BY <1>1 DEF ReplayedType
<1>5. \A t, i : i \in OfType(log, t) /\ i <= cursor => ReplayedType(t)
  BY <1>1, EventFields DEF OfType, ReplayedType
<1>6. \A t, o, i : i \in OfOperator(log, t, o) /\ i <= cursor => Replayed(t, o)
  BY <1>1, EventFields DEF OfOperator, Replayed
<1>7. \A t, i : i \in OfType(log, t) /\ i < n => ReplayedType(t)
  BY <1>1, <1>5, EventFields DEF OfType
<1>8. \A t, o, i : i \in OfOperator(log, t, o) /\ i < n => Replayed(t, o)
  BY <1>1, <1>6, EventFields DEF OfOperator
<1>9. /\ \A t : ReplayedType(t)' => \E j \in OfType(log, t) : j <= n
      /\ \A t, o : Replayed(t, o)' => \E j \in OfOperator(log, t, o) : j <= n
  BY <1>1, EventFields DEF ReplayedType, Replayed, OfType, OfOperator
<1>10. \A t, o, j, i : /\ j \in OfType(log, t) \/ j \in OfOperator(log, t, o)
                       /\ j <= n /\ i < j /\ i \in DOMAIN log
                       => i < n
  BY <1>1, EventFields DEF OfType, OfOperator
<1>11. \A t, o : OfType(log, t) \subseteq DOMAIN log /\ OfOperator(log, t, o) \subseteq DOMAIN log
  BY DEF OfType, OfOperator
\* What a step needs has been replayed before it.
<1>12. ASSUME NEW o \in Known(Plan), Replayed("OperatorStarted", o)'
       PROVE  /\ ReplayedType("PlanApproved")
              /\ \A d \in Inputs(Plan, o) : Replayed("OperatorCompleted", d)
  <2>1. PICK j \in OfOperator(log, "OperatorStarted", o) : j <= n
    BY <1>9, <1>12
  <2>2. PICK i \in OfType(log, "PlanApproved") : i < j
    BY <1>1, <1>2, AcceptedPositions
  <2>3. ASSUME NEW d \in Inputs(Plan, o) PROVE Replayed("OperatorCompleted", d)
    <3>1. PICK k \in OfOperator(log, "OperatorCompleted", d) : k < j
      BY <1>1, <1>2, AcceptedPositions
    <3> QED BY <1>8, <1>10, <1>11, <2>1, <3>1
  <2> QED BY <1>7, <1>10, <1>11, <2>1, <2>2, <2>3
<1>13. ASSUME NEW o \in Known(Plan), Replayed("OperatorCompleted", o)'
       PROVE  Replayed("OperatorStarted", o)
  <2>1. PICK j \in OfOperator(log, "OperatorCompleted", o) : j <= n
    BY <1>9, <1>13
  <2>2. PICK i \in OfOperator(log, "OperatorStarted", o) : i < j
    BY <1>1, <1>2, AcceptedPositions
  <2> QED BY <1>8, <1>10, <1>11, <2>1, <2>2
<1>14. ASSUME ReplayedType("ResultMaterialized")', NEW o \in Known(Plan)
       PROVE  Replayed("OperatorCompleted", o)
  <2>1. PICK j \in OfType(log, "ResultMaterialized") : j <= n
    BY <1>9, <1>14
  <2>2. PICK i \in OfOperator(log, "OperatorCompleted", o) : i < j
    BY <1>1, <1>2, AcceptedPositions
  <2> QED BY <1>8, <1>10, <1>11, <2>1, <2>2
<1>15. ASSUME NEW t \in {"LineageRecorded", "CertificateEmitted"}, ReplayedType(t)'
       PROVE  ReplayedType("ResultMaterialized")
  <2>1. PICK j \in OfType(log, t) : j <= n
    BY <1>9, <1>15
  <2>2. PICK i \in OfType(log, "ResultMaterialized") : i < j
    BY <1>1, <1>2, AcceptedPositions
  <2> QED BY <1>7, <1>10, <1>11, <2>1, <2>2
<1>16. ASSUME ReplayedType("CertificateEmitted")', ReplayedType("LineageRecorded")'
       PROVE  ReplayedType("LineageRecorded")
  <2>1. PICK j \in OfType(log, "CertificateEmitted") : j <= n
    BY <1>9, <1>16
  <2>2. HasEvent(log, "LineageRecorded")
    BY <1>9, <1>16 DEF HasEvent
  <2>3. PICK i \in OfType(log, "LineageRecorded") : i < j
    BY <1>1, <1>2, <2>2, AcceptedPositions
  <2> QED BY <1>7, <1>10, <1>11, <2>1, <2>3
<1>17. \E o : o \in Known(Plan)
  BY PlanAssumption DEF ValidPhysicalPlanDag, OutputKnown
<1>18. \A o \in Known(Plan) : o # NoOperator
  BY KnownOperators, OperatorAssumption
<1>19. e.event_type \in EventTypes
  BY <1>1, EventFields
\* The stage the replay is in, from what has been replayed.
<1>20. ASSUME ReplayedType("PlanApproved"), ~ReplayedType("ResultMaterialized")
       PROVE  replayStage = "approved"
  BY <1>4, <1>15, <1>20 DEF replayStage
<1>21. ASSUME ReplayedType("ResultMaterialized"), ~ReplayedType("CertificateEmitted")
       PROVE  replayStage = "materialized"
  BY <1>21 DEF replayStage
<1>22. ASSUME ~ReplayedType("PlanApproved")
       PROVE  ~ReplayedType("ResultMaterialized") /\ replayStage = "pending"
  <2>1. \A o \in Known(Plan) : ~Replayed("OperatorStarted", o)
    BY <1>3, <1>12, <1>22
  <2>2. ~ReplayedType("ResultMaterialized")
    BY <1>3, <1>4, <1>13, <1>14, <1>17, <2>1
  <2> QED BY <1>4, <1>15, <1>22, <2>2 DEF replayStage
<1>23. \A o \in Known(Plan) :
         Replayed("OperatorStarted", o)' /\ ~Replayed("OperatorCompleted", o)
           => replayStage = "approved"
  BY <1>4, <1>12, <1>14, <1>20
<1> DEFINE Same == /\ replayStage' = replayStage /\ replayStarted' = replayStarted
                   /\ replayCompleted' = replayCompleted
                   /\ replayRecorded' = replayRecorded
<1>24. Same => [Abstract!ExecNext]_(Abstract!execVars)
  BY DEF Abstract!execVars
<1>25. ASSUME e.event_type \notin {"OperatorStarted", "OperatorCompleted"}
       PROVE  replayStarted' = replayStarted /\ replayCompleted' = replayCompleted
  BY <1>3, <1>25 DEF replayStarted, replayCompleted
<1>26. ASSUME e.event_type \notin {"PlanApproved", "ResultMaterialized", "CertificateEmitted"}
       PROVE  replayStage' = replayStage
  BY <1>4, <1>26 DEF replayStage
<1>27. ASSUME e.event_type # "LineageRecorded"
       PROVE  replayRecorded' = replayRecorded
  <2>1. replayRecorded' <=> replayRecorded
    BY <1>4, <1>27 DEF replayRecorded
  <2> QED BY <2>1, ReplayRecordedType
<1>28. CASE ReplayedType(e.event_type)
              /\ e.event_type \notin {"OperatorStarted", "OperatorCompleted"}
  <2>1. replayStage' = replayStage /\ (replayRecorded' <=> replayRecorded)
    BY <1>4, <1>28 DEF replayStage, replayRecorded
  <2> QED BY <1>24, <1>25, <1>28, <2>1, ReplayRecordedType
<1>29. CASE e.event_type = "PlanApproved" /\ ~ReplayedType("PlanApproved")
  <2>1. replayStage = "pending" /\ replayStage' = "approved"
    BY <1>4, <1>15, <1>22, <1>29 DEF replayStage
  <2>2. Abstract!Approve
    BY <1>25, <1>27, <1>29, <2>1 DEF Abstract!Approve
  <2> QED BY <2>2 DEF Abstract!ExecNext
<1>30. CASE e.event_type = "PolicyDecisionRecorded"
  BY <1>24, <1>25, <1>26, <1>27, <1>30
<1>31. CASE e.event_type = "ResultMaterialized" /\ ~ReplayedType("ResultMaterialized")
  <2>1. \A o \in Known(Plan) : Replayed("OperatorCompleted", o)
    BY <1>4, <1>14, <1>31
  <2>2. ReplayedType("PlanApproved")
    BY <1>22, <2>1, <1>3, <1>12, <1>13, <1>17
  <2>3. replayStage = "approved" /\ replayStage' = "materialized"
    BY <1>4, <1>15, <1>20, <1>31, <2>2 DEF replayStage
  <2>4. replayCompleted = Known(Plan)
    BY <2>1 DEF replayCompleted
  <2>5. Abstract!Materialize
    BY <1>25, <1>27, <1>31, <2>3, <2>4, AbstractPlan DEF Abstract!Materialize
  <2> QED BY <2>5 DEF Abstract!ExecNext
<1>32. CASE e.event_type = "LineageRecorded" /\ ~ReplayedType("LineageRecorded")
  <2>1. ReplayedType("ResultMaterialized") /\ ~ReplayedType("CertificateEmitted")
    BY <1>4, <1>15, <1>16, <1>32
  <2>2. replayStage = "materialized" /\ ~replayRecorded /\ replayRecorded' = TRUE
    BY <1>4, <1>21, <1>32, <2>1 DEF replayRecorded
  <2>3. Abstract!RecordLineage
    BY <1>25, <1>26, <1>32, <2>2 DEF Abstract!RecordLineage
  <2> QED BY <2>3 DEF Abstract!ExecNext
<1>33. CASE e.event_type = "CertificateEmitted" /\ ~ReplayedType("CertificateEmitted")
  <2>1. ReplayedType("ResultMaterialized")
    BY <1>4, <1>15, <1>33
  <2>2. replayStage = "materialized" /\ replayStage' = "emitted"
    BY <1>4, <1>21, <1>33, <2>1 DEF replayStage
  <2>3. Abstract!Emit
    BY <1>25, <1>27, <1>33, <2>2 DEF Abstract!Emit
  <2> QED BY <2>3 DEF Abstract!ExecNext
<1>34. CASE e.event_type = "OperatorStarted"
  <2>1. replayStage' = replayStage /\ replayRecorded' = replayRecorded
          /\ replayCompleted' = replayCompleted
    BY <1>3, <1>26, <1>27, <1>34 DEF replayCompleted
  <2>2. CASE \E o \in Known(Plan) : e.operator_id = o /\ ~Replayed("OperatorStarted", o)
    <3>1. PICK o \in Known(Plan) : e.operator_id = o /\ ~Replayed("OperatorStarted", o)
      BY <2>2
    <3>2. replayStarted' = replayStarted \cup {o} /\ o \notin replayStarted
      BY <1>3, <1>34, <3>1 DEF replayStarted
    <3>3. Replayed("OperatorStarted", o)' /\ ~Replayed("OperatorCompleted", o)
      BY <1>3, <1>13, <1>34, <3>1
    <3>4. replayStage = "approved" /\ Inputs(Plan, o) \subseteq replayCompleted
      BY <1>12, <1>23, <3>3, InputsAreKnown DEF replayCompleted
    <3>5. Abstract!Start(o)
      BY <2>1, <3>2, <3>4, AbstractPlan DEF Abstract!Start
    <3> QED BY <3>5, AbstractPlan DEF Abstract!ExecNext
  <2>3. CASE ~\E o \in Known(Plan) : e.operator_id = o /\ ~Replayed("OperatorStarted", o)
    <3>1. replayStarted' = replayStarted
      BY <1>3, <2>3 DEF replayStarted
    <3> QED BY <1>24, <2>1, <3>1
  <2> QED BY <2>2, <2>3
<1>35. CASE e.event_type = "OperatorCompleted"
  <2>1. replayStage' = replayStage /\ replayRecorded' = replayRecorded
          /\ replayStarted' = replayStarted
    BY <1>3, <1>26, <1>27, <1>35 DEF replayStarted
  <2>2. CASE \E o \in Known(Plan) : e.operator_id = o /\ ~Replayed("OperatorCompleted", o)
    <3>1. PICK o \in Known(Plan) : e.operator_id = o /\ ~Replayed("OperatorCompleted", o)
      BY <2>2
    <3>2. replayCompleted' = replayCompleted \cup {o}
      BY <1>3, <1>35, <3>1 DEF replayCompleted
    <3>3. Replayed("OperatorStarted", o) /\ Replayed("OperatorStarted", o)'
      BY <1>3, <1>13, <1>35, <3>1
    <3>4. replayStage = "approved" /\ o \in replayStarted \ replayCompleted
      BY <1>23, <3>1, <3>3 DEF replayStarted, replayCompleted
    <3>5. Abstract!Complete(o)
      BY <2>1, <3>2, <3>4 DEF Abstract!Complete
    <3> QED BY <3>5, AbstractPlan DEF Abstract!ExecNext
  <2>3. CASE ~\E o \in Known(Plan) : e.operator_id = o /\ ~Replayed("OperatorCompleted", o)
    <3>1. replayCompleted' = replayCompleted
      BY <1>3, <2>3 DEF replayCompleted
    <3> QED BY <1>24, <2>1, <3>1
  <2> QED BY <2>2, <2>3
<1> QED
  BY <1>19, <1>28, <1>29, <1>30, <1>31, <1>32, <1>33, <1>34, <1>35 DEF EventTypes

(* Whatever disturbed it, an accepted log replays as an execution of the   *)
(* plan in dependency order: acceptance is sound for the abstract          *)
(* specification, and not only for the conditions the verifier lists.      *)
THEOREM ReplayRefinesExecution == AuditSpec => ReplayIsAnExecution
<1>1. AuditInit => Abstract!ExecInit
  BY DEF AuditInit, Abstract!ExecInit, replayStage, replayStarted, replayCompleted,
         replayRecorded, Replayed, ReplayedType
<1>2. AuditTyped /\ AuditInvariant /\ [AuditNext]_auditVars
        => [Abstract!ExecNext]_(Abstract!execVars)
  <2> SUFFICES ASSUME AuditTyped, AuditInvariant, [AuditNext]_auditVars
               PROVE  [Abstract!ExecNext]_(Abstract!execVars)
    OBVIOUS
  <2>1. CASE Replay
    BY <2>1, ReplayStep
  <2>2. CASE ~Replay
    <3>1. \/ cursor = 0 /\ cursor' = 0
          \/ cursor' = cursor /\ log' = log
      BY <2>2, EmittedIsFinal
      DEF AuditNext, AuditInvariant, AuditTyped, Execute, Lose, Repeat, Exchange, Disturb,
          Verify, auditVars, vars, execVars
    <3>2. (\A t, o : Replayed(t, o)' <=> Replayed(t, o))
            /\ (\A t : ReplayedType(t)' <=> ReplayedType(t))
      BY <3>1 DEF Replayed, ReplayedType, IsEvent
    <3>3. UNCHANGED <<replayStage, replayStarted, replayCompleted, replayRecorded>>
      <4>1. replayRecorded' = replayRecorded
        BY <3>2, ReplayRecordedType DEF replayRecorded
      <4> QED BY <3>2, <4>1 DEF replayStage, replayStarted, replayCompleted
    <3> QED BY <3>3 DEF Abstract!execVars
  <2> QED BY <2>1, <2>2
<1> QED
  BY <1>1, <1>2, AuditInitially, AuditStep, PTL
  DEF AuditSpec, ReplayIsAnExecution, Abstract!ExecSpec
=============================================================================
