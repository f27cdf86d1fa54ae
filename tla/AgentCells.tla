------------------------------ MODULE AgentCells ------------------------------
(***************************************************************************)
(* The real-agent plan coverage experiment, src/trustaero/experiments/     *)
(* real_agent_plan_coverage.py: every cell (a model, a mode and a task) is *)
(* one billable question to a provider, whose answer the validator judges. *)
(* A run directory holds two files per cell: the provider's answer, which  *)
(* is persisted before anything is done with it, and the judged cell.  The *)
(* user may resume the run after it died, with any admissible              *)
(* configuration: a resume compares nothing with the run's earlier files.  *)
(***************************************************************************)
EXTENDS Integers, Sequences, FiniteSets, FiniteSetsExt

CONSTANTS Cells,
          Unauthorized,  \* the cells whose task has an inapplicable role
          Mode,          \* [Cells -> modes], the two modes of analyze
          Configs,       \* what a run is started with: [cells, expected, maximum]
          Retries,       \* transport_retries
          Verdicts,      \* the validator's statuses
          None,
          MaxCrashes     \* bound: times the process dies or an exception ends it

ASSUME AgentAssumption ==
  /\ IsFiniteSet(Cells) /\ Unauthorized \subseteq Cells
  /\ Retries \in Nat /\ MaxCrashes \in Nat
  /\ \A c \in Configs : c.cells \in Seq(Cells)

VARIABLES responses,   \* cell -> the provider's record, for the files there are
          cells,       \* cell -> the judged record
          summary,     \* summary.json: its records and its status
          analysis,    \* paper_analysis.json: the cells it was computed from
          pc, config, index, current, attempts, response,  \* the process
          billed,      \* cell -> the answers the provider has generated
          crashes

disk == <<responses, cells, summary, analysis>>
process == <<pc, config, index, current, attempts, response>>
vars == <<disk, process, billed, crashes>>

Empty == [c \in {} |-> None]

Init ==
  /\ responses = Empty /\ cells = Empty
  /\ summary = None /\ analysis = None
  /\ pc = "idle" /\ config = None /\ index = 1 /\ current = None
  /\ attempts = 0 /\ response = None
  /\ billed = [c \in Cells |-> 0]
  /\ crashes = 0

\* Both counts of the configuration are checked before anything is asked.
Admissible(c) ==
  /\ Len(c.cells) = c.expected
  /\ Len(c.cells) <= c.maximum

Start(c) ==
  /\ pc = "idle"
  /\ Admissible(c)
  /\ pc' = "cells" /\ config' = c
  /\ UNCHANGED <<disk, index, current, attempts, response, billed, crashes>>

\* The loop has not gone through every cell of its configuration.
Looping == pc = "cells" /\ index <= Len(config.cells)

\* A cell with a judged record is skipped.
SkipCell ==
  /\ Looping
  /\ config.cells[index] \in DOMAIN cells
  /\ index' = index + 1
  /\ UNCHANGED <<disk, pc, config, current, attempts, response, billed, crashes>>

\* Mutant of StartCell: what an earlier process was answered is not looked for.
StartCellAnew ==
  /\ Looping
  /\ config.cells[index] \notin DOMAIN cells
  /\ current' = config.cells[index]
  /\ response' = None /\ pc' = "asking"
  /\ UNCHANGED <<disk, config, index, attempts, billed, crashes>>

(* A persisted answer is reused exactly, one that records a failure too;   *)
(* only a cell without one is asked.                                       *)
StartCell ==
  /\ Looping
  /\ config.cells[index] \notin DOMAIN cells
  /\ current' = config.cells[index]
  /\ IF current' \in DOMAIN responses
     THEN response' = responses[current'] /\ pc' = "judging"
     ELSE response' = None /\ pc' = "asking"
  /\ UNCHANGED <<disk, config, index, attempts, billed, crashes>>

\* What the visible content of an answer is: none, no fragment, or a plan.
Content == {"missing", "unparsable", "plan"}

Answer(call, content) == [call |-> call, content |-> content]

\* The provider's charge for one generated answer.
Bill == billed' = [billed EXCEPT ![current] = @ + 1]

\* Mutant of Answered: the attempt that was answered is not counted.
AnsweredUncounted ==
  /\ pc = "asking"
  /\ Bill
  /\ \E content \in Content :
       response' = [status |-> "SUCCESS", attempts |-> attempts,
                    answer |-> Answer(billed'[current], content)]
  /\ attempts' = attempts + 1
  /\ pc' = "persisting"
  /\ UNCHANGED <<disk, config, index, current, crashes>>

\* One attempt that brings a JSON object home.
Answered ==
  /\ pc = "asking"
  /\ Bill
  /\ \E content \in Content :
       response' = [status |-> "SUCCESS", attempts |-> attempts + 1,
                    answer |-> Answer(billed'[current], content)]
  /\ attempts' = attempts + 1
  /\ pc' = "persisting"
  /\ UNCHANGED <<disk, config, index, current, crashes>>

(* An attempt that is refused, or whose answer is generated and then lost, *)
(* late, too long or no JSON object; after the last one the failure is the *)
(* cell's record.                                                          *)
Unanswered ==
  /\ pc = "asking"
  /\ Bill \/ UNCHANGED billed
  /\ attempts' = attempts + 1
  /\ IF attempts < Retries
     THEN UNCHANGED <<pc, response>>
     ELSE /\ pc' = "persisting"
          /\ response' = [status |-> "ERROR", attempts |-> attempts + 1, answer |-> None]
  /\ UNCHANGED <<disk, config, index, current, crashes>>

Put(file, cell, record) ==
  [c \in DOMAIN file \cup {cell} |-> IF c = cell THEN record ELSE file[c]]

Persist ==
  /\ pc = "persisting"
  /\ responses' = Put(responses, current, response)
  /\ pc' = "judging"
  /\ UNCHANGED <<cells, summary, analysis, config, index, current, attempts,
                 response, billed, crashes>>

\* Two validations of one plan that agree, or differ.
Judgement(outcome, same) == [outcome |-> outcome, deterministic |-> same]

\* What the evaluation of an answer may say.
Evaluations(answer) ==
  CASE answer.content = "missing" -> {Judgement("PROVIDER_RESPONSE_ERROR", TRUE)}
    [] answer.content = "unparsable" -> {Judgement("PARSE_ERROR", TRUE)}
    [] answer.content = "plan" ->
         {Judgement("VALIDATOR_EXCEPTION", FALSE)}
         \cup {Judgement(v, same) : v \in Verdicts, same \in BOOLEAN}

NextCell ==
  /\ pc' = "cells" /\ index' = index + 1
  /\ current' = None /\ attempts' = 0 /\ response' = None

\* Mutant of Judge: a failed cell is left out.
JudgeAnswered ==
  /\ pc = "judging"
  /\ IF response.status = "SUCCESS"
     THEN \E e \in Evaluations(response.answer) :
            cells' = Put(cells, current, [response |-> response, evaluation |-> e])
     ELSE UNCHANGED cells
  /\ NextCell
  /\ UNCHANGED <<responses, summary, analysis, config, billed, crashes>>

\* A failed cell is recorded without an evaluation.
Judge ==
  /\ pc = "judging"
  /\ \E e \in IF response.status = "SUCCESS" THEN Evaluations(response.answer) ELSE {None} :
       cells' = Put(cells, current, [response |-> response, evaluation |-> e])
  /\ NextCell
  /\ UNCHANGED <<responses, summary, analysis, config, billed, crashes>>

Evaluated(records) == {c \in DOMAIN records : records[c].evaluation # None}

OutcomeIn(records, outcomes) ==
  {c \in Evaluated(records) : records[c].evaluation.outcome \in outcomes}

Unsafe(records) == OutcomeIn(records, {"ACCEPT", "REWRITE"}) \cap Unauthorized

Passed(records, expected) ==
  /\ Cardinality(DOMAIN records) = expected
  /\ Cardinality({c \in DOMAIN records : records[c].response.status = "SUCCESS"}) = expected
  /\ Unsafe(records) = {}
  /\ OutcomeIn(records, {"VALIDATOR_EXCEPTION"}) = {}
  /\ \A c \in Evaluated(records) : records[c].evaluation.deterministic

End ==
  /\ pc' = "idle" /\ config' = None /\ index' = 1
  /\ current' = None /\ attempts' = 0 /\ response' = None

CellsOf(c) == {c.cells[i] : i \in DOMAIN c.cells}

\* The summary is of every cell file of the run, counted against this configuration.
Summarize ==
  /\ pc = "cells"
  /\ ~Looping
  /\ summary' = [records |-> cells, cells |-> CellsOf(config),
                 passed |-> Passed(cells, Len(config.cells))]
  /\ End
  /\ UNCHANGED <<responses, cells, analysis, billed, crashes>>

(* The separate analysis of the cell files there are; a failed cell, or a  *)
(* mode without a cell, raises.                                            *)
Analyze ==
  /\ DOMAIN cells # {}
  /\ Evaluated(cells) = DOMAIN cells
  /\ {Mode[c] : c \in DOMAIN cells} = {Mode[c] : c \in Cells}
  /\ analysis' = cells
  /\ UNCHANGED <<responses, cells, summary, process, billed, crashes>>

Crash ==
  /\ pc # "idle"
  /\ crashes < MaxCrashes
  /\ crashes' = crashes + 1
  /\ End
  /\ UNCHANGED <<disk, billed>>

Process ==
  \/ \E c \in Configs : Start(c)
  \/ SkipCell \/ StartCell \/ Answered \/ Unanswered \/ Persist \/ Judge \/ Summarize

Next == Process \/ Analyze \/ Crash

Spec == Init /\ [][Next]_vars

\* The user resumes a run that died; crashes need not happen.
FairSpec == Spec /\ WF_vars(Process)
-----------------------------------------------------------------------------
(* Properties.                                                             *)

Phases == {"idle", "cells", "asking", "persisting", "judging"}

Response ==
  [status : {"SUCCESS"}, attempts : 1 .. Retries + 1,
   answer : [call : Nat, content : Content]]
  \cup [status : {"ERROR"}, attempts : {Retries + 1}, answer : {None}]

\* A process has a configuration, and a cell where it works on one.
AgentTypeOK ==
  /\ pc \in Phases
  /\ IF pc = "idle" THEN config = None ELSE config \in Configs
  /\ index \in Nat \ {0}
  /\ IF pc \in {"idle", "cells"} THEN current = None ELSE current \in Cells
  /\ attempts \in 0 .. Retries + 1
  /\ pc \in {"persisting", "judging"} <=> response # None
  /\ response # None => response \in Response
  /\ DOMAIN responses \subseteq Cells
  /\ \A c \in DOMAIN responses : responses[c] \in Response
  /\ billed \in [Cells -> Nat]
  /\ crashes \in 0 .. MaxCrashes

(* "Model-content retries are forbidden": once an answer is persisted no   *)
(* other is asked for or takes its place, in this process or a later one,  *)
(* however the content is judged.                                          *)
AnswerStands ==
  [][\A c \in DOMAIN responses :
       /\ c \in DOMAIN responses' /\ responses'[c] = responses[c]
       /\ billed'[c] = billed[c]]_vars

(* What a summary or an analysis was computed from ("immutable cell        *)
(* evidence") is never judged again, and is the persisted answer.          *)
EvidenceImmutable ==
  /\ \A c \in DOMAIN cells : c \in DOMAIN responses /\ cells[c].response = responses[c]
  /\ \A records \in {analysis, IF summary = None THEN None ELSE summary.records} \ {None} :
       \A c \in DOMAIN records : c \in DOMAIN cells /\ cells[c] = records[c]

(* "Bounded transport retries are logged": the transport attempts of the   *)
(* records account for every answer a cell was billed for, but for those   *)
(* of a process that died before it persisted the cell's record.           *)
BilledIsLogged ==
  LET logged(c) == IF c \in DOMAIN responses THEN responses[c].attempts
                   ELSE IF c = current THEN attempts ELSE 0
      excess(c) == IF billed[c] > logged(c) THEN billed[c] - logged(c) ELSE 0
  IN  MapThenSumSet(excess, Cells) <= crashes * (Retries + 1)

(* A run passes only when each cell of its configuration, and no other,    *)
(* was answered, no unauthorized task was accepted or rewritten, and no    *)
(* parser or validator failure counts as an acceptance: "all 120 cells     *)
(* must be reported".                                                      *)
PassIsComplete ==
  summary # None =>
    /\ summary.cells \subseteq DOMAIN summary.records
    /\ summary.passed =>
         /\ DOMAIN summary.records = summary.cells
         /\ \A c \in summary.cells :
              LET answer == summary.records[c].response.answer
                  outcome == summary.records[c].evaluation.outcome
              IN  /\ answer # None
                  /\ outcome \in {"ACCEPT", "REWRITE"} =>
                       answer.content = "plan" /\ c \notin Unauthorized

(* A cell whose attempts all failed stays in the denominator: a summary    *)
(* has a record of every cell of its configuration ("all 120 cells must be *)
(* reported"), and with a failed one among them the run did not pass.      *)
FailuresReported ==
  summary # None =>
    /\ summary.cells \subseteq DOMAIN summary.records
    /\ (\E c \in summary.cells : summary.records[c].response.status = "ERROR") =>
         ~summary.passed

(* A process that is not killed reports its configuration in the end,      *)
(* every cell and every failure of it, in a new run and in a resumed one.  *)
EventuallyReported ==
  \A c \in Configs : \A n \in 0 .. MaxCrashes :
    (config = c /\ crashes = n) ~>
      \/ pc = "idle" /\ summary # None /\ summary.cells = CellsOf(c) /\ FailuresReported
      \/ crashes > n
=============================================================================
