--------------------------- MODULE CheckpointedRun ---------------------------
(***************************************************************************)
(* One run directory of a resumable experiment of src/trustaero/           *)
(* experiments.  The experiments differ in the files they write and check; *)
(* runner holds those differences (module ExperimentRunners) and this      *)
(* module their common course: create or resume the run, measure the units *)
(* that are missing, write each result when it is complete, and summarise. *)
(* Every file is written by os.replace; the process may die between any    *)
(* two writes and the user may resume with another configuration or at     *)
(* another commit.                                                         *)
(*                                                                         *)
(* A runner has                                                            *)
(*   opening     the files written for a new run, in order                 *)
(*   reopening   the files written again when it is resumed                *)
(*   needed      the files a resume reads                                  *)
(*   compared    the files whose content must match the resuming process   *)
(*   sequences   what a process compares a loaded configuration with: its  *)
(*               own as "lists" (sent through JSON) or as its "tuples"     *)
(*   summarising the files the summary is computed from, beside the units  *)
(*   completion  "checkpoint" (a list) or "units" (the results themselves) *)
(*   units       the number of units                                       *)
(*   protocol    how a unit is measured: the orders of its blocks, whether *)
(*               each unit is one block of them, and what a block's        *)
(*               digests are compared with                                 *)
(***************************************************************************)
EXTENDS Integers, Sequences, FiniteSets

CONSTANTS Runners,
          Tree,        \* [config, commit]: what a process is started with
          None,
          Drifts,      \* sets of candidates whose result changes in a block
          MaxDrifts,   \* bound: executions with a changed result
          MaxCrashes   \* bound: times the process dies

File == {"config", "environment", "checkpoint", "latest"}

(* What the proofs use of the runners: the configuration and the           *)
(* environment are the first files of a run; it is named when all that a   *)
(* resume reads is there; a resume writes only those two first files       *)
(* again, and compares the configuration with a file it needs or writes it *)
(* first.                                                                  *)
ASSUME RunnerAssumption ==
  \A r \in Runners :
    /\ r.units \in Nat \ {0}
    /\ r.opening \in Seq(File) /\ Len(r.opening) >= 2
    /\ r.opening[1] = "config" /\ r.opening[2] = "environment"
    /\ \A n \in DOMAIN r.opening : r.opening[n] = "latest" =>
         r.needed \subseteq {r.opening[m] : m \in 1 .. n - 1}
    /\ r.reopening \in Seq({"config", "environment"})
    /\ r.completion \in {"checkpoint", "units"}
    /\ r.sequences \in {"lists", "tuples"}
    /\ r.compared \subseteq {"config", "environment", "checkpoint"}
    /\ r.compared \cap {"environment", "checkpoint"} \subseteq r.needed
    /\ \/ {"config", "checkpoint"} \cap r.needed \cap r.compared # {}
       \/ "config" \in r.compared /\ Len(r.reopening) >= 1 /\ r.reopening[1] = "config"

VARIABLES runner,
          written,     \* the files of the run that exist; latest_run.json names it
          config, environment, checkpoint,  \* their content
          units,       \* unit -> result, for the unit files
          summary,
          pc, tree, next, completed, current, rows, expected,  \* the process
          drifts, crashes

disk == <<written, config, environment, checkpoint, units, summary>>
process == <<pc, tree, next, completed, current, rows, expected>>
vars == <<runner, disk, process, drifts, crashes>>

Units == 1 .. runner.units

Init ==
  /\ runner \in Runners
  /\ written = {}
  /\ config = None /\ environment = None
  /\ checkpoint = [config |-> None, completed |-> {}]
  /\ units = [u \in {} |-> None]
  /\ summary = None
  /\ pc = "idle" /\ tree = None /\ next = 1
  /\ completed = {} /\ current = 0 /\ rows = <<>> /\ expected = None
  /\ drifts = 0 /\ crashes = 0

\* Every unit file there is.
Measured == DOMAIN units

\* What a resumed process takes as done.
Listed == IF runner.completion = "units" THEN Measured ELSE checkpoint.completed

\* The directory does not exist yet: run ids are times of the day.
Unused == "config" \notin written

\* A configuration read back from its file: JSON has lists only.
Loaded(c) == [content |-> c, sequences |-> "lists"]

\* The resuming process's own; in Python a tuple never equals a list.
InMemory(c) == [content |-> c, sequences |-> runner.sequences]

\* Mutant of Matches: only the configuration is compared.
MatchesConfig(t, file) ==
  CASE file = "config" -> "config" \in written => Loaded(config) = InMemory(t.config)
    [] file = "checkpoint" -> checkpoint.config = t.config
    [] file = "environment" -> TRUE

\* A file that a resume compares without needing it may be missing.
Matches(t, file) ==
  CASE file = "config" -> "config" \in written => Loaded(config) = InMemory(t.config)
    [] file = "checkpoint" -> checkpoint.config = t.config
    [] file = "environment" -> environment = t.commit

\* A resume that raises nothing.
Admitted(t) ==
  /\ runner.needed \subseteq written
  /\ \A file \in runner.compared : Matches(t, file)

Start(phase, t, done) ==
  /\ pc = "idle"
  /\ pc' = phase
  /\ tree' = t
  /\ completed' = done
  /\ UNCHANGED <<runner, disk, next, current, rows, expected, drifts, crashes>>

New(t) == Unused /\ Start("opening", t, {})

Resume(t) == Admitted(t) /\ Start("reopening", t, Listed)

Script == IF pc = "opening" THEN runner.opening ELSE runner.reopening

Listing(done) == [config |-> tree.config, completed |-> done]

\* Mutant of WriteFile: the run is named with its first file.
WriteFileNaming ==
  /\ pc \in {"opening", "reopening"}
  /\ next <= Len(Script)
  /\ next' = next + 1
  /\ LET file == Script[next] IN
       /\ written' = written \cup {file, "latest"}
       /\ config' = IF file = "config" THEN tree.config ELSE config
       /\ environment' = IF file = "environment" THEN tree.commit ELSE environment
       /\ checkpoint' = IF file = "checkpoint" THEN Listing({}) ELSE checkpoint
  /\ UNCHANGED <<runner, units, summary, pc, tree, completed, current, rows,
                 expected, drifts, crashes>>

\* The writes of opening and reopening a run.
WriteFile ==
  /\ pc \in {"opening", "reopening"}
  /\ next <= Len(Script)
  /\ next' = next + 1
  /\ LET file == Script[next] IN
       /\ written' = written \cup {file}
       /\ config' = IF file = "config" THEN tree.config ELSE config
       /\ environment' = IF file = "environment" THEN tree.commit ELSE environment
       /\ checkpoint' = IF file = "checkpoint" THEN Listing({}) ELSE checkpoint
  /\ UNCHANGED <<runner, units, summary, pc, tree, completed, current, rows,
                 expected, drifts, crashes>>

Digest == {"same", "changed"}

\* An execution returns the candidate's result, or a changed one.
Observes(changed) ==
  IF changed THEN drifts < MaxDrifts /\ drifts' = drifts + 1 ELSE UNCHANGED drifts

\* Mutant of Begin: a resumed run with nothing left to measure is left alone.
BeginUnlessDone ==
  /\ pc \in {"opening", "reopening"}
  /\ next = Len(Script) + 1
  /\ IF completed = Units
     THEN pc' = "idle" /\ tree' = None /\ completed' = {} /\ UNCHANGED <<expected, drifts>>
     ELSE /\ pc' = "measuring"
          /\ IF runner.protocol.reference = "process"
             THEN \E d \in Digest : expected' = d /\ Observes(d = "changed")
             ELSE UNCHANGED <<expected, drifts>>
          /\ UNCHANGED <<tree, completed>>
  /\ next' = 1
  /\ UNCHANGED <<runner, disk, current, rows, crashes>>

(* The run is open.  Where results are compared with one of this process,  *)
(* that one is computed here.                                              *)
Begin ==
  /\ pc \in {"opening", "reopening"}
  /\ next = Len(Script) + 1
  /\ pc' = "measuring"
  /\ next' = 1
  /\ IF runner.protocol.reference = "process"
     THEN \E d \in Digest : expected' = d /\ Observes(d = "changed")
     ELSE UNCHANGED <<expected, drifts>>
  /\ UNCHANGED <<runner, disk, tree, completed, current, rows, crashes>>

Pending == Units \ completed

\* Units are measured in the order the configuration gives them.
StartUnit ==
  /\ pc = "measuring"
  /\ \E u \in Pending :
       /\ \A v \in Pending : u <= v
       /\ current' = u
  /\ pc' = "unit"
  /\ IF runner.protocol.reference = "unit"
     THEN \E d \in Digest : expected' = d /\ Observes(d = "changed")
     ELSE UNCHANGED <<expected, drifts>>
  /\ UNCHANGED <<runner, disk, tree, next, completed, rows, crashes>>

Orders ==
  IF runner.protocol.block_units THEN <<runner.protocol.orders[current]>>
  ELSE runner.protocol.orders

Candidates(order) == {order[p] : p \in DOMAIN order} \ {"barrier"}

Block(order, drifted) ==
  [order |-> order,
   digests |-> [c \in Candidates(order) |-> IF c \in drifted THEN "changed" ELSE "same"]]

DigestsOf(block) == {block.digests[c] : c \in DOMAIN block.digests}

\* The comparison made while a block is measured.
Comparable(block) ==
  CASE runner.protocol.reference \in {"process", "unit"} -> DigestsOf(block) = {expected}
    [] runner.protocol.reference = "block" -> Cardinality(DigestsOf(block)) = 1
    [] runner.protocol.reference = "end" -> TRUE

\* The process ends; what it held in memory is gone.
Stop ==
  /\ pc' = "idle"
  /\ tree' = None /\ next' = 1
  /\ completed' = {} /\ current' = 0 /\ rows' = <<>> /\ expected' = None

(* One block: every candidate in the block's order.  A difference raises   *)
(* and ends the process before anything of the unit is written.            *)
MeasureBlock ==
  /\ pc = "unit"
  /\ Len(rows) < Len(Orders)
  /\ \E drifted \in Drifts :
       LET order == Orders[Len(rows) + 1]
           block == Block(order, drifted)
       IN  /\ Observes("changed" \in DigestsOf(block))
           /\ IF Comparable(block)
              THEN /\ rows' = Append(rows, block)
                   /\ UNCHANGED <<pc, tree, next, completed, current, expected>>
              ELSE Stop
  /\ UNCHANGED <<runner, disk, crashes>>

AllDigests == UNION {DigestsOf(rows[b]) : b \in DOMAIN rows}

\* The unit's blocks are done; some runners compare them only now.
EndUnit ==
  /\ pc = "unit"
  /\ Len(rows) = Len(Orders)
  /\ IF runner.protocol.reference = "end" /\ Cardinality(AllDigests) # 1
     THEN Stop
     ELSE /\ pc' = "recording"
          /\ UNCHANGED <<tree, next, completed, current, rows, expected>>
  /\ UNCHANGED <<runner, disk, drifts, crashes>>

ResultOf(t, blocks) == [config |-> t.config, commit |-> t.commit, rows |-> blocks]

\* The next unit, with the unit's rows dropped.
NextUnit ==
  /\ pc' = "measuring"
  /\ rows' = <<>>
  /\ current' = 0
  /\ expected' = IF runner.protocol.reference = "unit" THEN None ELSE expected

WriteUnit ==
  /\ pc = "recording"
  /\ units' = [u \in Measured \cup {current} |->
                IF u = current THEN ResultOf(tree, rows) ELSE units[u]]
  /\ completed' = completed \cup {current}
  /\ IF runner.completion = "checkpoint"
     THEN pc' = "listing" /\ UNCHANGED <<current, rows, expected>>
     ELSE NextUnit
  /\ UNCHANGED <<runner, written, config, environment, checkpoint, summary,
                 tree, next, drifts, crashes>>

WriteCheckpoint ==
  /\ pc = "listing"
  /\ checkpoint' = Listing(completed)
  /\ NextUnit
  /\ UNCHANGED <<runner, written, config, environment, units, summary,
                 tree, next, completed, drifts, crashes>>

\* Mutant of Finish: the loop's exit is not waited for.
FinishEarly ==
  /\ pc = "measuring"
  /\ completed # {}
  /\ summary' = units
  /\ Stop
  /\ UNCHANGED <<runner, written, config, environment, checkpoint, units, drifts, crashes>>

\* The summary of all units; a file it needs that is missing raises.
Finish ==
  /\ pc = "measuring"
  /\ Pending = {}
  /\ summary' = IF runner.summarising \subseteq written THEN units ELSE summary
  /\ Stop
  /\ UNCHANGED <<runner, written, config, environment, checkpoint, units, drifts, crashes>>

Crash ==
  /\ pc # "idle"
  /\ crashes < MaxCrashes
  /\ crashes' = crashes + 1
  /\ Stop
  /\ UNCHANGED <<runner, disk, drifts>>

Process ==
  \/ \E t \in Tree : New(t) \/ Resume(t)
  \/ WriteFile \/ Begin \/ StartUnit \/ MeasureBlock \/ EndUnit
  \/ WriteUnit \/ WriteCheckpoint \/ Finish

Next == Process \/ Crash

Spec == Init /\ [][Next]_vars

(* The user goes on resuming the run, with a tree the runner admits (the   *)
(* TPC-H runners admit none, so nothing is assumed of them after a crash); *)
(* crashes and changed results need not happen and do not happen for ever. *)
FairSpec == Spec /\ WF_vars(Process)
-----------------------------------------------------------------------------
(* Properties.                                                             *)

Phases ==
  {"idle", "opening", "reopening", "measuring", "unit", "recording", "listing"}

\* A process is idle or was started with a tree, and writes within its scripts.
RunTypeOK ==
  /\ runner \in Runners
  /\ pc \in Phases
  /\ pc = "idle" <=> tree = None
  /\ pc # "idle" => tree \in Tree
  /\ next \in 1 .. Len(runner.opening) + 1
  /\ completed \subseteq Units
  /\ current \in Units \cup {0}
  /\ pc \in {"unit", "recording", "listing"} <=> current # 0
  /\ Measured \subseteq Units
  /\ written \subseteq File
  /\ drifts \in 0 .. MaxDrifts /\ crashes \in 0 .. MaxCrashes

\* Runners that refuse to resume at another commit.
Guarded == "environment" \in runner.compared

(* Whatever the user resumed with: a result was measured under the frozen  *)
(* configuration, and where a runner refuses another commit ("start a new  *)
(* run to avoid mixed-code timings") under the commit of environment.json. *)
MeasuredAsDeclared ==
  \A u \in Measured :
    /\ units[u].config = config
    /\ Guarded => units[u].commit = environment

(* A summary that states the commit of its measurements, read from         *)
(* environment.json ("measurement_commit_hash"; another commit is reported *)
(* as "post_measurement_analysis_only_fix_applied"), holds only results    *)
(* measured at that commit.                                                *)
MeasurementCommit ==
  summary # None /\ "environment" \in runner.summarising =>
    \A u \in DOMAIN summary : summary[u].commit = environment

\* The runner's comparison can succeed: both sides went through JSON.
Reopenable == runner.sequences = "lists"

(* A run that latest_run.json names can be resumed: its opening wrote all  *)
(* a resume reads, whatever killed the process since.  Of the TPC-H        *)
(* runners this is false after the first crash, for every tree.            *)
LatestResumable ==
  Reopenable /\ "latest" \in written => \E t \in Tree : Admitted(t)

(* What tpch_q1_formal.py says of its checkpoints ("A killed process can   *)
(* therefore resume without inventing or losing rows."): not so, and in no *)
(* run.                                                                    *)
EveryLatestResumable ==
  "latest" \in written => \E t \in Tree : Admitted(t)

(* Candidates are only ever compared on equal results: those of one block  *)
(* agree, and where a reference is kept so do those of the whole unit.     *)
ResultsAgree ==
  \A u \in Measured :
    LET blocks == units[u].rows IN
    /\ \A b \in DOMAIN blocks : Cardinality(DigestsOf(blocks[b])) = 1
    /\ runner.protocol.reference # "block" =>
         Cardinality(UNION {DigestsOf(blocks[b]) : b \in DOMAIN blocks}) = 1

(* The orders that were really measured, process after process: of a unit, *)
(* or of all units where each is one block.                                *)
MeasuredOrders(results) ==
  LET orders(u) == [b \in DOMAIN results[u].rows |-> results[u].rows[b].order]
  IN  IF runner.protocol.block_units
      THEN {[u \in DOMAIN results |-> orders(u)[1]]}
      ELSE {orders(u) : u \in DOMAIN results}

\* The ledger of module UnitLedger that a run keeps.
Ledger == INSTANCE UnitLedger WITH
  declared <- Units,
  ledger <- [u \in Listed |-> units[u]],
  published <- summary

(* A listed result is never measured again or changed, by any number of    *)
(* crashes and resumes, and a summary is computed from exactly the results *)
(* of all units: a unit file that a crash left unlisted is replaced before *)
(* it counts.                                                              *)
EveryUnitOnce == Ledger!Spec

\* A run that cannot be resumed and whose process may have ended early.
Stranded == ~Reopenable /\ crashes + drifts > 0

(* A run that latest_run.json names is summarised in the end, by as many   *)
(* processes as it takes; one that cannot be resumed, by the process that  *)
(* created it if that is neither killed nor meets a changed result.        *)
EventuallySummarised ==
  ("latest" \in written) ~> (summary # None \/ Stranded)
=============================================================================
