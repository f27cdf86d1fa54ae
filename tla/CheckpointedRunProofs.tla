------------------------ MODULE CheckpointedRunProofs ------------------------
(***************************************************************************)
(* For every set of runners that satisfies RunnerAssumption, any number of *)
(* units, trees, crashes and changed results: what is measured is what was *)
(* declared, a run that is named can be resumed, and a run directory keeps *)
(* a ledger of its units.                                                  *)
(*                                                                         *)
(* The strengthening says what a process may rely on in each of its        *)
(* phases: while a run is opened nothing is measured yet; once it is open  *)
(* the frozen configuration is the process's own, and the units it takes   *)
(* as done are those that are listed.                                      *)
(***************************************************************************)
EXTENDS CheckpointedRun, MeasurementOrders, TLAPS

Disk ==
  /\ runner \in Runners
  /\ units = [u \in Measured |-> units[u]]
  /\ Listed \subseteq Measured
  /\ Measured \subseteq Units
  /\ "config" \notin written => Measured = {}
  /\ "checkpoint" \in written => "config" \in written /\ checkpoint.config = config

\* The files and the process agree.
Declared ==
  /\ "config" \in written
  /\ config = tree.config
  /\ Guarded => environment = tree.commit

Opening ==
  /\ Measured = {} /\ completed = {}
  /\ next \in Nat \ {0}
  /\ "config" \in written <=> next >= 2
  /\ next >= 2 => config = tree.config
  /\ next >= 3 => environment = tree.commit

Reopening ==
  /\ next \in Nat \ {0}
  /\ completed = Listed
  /\ Guarded => environment = tree.commit
  /\ \/ "config" \in written /\ config = tree.config
     \/ /\ "config" \notin written
        /\ next = 1 /\ Len(runner.reopening) >= 1 /\ runner.reopening[1] = "config"

Measuring ==
  /\ Declared
  /\ next = 1
  /\ completed = Listed
  /\ pc # "measuring" => current \in Units \ completed

Recorded ==
  /\ Declared
  /\ next = 1
  /\ runner.completion = "checkpoint"
  /\ current \in Measured \ Listed
  /\ completed = Listed \cup {current}

Phase ==
  CASE pc = "idle" -> next = 1
    [] pc = "opening" -> Opening
    [] pc = "reopening" -> Reopening
    [] pc \in {"measuring", "unit", "recording"} -> Measuring
    [] pc = "listing" -> Recorded

IInv == Disk /\ MeasuredAsDeclared /\ pc \in Phases /\ Phase
-----------------------------------------------------------------------------
(* Steps that leave the files alone.                                       *)

LEMMA FilesKept ==
  ASSUME Disk, MeasuredAsDeclared,
         UNCHANGED <<runner, written, config, environment, checkpoint, units>>
  PROVE  /\ Disk' /\ MeasuredAsDeclared'
         /\ Listed' = Listed /\ Measured' = Measured /\ Units' = Units
         /\ Guarded' = Guarded
<1>1. /\ Listed' = Listed /\ Measured' = Measured /\ Units' = Units
      /\ Guarded' = Guarded
  BY DEF Listed, Measured, Units, Guarded
<1>2. Disk'
  BY <1>1 DEF Disk
<1>3. MeasuredAsDeclared'
  BY <1>1 DEF MeasuredAsDeclared
<1> QED
  BY <1>1, <1>2, <1>3

LEMMA StopKeeps ==
  ASSUME IInv, Stop,
         UNCHANGED <<runner, written, config, environment, checkpoint, units>>
  PROVE  IInv'
<1>1. Disk' /\ MeasuredAsDeclared'
  BY FilesKept DEF IInv
<1>2. pc' = "idle" /\ next' = 1
  BY DEF Stop
<1> QED
  BY <1>1, <1>2 DEF IInv, Phase, Phases

LEMMA InitInv == Init => IInv
<1> SUFFICES ASSUME Init PROVE IInv
  OBVIOUS
<1>1. Measured = {}
  BY DEF Init, Measured
<1>2. Listed = {}
  BY <1>1 DEF Init, Listed
<1>3. Disk
  BY <1>1, <1>2 DEF Disk, Init
<1>4. MeasuredAsDeclared
  BY <1>1 DEF MeasuredAsDeclared
<1> QED
  BY <1>3, <1>4 DEF IInv, Phase, Phases, Init

LEMMA NewKeeps ==
  ASSUME IInv, NEW t \in Tree, New(t)
  PROVE  IInv'
<1>1. Disk' /\ MeasuredAsDeclared' /\ Measured' = Measured
  BY FilesKept DEF IInv, New, Start, disk
<1>2. Measured = {} /\ next = 1 /\ "config" \notin written
  BY DEF IInv, Disk, New, Start, Unused, Phase
<1>3. Opening' /\ pc' = "opening"
  BY <1>1, <1>2 DEF New, Start, Opening, disk
<1> QED
  BY <1>1, <1>3 DEF IInv, Phase, Phases

\* A configuration read back matches only itself, and itself where JSON is undone.
LEMMA LoadedMatches ==
  ASSUME NEW a, NEW b
  PROVE  /\ Loaded(a) = InMemory(b) => a = b
         /\ Reopenable /\ a = b => Loaded(a) = InMemory(b)
<1>1. /\ Loaded(a).content = a
      /\ InMemory(b).content = b
  BY DEF Loaded, InMemory
<1> QED
  BY <1>1 DEF Loaded, InMemory, Reopenable

(* A resume compares the configuration with a file it needs, or writes it  *)
(* before anything else.                                                   *)
LEMMA ResumeKeeps ==
  ASSUME IInv, NEW t \in Tree, Resume(t)
  PROVE  IInv'
<1>1. Disk' /\ MeasuredAsDeclared' /\ Listed' = Listed /\ Guarded' = Guarded
  BY FilesKept DEF IInv, Resume, Start, disk
<1>2. /\ runner' = runner /\ written' = written /\ config' = config
      /\ environment' = environment /\ tree' = t /\ next' = 1
      /\ completed' = Listed /\ pc' = "reopening"
  BY DEF IInv, Resume, Start, disk, Phase
<1>3. runner \in Runners /\ Admitted(t)
  BY DEF IInv, Disk, Resume
<1>4. Guarded => environment = t.commit
  BY <1>3 DEF Guarded, Admitted, Matches
<1>5. \/ "config" \in written /\ config = t.config
      \/ /\ "config" \notin written
         /\ Len(runner.reopening) >= 1 /\ runner.reopening[1] = "config"
  <2>1. CASE {"config", "checkpoint"} \cap runner.needed \cap runner.compared # {}
    <3>1. CASE "config" \in runner.needed /\ "config" \in runner.compared
      BY <1>3, <3>1, LoadedMatches DEF Admitted, Matches
    <3>2. CASE "checkpoint" \in runner.needed /\ "checkpoint" \in runner.compared
      <4>1. "checkpoint" \in written /\ checkpoint.config = t.config
        BY <1>3, <3>2 DEF Admitted, Matches
      <4> QED
        BY <4>1 DEF IInv, Disk
    <3> QED
      BY <2>1, <3>1, <3>2
  <2>2. CASE /\ "config" \in runner.compared
             /\ Len(runner.reopening) >= 1 /\ runner.reopening[1] = "config"
    BY <1>3, <2>2, LoadedMatches DEF Admitted, Matches
  <2> QED
    BY <1>3, <2>1, <2>2, RunnerAssumption
<1>6. Reopening'
  BY <1>1, <1>2, <1>4, <1>5 DEF Reopening
<1> QED
  BY <1>1, <1>2, <1>6 DEF IInv, Phase, Phases

\* While a run is opened nothing is measured: its files may still change.
LEMMA OpeningWrites ==
  ASSUME IInv, WriteFile, pc = "opening"
  PROVE  IInv'
<1> DEFINE file == runner.opening[next]
<1>1. /\ runner \in Runners /\ Measured = {} /\ completed = {} /\ Listed = {}
      /\ next \in Nat \ {0} /\ next <= Len(runner.opening)
  BY DEF IInv, Phase, Opening, Disk, WriteFile, Script
<1>2. /\ runner.opening \in Seq(File) /\ runner.opening[1] = "config"
      /\ runner.opening[2] = "environment"
  BY <1>1, RunnerAssumption
<1>3. /\ runner' = runner /\ units' = units /\ tree' = tree /\ pc' = "opening"
      /\ completed' = {} /\ next' = next + 1
      /\ written' = written \cup {file}
      /\ config' = IF file = "config" THEN tree.config ELSE config
      /\ environment' = IF file = "environment" THEN tree.commit ELSE environment
      /\ checkpoint' = IF file = "checkpoint" THEN Listing({}) ELSE checkpoint
  BY <1>1 DEF WriteFile, Script
<1>4. Measured' = {} /\ Units' = Units
  BY <1>1, <1>3 DEF Measured, Units
<1>5. Listed' = {}
  BY <1>1, <1>3, <1>4 DEF Listed, Listing
<1>6. "config" \in written' /\ config' = tree.config
  <2>1. CASE next = 1
    BY <1>2, <1>3, <2>1
  <2>2. CASE next >= 2
    BY <1>3, <2>2 DEF IInv, Phase, Opening
  <2> QED
    BY <1>1, <2>1, <2>2
<1>7. next' >= 3 => environment' = tree.commit
  <2>1. CASE next = 1
    BY <1>3, <2>1
  <2>2. CASE next = 2
    BY <1>2, <1>3, <2>2
  <2>3. CASE next >= 3
    BY <1>3, <2>3 DEF IInv, Phase, Opening
  <2> QED
    BY <1>1, <2>1, <2>2, <2>3
<1>8. "checkpoint" \in written' => checkpoint'.config = config'
  <2>1. CASE file = "checkpoint"
    BY <1>3, <1>6, <2>1 DEF Listing
  <2>2. CASE file # "checkpoint" /\ "checkpoint" \in written
    <3>1. "config" \in written /\ checkpoint.config = config
      BY <2>2 DEF IInv, Disk
    <3>2. next >= 2
      BY <1>1, <1>2, <3>1 DEF IInv, Phase, Opening, Disk
    <3> QED
      BY <1>3, <1>6, <2>2, <3>1, <3>2 DEF IInv, Phase, Opening
  <2> QED
    BY <1>3, <2>1, <2>2
<1>9. Disk' /\ MeasuredAsDeclared'
  BY <1>1, <1>3, <1>4, <1>5, <1>6, <1>8 DEF IInv, Disk, MeasuredAsDeclared
<1>10. Opening'
  BY <1>1, <1>3, <1>4, <1>6, <1>7 DEF Opening
<1> QED
  BY <1>3, <1>9, <1>10 DEF IInv, Phase, Phases

(* A resume writes what the directory holds already, or the configuration  *)
(* of a directory that never got one.                                      *)
LEMMA ReopeningWrites ==
  ASSUME IInv, WriteFile, pc = "reopening"
  PROVE  IInv'
<1> DEFINE file == runner.reopening[next]
<1>1. /\ runner \in Runners /\ Reopening
      /\ next \in Nat \ {0} /\ next <= Len(runner.reopening)
  BY DEF IInv, Phase, Reopening, Disk, WriteFile, Script
<1>2. runner.reopening \in Seq({"config", "environment"}) /\ file # "checkpoint"
  <2>1. runner.reopening \in Seq({"config", "environment"})
    BY <1>1, RunnerAssumption
  <2>2. next \in 1 .. Len(runner.reopening)
    BY <1>1, <2>1
  <2> QED
    BY <2>1, <2>2
<1>3. /\ runner' = runner /\ units' = units /\ tree' = tree /\ pc' = "reopening"
      /\ completed' = completed /\ next' = next + 1
      /\ written' = written \cup {file}
      /\ config' = IF file = "config" THEN tree.config ELSE config
      /\ environment' = IF file = "environment" THEN tree.commit ELSE environment
      /\ checkpoint' = checkpoint
  BY <1>2 DEF WriteFile, Script
<1>4. Measured' = Measured /\ Units' = Units /\ Listed' = Listed /\ Guarded' = Guarded
  BY <1>3 DEF Measured, Units, Listed, Guarded
<1>5. "config" \in written' /\ config' = tree.config
  BY <1>1, <1>3 DEF Reopening
<1>6. "config" \in written => config' = config
  BY <1>1, <1>3 DEF Reopening
<1>7. Guarded => environment' = environment /\ environment = tree.commit
  BY <1>1, <1>3 DEF Reopening
<1>8. Disk'
  BY <1>2, <1>3, <1>4, <1>5, <1>6 DEF IInv, Disk
<1>9. MeasuredAsDeclared'
  <2> SUFFICES ASSUME NEW u \in Measured
               PROVE  /\ units[u].config = config'
                      /\ Guarded => units[u].commit = environment'
    BY <1>3, <1>4 DEF MeasuredAsDeclared
  <2>1. "config" \in written
    BY DEF IInv, Disk
  <2> QED
    BY <1>6, <1>7, <2>1 DEF IInv, MeasuredAsDeclared
<1>10. Reopening'
  BY <1>1, <1>3, <1>4, <1>5, <1>7 DEF Reopening
<1> QED
  BY <1>3, <1>8, <1>9, <1>10 DEF IInv, Phase, Phases

(* An open run is declared: opening and reopening have written or compared *)
(* both files.                                                             *)
LEMMA BeginKeeps ==
  ASSUME IInv, Begin
  PROVE  IInv'
<1>1. Disk' /\ MeasuredAsDeclared' /\ Listed' = Listed /\ Guarded' = Guarded
  BY FilesKept DEF IInv, Begin, disk
<1>2. /\ runner' = runner /\ written' = written /\ config' = config
      /\ environment' = environment /\ tree' = tree /\ completed' = completed
      /\ pc' = "measuring" /\ next' = 1 /\ runner \in Runners
  BY DEF Begin, disk, IInv, Disk
<1>3. Declared /\ completed = Listed
  <2>1. CASE pc = "opening"
    <3>1. next >= 3
      <4>1. next = Len(runner.opening) + 1
        BY <2>1 DEF Begin, Script
      <4>2. Len(runner.opening) \in Nat /\ Len(runner.opening) >= 2
        BY <1>2, RunnerAssumption
      <4> QED
        BY <4>1, <4>2
    <3>2. Opening
      BY <2>1 DEF IInv, Phase
    <3>3. Listed = {}
      BY <3>2 DEF IInv, Disk, Opening
    <3> QED
      BY <3>1, <3>2, <3>3 DEF Opening, Declared
  <2>2. CASE pc = "reopening"
    <3>1. Reopening
      BY <2>2 DEF IInv, Phase
    <3>2. next = Len(runner.reopening) + 1 /\ Len(runner.reopening) \in Nat
      BY <1>2, <2>2, RunnerAssumption DEF Begin, Script
    <3> QED
      BY <3>1, <3>2 DEF Reopening, Declared
  <2> QED
    BY <2>1, <2>2 DEF Begin
<1>4. Measuring'
  BY <1>1, <1>2, <1>3 DEF Measuring, Declared
<1> QED
  BY <1>1, <1>2, <1>4 DEF IInv, Phase, Phases

LEMMA StartUnitKeeps ==
  ASSUME IInv, StartUnit
  PROVE  IInv'
<1>1. Disk' /\ MeasuredAsDeclared' /\ Listed' = Listed /\ Guarded' = Guarded /\ Units' = Units
  BY FilesKept DEF IInv, StartUnit, disk
<1>2. Measuring
  BY DEF IInv, Phase, StartUnit
<1>3. Measuring' /\ pc' = "unit"
  BY <1>1, <1>2 DEF Measuring, Declared, StartUnit, disk, Pending
<1> QED
  BY <1>1, <1>3 DEF IInv, Phase, Phases

LEMMA MeasureBlockKeeps ==
  ASSUME IInv, MeasureBlock
  PROVE  IInv'
<1>1. Disk' /\ MeasuredAsDeclared' /\ Listed' = Listed /\ Guarded' = Guarded /\ Units' = Units
  BY FilesKept DEF IInv, MeasureBlock, disk
<1>2. CASE Stop
  BY <1>2, StopKeeps DEF MeasureBlock, disk
<1>3. CASE UNCHANGED <<pc, tree, next, completed, current, expected>>
  <2>1. Measuring /\ pc = "unit"
    BY DEF IInv, Phase, MeasureBlock
  <2>2. Measuring' /\ pc' = "unit"
    BY <1>1, <1>3, <2>1 DEF Measuring, Declared, MeasureBlock, disk
  <2> QED
    BY <1>1, <2>2 DEF IInv, Phase, Phases
<1> QED
  BY <1>2, <1>3 DEF MeasureBlock

LEMMA EndUnitKeeps ==
  ASSUME IInv, EndUnit
  PROVE  IInv'
<1>1. Disk' /\ MeasuredAsDeclared' /\ Listed' = Listed /\ Guarded' = Guarded /\ Units' = Units
  BY FilesKept DEF IInv, EndUnit, disk
<1>2. CASE Stop
  BY <1>2, StopKeeps DEF EndUnit, disk
<1>3. CASE pc' = "recording" /\ UNCHANGED <<tree, next, completed, current, rows, expected>>
  <2>1. Measuring /\ pc = "unit"
    BY DEF IInv, Phase, EndUnit
  <2>2. Measuring'
    BY <1>1, <1>3, <2>1 DEF Measuring, Declared, EndUnit, disk
  <2> QED
    BY <1>1, <1>3, <2>2 DEF IInv, Phase, Phases
<1> QED
  BY <1>2, <1>3 DEF EndUnit

\* The result of the current unit is on disk and that of no other unit changed.
LEMMA WriteUnitKeeps ==
  ASSUME IInv, WriteUnit
  PROVE  IInv'
<1>1. Measuring /\ current \in Units \ completed /\ pc = "recording"
  BY DEF IInv, Phase, WriteUnit, Measuring
<1>2. /\ UNCHANGED <<runner, written, config, environment, checkpoint, tree, next>>
      /\ completed' = completed \cup {current}
      /\ units' = [u \in Measured \cup {current} |->
                     IF u = current THEN ResultOf(tree, rows) ELSE units[u]]
  BY DEF WriteUnit
<1>3. Measured' = Measured \cup {current} /\ Units' = Units /\ Guarded' = Guarded
  BY <1>2 DEF Measured, Units, Guarded
<1>4. Listed' = IF runner.completion = "units" THEN Listed \cup {current} ELSE Listed
  BY <1>2, <1>3 DEF Listed
<1>5. Disk'
  <2>1. units' = [u \in Measured' |-> units'[u]]
    BY <1>2, <1>3
  <2>2. Listed' \subseteq Measured' /\ Measured' \subseteq Units'
    BY <1>1, <1>3, <1>4 DEF IInv, Disk
  <2>3. "config" \in written'
    BY <1>1, <1>2 DEF Measuring, Declared
  <2> QED
    BY <1>2, <2>1, <2>2, <2>3 DEF IInv, Disk
<1>6. MeasuredAsDeclared'
  <2> SUFFICES ASSUME NEW u \in Measured \cup {current}
               PROVE  /\ units'[u].config = config
                      /\ Guarded => units'[u].commit = environment
    BY <1>2, <1>3 DEF MeasuredAsDeclared
  <2>1. CASE u = current
    <3>1. units'[u] = [config |-> tree.config, commit |-> tree.commit, rows |-> rows]
      BY <1>2, <2>1 DEF ResultOf
    <3> QED
      BY <1>1, <3>1 DEF Measuring, Declared
  <2>2. CASE u # current
    BY <1>2, <2>2 DEF IInv, MeasuredAsDeclared
  <2> QED
    BY <2>1, <2>2
<1>7. Declared' /\ next' = 1
  BY <1>1, <1>2, <1>3 DEF Measuring, Declared
<1>8. CASE runner.completion = "checkpoint"
  <2>1. pc' = "listing" /\ current' = current
    BY <1>8 DEF WriteUnit
  <2>2. Recorded'
    BY <1>1, <1>2, <1>3, <1>4, <1>7, <1>8, <2>1 DEF Recorded, Measuring
  <2> QED
    BY <1>5, <1>6, <2>1, <2>2 DEF IInv, Phase, Phases
<1>9. CASE runner.completion = "units"
  <2>1. pc' = "measuring"
    BY <1>9 DEF WriteUnit, NextUnit
  <2>2. Measuring'
    BY <1>1, <1>2, <1>4, <1>7, <1>9, <2>1 DEF Measuring
  <2> QED
    BY <1>5, <1>6, <2>1, <2>2 DEF IInv, Phase, Phases
<1> QED
  BY <1>8, <1>9, RunnerAssumption DEF IInv, Disk

LEMMA WriteCheckpointKeeps ==
  ASSUME IInv, WriteCheckpoint
  PROVE  IInv'
<1>1. Recorded
  BY DEF IInv, Phase, WriteCheckpoint
<1>2. /\ UNCHANGED <<runner, written, config, environment, units, tree, next, completed>>
      /\ checkpoint' = Listing(completed) /\ pc' = "measuring"
  BY DEF WriteCheckpoint, NextUnit
<1>3. Measured' = Measured /\ Units' = Units /\ Guarded' = Guarded
  BY <1>2 DEF Measured, Units, Guarded
<1>4. Listed' = completed
  BY <1>1, <1>2 DEF Listed, Listing, Recorded
<1>5. Disk'
  BY <1>1, <1>2, <1>3, <1>4 DEF IInv, Disk, Recorded, Declared, Listing
<1>6. MeasuredAsDeclared'
  BY <1>2, <1>3 DEF IInv, MeasuredAsDeclared
<1>7. Measuring'
  BY <1>1, <1>2, <1>3, <1>4 DEF Measuring, Recorded, Declared
<1> QED
  BY <1>2, <1>5, <1>6, <1>7 DEF IInv, Phase, Phases

LEMMA StepKeeps == IInv /\ [Next]_vars => IInv'
<1> SUFFICES ASSUME IInv, [Next]_vars PROVE IInv'
  OBVIOUS
<1>1. ASSUME NEW t \in Tree, New(t) PROVE IInv'
  BY <1>1, NewKeeps
<1>2. ASSUME NEW t \in Tree, Resume(t) PROVE IInv'
  BY <1>2, ResumeKeeps
<1>3. CASE WriteFile
  BY <1>3, OpeningWrites, ReopeningWrites DEF WriteFile
<1>4. CASE Begin
  BY <1>4, BeginKeeps
<1>5. CASE StartUnit
  BY <1>5, StartUnitKeeps
<1>6. CASE MeasureBlock
  BY <1>6, MeasureBlockKeeps
<1>7. CASE EndUnit
  BY <1>7, EndUnitKeeps
<1>8. CASE WriteUnit
  BY <1>8, WriteUnitKeeps
<1>9. CASE WriteCheckpoint
  BY <1>9, WriteCheckpointKeeps
<1>10. CASE Finish
  BY <1>10, StopKeeps DEF Finish
<1>11. CASE Crash
  BY <1>11, StopKeeps DEF Crash, disk
<1>12. CASE UNCHANGED vars
  <2>1. Disk' /\ MeasuredAsDeclared' /\ Listed' = Listed /\ Guarded' = Guarded
        /\ Measured' = Measured /\ Units' = Units
    BY <1>12, FilesKept DEF vars, disk, IInv
  <2>2. UNCHANGED <<pc, next, completed, current, tree, runner, written, config, environment>>
    BY <1>12 DEF vars, disk, process
  <2>3. (Opening => Opening') /\ (Reopening => Reopening')
    BY <2>1, <2>2 DEF Opening, Reopening
  <2>4. (Measuring => Measuring') /\ (Recorded => Recorded')
    BY <2>1, <2>2 DEF Measuring, Recorded, Declared
  <2> QED
    BY <2>1, <2>2, <2>3, <2>4 DEF IInv, Phase, Phases
<1> QED
  BY <1>1, <1>2, <1>3, <1>4, <1>5, <1>6, <1>7, <1>8, <1>9, <1>10, <1>11, <1>12 DEF Next, Process

(* Every result was measured under the frozen configuration and, where a   *)
(* runner refuses another commit, under the commit of environment.json,    *)
(* for all runners and any sequence of crashes and resumes.                *)
THEOREM AlwaysAsDeclared == Spec => []MeasuredAsDeclared
<1>1. Init => IInv
  BY InitInv
<1>2. IInv /\ [Next]_vars => IInv'
  BY StepKeeps
<1>3. IInv => MeasuredAsDeclared
  BY DEF IInv
<1> QED
  BY <1>1, <1>2, <1>3, PTL DEF Spec
-----------------------------------------------------------------------------
(* A named run.  The files of a run appear in the order of its opening, so *)
(* a run is named when all that a resume reads is there; and what it was   *)
(* opened with is the tree of some process.                                *)

Opened == written = {runner.opening[m] : m \in 1 .. next - 1}

Resumable ==
  /\ runner.needed \subseteq written
  /\ \E t \in Tree : config = t.config /\ (Guarded => environment = t.commit)

Named ==
  /\ written # {} => "config" \in written
  /\ pc # "idle" => tree \in Tree
  /\ pc = "opening" => Opened
  /\ "latest" \in written => Resumable

LEMMA NamedKept ==
  ASSUME Named, UNCHANGED <<runner, written, config, environment>>,
         pc' # "idle" => tree' \in Tree, pc' = "opening" => Opened'
  PROVE  Named'
<1>1. Guarded' = Guarded
  BY DEF Guarded
<1>2. Resumable => Resumable'
  BY <1>1 DEF Resumable
<1> QED BY <1>2 DEF Named

LEMMA NamedOpening ==
  ASSUME IInv, Named, WriteFile, pc = "opening"
  PROVE  Named'
<1> DEFINE file == runner.opening[next]
<1>1. /\ runner \in Runners /\ next \in Nat \ {0} /\ next <= Len(runner.opening)
      /\ Opened /\ tree \in Tree
  BY DEF IInv, Phase, Opening, Disk, WriteFile, Script, Named
<1>2. /\ runner.opening \in Seq(File) /\ runner.opening[1] = "config"
      /\ \A n \in DOMAIN runner.opening : runner.opening[n] = "latest" =>
           runner.needed \subseteq {runner.opening[m] : m \in 1 .. n - 1}
      /\ "environment" \in runner.compared => "environment" \in runner.needed
  BY <1>1, RunnerAssumption
<1>3. /\ runner' = runner /\ tree' = tree /\ pc' = "opening" /\ next' = next + 1
      /\ written' = written \cup {file}
  BY <1>1 DEF WriteFile, Script
<1>4. Opened'
  <2>1. 1 .. next' - 1 = (1 .. next - 1) \cup {next}
    BY <1>1, <1>3
  <2> QED BY <1>1, <1>3, <2>1 DEF Opened
<1>5. "config" \in written' /\ config' = tree.config /\ (next' >= 3 => environment' = tree.commit)
  <2>1. Opening'
    BY <1>3, OpeningWrites DEF IInv, Phase
  <2>2. next' >= 2
    BY <1>1, <1>3
  <2> QED BY <1>3, <2>1, <2>2 DEF Opening
<1>6. ASSUME "latest" \in written' PROVE runner.needed \subseteq written'
  <2>1. CASE "latest" \in written
    BY <1>3, <2>1 DEF Named, Resumable
  <2>2. CASE file = "latest"
    <3>1. next \in DOMAIN runner.opening
      BY <1>1, <1>2
    <3>2. runner.needed \subseteq {runner.opening[m] : m \in 1 .. next - 1}
      BY <1>2, <2>2, <3>1
    <3> QED BY <1>1, <1>3, <3>2 DEF Opened
  <2> QED BY <1>3, <1>6, <2>1, <2>2
<1>7. "environment" \in written' => next' >= 3
  <2> SUFFICES ASSUME "environment" \in written', ~(next' >= 3) PROVE FALSE
    OBVIOUS
  <2>1. next = 1
    BY <1>1, <1>3
  <2>2. 1 .. next - 1 = {}
    BY <2>1
  <2> QED BY <1>1, <1>2, <1>3, <2>1, <2>2 DEF Opened
<1>8. "latest" \in written' => Resumable'
  <2> SUFFICES ASSUME "latest" \in written' PROVE Resumable'
    OBVIOUS
  <2>1. Guarded' => environment' = tree'.commit
    BY <1>2, <1>3, <1>5, <1>6, <1>7 DEF Guarded
  <2> QED BY <1>1, <1>3, <1>5, <1>6, <2>1 DEF Resumable
<1> QED BY <1>1, <1>3, <1>4, <1>5, <1>8 DEF Named

LEMMA NamedReopening ==
  ASSUME IInv, Named, WriteFile, pc = "reopening"
  PROVE  Named'
<1> DEFINE file == runner.reopening[next]
<1>1. /\ runner \in Runners /\ Reopening /\ tree \in Tree
      /\ next \in Nat \ {0} /\ next <= Len(runner.reopening)
  BY DEF IInv, Phase, Reopening, Disk, WriteFile, Script, Named
<1>2. file \in {"config", "environment"}
  <2>1. runner.reopening \in Seq({"config", "environment"})
    BY <1>1, RunnerAssumption
  <2>2. next \in 1 .. Len(runner.reopening)
    BY <1>1, <2>1
  <2> QED BY <2>1, <2>2
<1>3. /\ runner' = runner /\ tree' = tree /\ pc' = "reopening"
      /\ written' = written \cup {file}
      /\ config' = IF file = "config" THEN tree.config ELSE config
      /\ environment' = IF file = "environment" THEN tree.commit ELSE environment
  BY DEF WriteFile, Script
<1>4. "config" \in written'
  BY <1>1, <1>3 DEF Reopening
<1>5. ASSUME "latest" \in written' PROVE Resumable'
  <2>1. "latest" \in written
    BY <1>2, <1>3, <1>5
  <2>2. Resumable /\ "config" \in written
    BY <2>1 DEF Named
  <2>3. config' = tree.config /\ (Guarded => environment' = tree.commit)
    BY <1>1, <1>3, <2>2 DEF Reopening
  <2>4. Guarded' = Guarded
    BY <1>3 DEF Guarded
  <2> QED BY <1>1, <1>3, <2>2, <2>3, <2>4 DEF Resumable
<1> QED BY <1>1, <1>3, <1>4, <1>5 DEF Named

LEMMA NamedStep == IInv /\ Named /\ [Next]_vars => Named'
<1> SUFFICES ASSUME IInv, Named, [Next]_vars PROVE Named'
  OBVIOUS
<1> USE DEF disk
<1>1. ASSUME NEW t \in Tree, New(t) PROVE Named'
  <2>1. written = {} /\ next = 1
    BY <1>1 DEF New, Start, Unused, Named, IInv, Phase
  <2>2. Opened'
    BY <1>1, <2>1 DEF New, Start, Opened
  <2> QED BY <1>1, <2>2, NamedKept DEF New, Start
<1>2. ASSUME NEW t \in Tree, Resume(t) PROVE Named'
  BY <1>2, NamedKept DEF Resume, Start
<1>3. CASE WriteFile
  BY <1>3, NamedOpening, NamedReopening DEF WriteFile
<1>4. CASE Begin
  BY <1>4, NamedKept DEF Begin, Named
<1>5. CASE StartUnit
  BY <1>5, NamedKept DEF StartUnit, Named
<1>6. CASE MeasureBlock
  BY <1>6, NamedKept DEF MeasureBlock, Stop, Named
<1>7. CASE EndUnit
  BY <1>7, NamedKept DEF EndUnit, Stop, Named
<1>8. CASE WriteUnit
  BY <1>8, NamedKept DEF WriteUnit, NextUnit, Named
<1>9. CASE WriteCheckpoint
  BY <1>9, NamedKept DEF WriteCheckpoint, NextUnit, Named
<1>10. CASE Finish
  BY <1>10, NamedKept DEF Finish, Stop
<1>11. CASE Crash
  BY <1>11, NamedKept DEF Crash, Stop
<1>12. CASE UNCHANGED vars
  BY <1>12, NamedKept DEF vars, process, Named, Opened
<1> QED
  BY <1>1, <1>2, <1>3, <1>4, <1>5, <1>6, <1>7, <1>8, <1>9, <1>10, <1>11, <1>12 DEF Next, Process

\* The list of completed units is of the configuration that is on disk.
LEMMA NamedIsResumable == IInv /\ Named => LatestResumable
<1> SUFFICES ASSUME IInv, Named, Reopenable, "latest" \in written
             PROVE  \E t \in Tree : Admitted(t)
  BY DEF LatestResumable
<1>1. PICK t \in Tree : config = t.config /\ (Guarded => environment = t.commit)
  BY DEF Named, Resumable
<1>2. /\ runner.needed \subseteq written
      /\ runner.compared \subseteq {"config", "environment", "checkpoint"}
      /\ "checkpoint" \in runner.compared => "checkpoint" \in written
  BY RunnerAssumption DEF Named, Resumable, IInv, Disk
<1>3. "checkpoint" \in runner.compared => checkpoint.config = config
  BY <1>2 DEF IInv, Disk
<1>4. \A file \in runner.compared : Matches(t, file)
  BY <1>1, <1>2, <1>3, LoadedMatches DEF Matches, Guarded
<1> QED BY <1>1, <1>2, <1>4 DEF Admitted

(* Where the loaded configuration is compared with one that went through   *)
(* JSON too (every runner but the two TPC-H ones), a run that              *)
(* latest_run.json names can be resumed by some process, whatever crashes, *)
(* other configurations and other commits it went through: nothing it      *)
(* compares was left half written.                                         *)
THEOREM AlwaysResumable == Spec => []LatestResumable
<1>1. Init => IInv /\ Named
  BY InitInv DEF Init, Named
<1>2. IInv /\ Named /\ [Next]_vars => (IInv /\ Named)'
  BY StepKeeps, NamedStep
<1> QED BY <1>1, <1>2, NamedIsResumable, PTL DEF Spec
-----------------------------------------------------------------------------
(* A run directory implements UnitLedger.  Two steps enter a unit: writing *)
(* its file, where files say what is done, and writing the checkpoint.     *)

LEMMA LedgerKept ==
  ASSUME UNCHANGED <<runner, checkpoint, units, summary>>
  PROVE  UNCHANGED Ledger!ledgerVars
<1>1. Listed' = Listed /\ Units' = Units
  BY DEF Listed, Measured, Units
<1> QED
  BY <1>1 DEF Ledger!ledgerVars

LEMMA LedgerOpened ==
  ASSUME IInv, WriteFile
  PROVE  UNCHANGED Ledger!ledgerVars
<1>1. UNCHANGED <<runner, units, summary>>
  BY DEF WriteFile
<1>2. Listed' = Listed
  <2>1. CASE pc = "opening"
    <3>1. Measured = {} /\ Measured' = {}
      BY <1>1, <2>1 DEF IInv, Phase, Opening, Measured
    <3>2. IInv'
      BY <2>1, OpeningWrites
    <3> QED
      BY <3>1, <3>2 DEF IInv, Disk
  <2>2. CASE pc = "reopening"
    <3>1. /\ runner.reopening \in Seq({"config", "environment"})
          /\ next \in 1 .. Len(runner.reopening)
      BY <2>2, RunnerAssumption DEF IInv, Disk, Phase, Reopening, WriteFile, Script
    <3>2. checkpoint' = checkpoint
      BY <2>2, <3>1 DEF WriteFile, Script
    <3> QED
      BY <1>1, <3>2 DEF Listed, Measured
  <2> QED
    BY <2>1, <2>2 DEF WriteFile
<1> QED
  BY <1>1, <1>2 DEF Ledger!ledgerVars, Units

LEMMA Recording ==
  ASSUME IInv, NEW u \in Units \ Listed,
         UNCHANGED <<runner, summary>>, Listed' = Listed \cup {u},
         \A v \in Listed : units'[v] = units[v]
  PROVE  Ledger!Record(u)
<1>1. Units' = Units
  BY DEF Units
<1> QED
  BY <1>1 DEF Ledger!Record

LEMMA LedgerStep == IInv /\ [Next]_vars => [Ledger!Next]_(Ledger!ledgerVars)
<1> SUFFICES ASSUME IInv, [Next]_vars PROVE [Ledger!Next]_(Ledger!ledgerVars)
  OBVIOUS
<1>1. ASSUME NEW t \in Tree, New(t) PROVE UNCHANGED Ledger!ledgerVars
  BY <1>1, LedgerKept DEF New, Start, disk
<1>2. ASSUME NEW t \in Tree, Resume(t) PROVE UNCHANGED Ledger!ledgerVars
  BY <1>2, LedgerKept DEF Resume, Start, disk
<1>3. CASE WriteFile
  BY <1>3, LedgerOpened
<1>4. CASE Begin \/ StartUnit \/ MeasureBlock \/ EndUnit \/ Crash
  BY <1>4, LedgerKept DEF Begin, StartUnit, MeasureBlock, EndUnit, Crash, disk
<1>5. CASE WriteUnit
  <2>1. /\ UNCHANGED <<runner, checkpoint, summary>>
        /\ units' = [u \in Measured \cup {current} |->
                       IF u = current THEN ResultOf(tree, rows) ELSE units[u]]
    BY <1>5 DEF WriteUnit
  <2>2. Measured' = Measured \cup {current}
    BY <2>1 DEF Measured
  <2>3. current \in Units \ Listed /\ Listed \subseteq Measured
    BY <1>5 DEF IInv, Disk, Phase, Measuring, WriteUnit
  <2>4. \A v \in Listed : units'[v] = units[v]
    BY <2>1, <2>3
  <2>5. CASE runner.completion = "units"
    <3>1. Listed' = Listed \cup {current}
      BY <2>1, <2>2, <2>5 DEF Listed
    <3>2. PICK u \in Units \ Listed : u = current
      BY <2>3
    <3>3. Ledger!Record(u)
      BY <2>1, <2>4, <3>1, <3>2, Recording
    <3> QED
      BY <3>3 DEF Ledger!Next
  <2>6. CASE runner.completion # "units"
    <3>1. Listed' = Listed /\ Units' = Units
      BY <2>1, <2>6 DEF Listed, Units
    <3> QED
      BY <2>1, <2>4, <3>1 DEF Ledger!ledgerVars
  <2> QED
    BY <2>5, <2>6
<1>6. CASE WriteCheckpoint
  <2>1. Recorded /\ UNCHANGED <<runner, units, summary>> /\ checkpoint' = Listing(completed)
    BY <1>6 DEF IInv, Phase, WriteCheckpoint
  <2>2. Listed' = Listed \cup {current} /\ current \in Units \ Listed
    BY <2>1 DEF Recorded, Listed, Listing, IInv, Disk
  <2>3. PICK u \in Units \ Listed : u = current
    BY <2>2
  <2>4. Ledger!Record(u)
    BY <2>1, <2>2, <2>3, Recording
  <2> QED
    BY <2>4 DEF Ledger!Next
<1>7. CASE Finish
  <2>1. UNCHANGED <<runner, checkpoint, units>> /\ Pending = {}
    BY <1>7 DEF Finish
  <2>2. Listed = Units /\ Measured = Units
    BY <1>7, <2>1 DEF IInv, Disk, Phase, Measuring, Finish, Pending
  <2>3. Listed' = Listed /\ Units' = Units
    BY <2>1 DEF Listed, Measured, Units
  <2>4. CASE summary' = units
    <3>1. units = [u \in Listed |-> units[u]]
      BY <2>2 DEF IInv, Disk
    <3>2. Ledger!Publish
      BY <2>1, <2>2, <2>3, <2>4, <3>1 DEF Ledger!Publish
    <3> QED
      BY <3>2 DEF Ledger!Next
  <2>5. CASE summary' = summary
    BY <2>1, <2>5, LedgerKept
  <2> QED
    BY <1>7, <2>4, <2>5 DEF Finish
<1>8. CASE UNCHANGED vars
  BY <1>8, LedgerKept DEF vars, disk
<1> QED
  BY <1>1, <1>2, <1>3, <1>4, <1>5, <1>6, <1>7, <1>8 DEF Next, Process

(* A run directory is a ledger of its units, for every runner and any      *)
(* sequence of crashes, resumes and changed results: what is listed is     *)
(* never measured again or changed, and a summary holds all of it.         *)
THEOREM RunKeepsLedger == Spec => EveryUnitOnce
<1>1. Init => IInv
  BY InitInv
<1>2. Init => Ledger!Init
  BY DEF Init, Ledger!Init, Listed, Measured
<1>3. IInv /\ [Next]_vars => IInv'
  BY StepKeeps
<1>4. IInv /\ [Next]_vars => [Ledger!Next]_(Ledger!ledgerVars)
  BY LedgerStep
<1> QED
  BY <1>1, <1>2, <1>3, <1>4, PTL DEF Spec, EveryUnitOnce, Ledger!Spec
-----------------------------------------------------------------------------
(* The orders in which a unit is measured.  In the Williams design of      *)
(* execution_flow_audit.py consecutive positions of the terrace differ by  *)
(* k (k odd) or by -k (k even) modulo the even number of periods, so no    *)
(* difference occurs twice and no variant follows another one twice.       *)

LEMMA Wrapped ==
  ASSUME NEW n \in Nat \ {0}, NEW i \in 0 .. n - 1, NEW j \in 0 .. n - 1
  PROVE  (i + j) % n = IF i + j < n THEN i + j ELSE i + j - n
<1>1. CASE i + j < n
  BY <1>1
<1>2. CASE i + j >= n
  <2>1. i + j - n \in 0 .. n - 1
    BY <1>2
  <2>2. (i + j) % n = (i + j - n) % n
    OBVIOUS
  <2> QED
    BY <1>2, <2>1, <2>2
<1> QED
  BY <1>1, <1>2

LEMMA ColumnValue ==
  ASSUME NEW n \in Nat, n >= 2, n % 2 = 0, NEW k \in 0 .. n - 1
  PROVE  /\ k % 2 = 1 => Column(n, k) = (k + 1) \div 2
         /\ k = 0 => Column(n, k) = 0
         /\ k % 2 = 0 /\ k > 0 => Column(n, k) = n - k \div 2
         /\ Column(n, k) \in 0 .. n - 1
<1>1. CASE k % 2 = 1
  BY <1>1 DEF Column
<1>2. CASE k = 0
  <2>1. Column(n, k) = n % n
    BY <1>2 DEF Column
  <2>2. n % n = 0
    OBVIOUS
  <2> QED
    BY <1>2, <2>1, <2>2
<1>3. CASE k % 2 = 0 /\ k > 0
  <2>1. Column(n, k) = (n - k \div 2) % n
    BY <1>3 DEF Column
  <2>2. n - k \div 2 \in 0 .. n - 1
    BY <1>3
  <2>3. (n - k \div 2) % n = n - k \div 2
    BY <2>2
  <2> QED
    BY <1>3, <2>1, <2>2, <2>3
<1> QED
  BY <1>1, <1>2, <1>3

\* From position k - 1 to position k of the terrace.
Step(n, k) == Column(n, k) - Column(n, k - 1)

LEMMA StepValue ==
  ASSUME NEW n \in Nat, n >= 2, n % 2 = 0, NEW k \in 1 .. n - 1
  PROVE  /\ k = 1 => Step(n, k) = 1
         /\ k % 2 = 1 /\ k > 1 => Step(n, k) = k - n
         /\ k % 2 = 0 => Step(n, k) = n - k
<1>1. k - 1 \in 0 .. n - 1 /\ k \in 0 .. n - 1
  OBVIOUS
<1>2. CASE k = 1
  BY <1>1, <1>2, ColumnValue DEF Step
<1>3. CASE k % 2 = 1 /\ k > 1
  <2>1. (k - 1) % 2 # 1
    BY <1>3
  <2>2. Column(n, k) = (k + 1) \div 2 /\ Column(n, k - 1) = (n - (k - 1) \div 2) % n
    BY <1>3, <2>1 DEF Column
  <2>3. n - (k - 1) \div 2 \in 0 .. n - 1
    BY <1>3
  <2>4. (n - (k - 1) \div 2) % n = n - (k - 1) \div 2
    BY <2>3
  <2>5. (k + 1) \div 2 + (k - 1) \div 2 = k
    BY <1>3
  <2> QED
    BY <1>3, <2>2, <2>4, <2>5 DEF Step
<1>4. CASE k % 2 = 0
  <2>1. (k - 1) % 2 = 1 /\ k % 2 # 1
    BY <1>4
  <2>2. Column(n, k) = (n - k \div 2) % n /\ Column(n, k - 1) = ((k - 1) + 1) \div 2
    BY <1>4, <2>1 DEF Column
  <2>3. n - k \div 2 \in 0 .. n - 1
    BY <1>4
  <2>4. (n - k \div 2) % n = n - k \div 2
    BY <2>3
  <2>5. k \div 2 + ((k - 1) + 1) \div 2 = k
    BY <1>4
  <2> QED
    BY <1>4, <2>2, <2>4, <2>5 DEF Step
<1> QED
  BY <1>2, <1>3, <1>4

LEMMA StepsDiffer ==
  ASSUME NEW n \in Nat, n >= 2, n % 2 = 0, NEW j \in 1 .. n - 1, NEW k \in 1 .. n - 1,
         NEW m \in {-2 * n, -n, 0, n, 2 * n}, Step(n, j) - Step(n, k) = m
  PROVE  j = k
<1>1. CASE j % 2 = 0 /\ k % 2 = 0
  BY <1>1, StepValue
<1>2. CASE j % 2 = 1 /\ k % 2 = 1
  BY <1>2, StepValue
<1>3. CASE j % 2 = 0 /\ k % 2 = 1
  <2>1. m % 2 = 0
    OBVIOUS
  <2>2. Step(n, j) = n - j /\ (Step(n, k) = k \/ Step(n, k) = k - n)
    BY <1>3, StepValue
  <2> QED
    BY <1>3, <2>1, <2>2
<1>4. CASE j % 2 = 1 /\ k % 2 = 0
  <2>1. m % 2 = 0
    OBVIOUS
  <2>2. Step(n, k) = n - k /\ (Step(n, j) = j \/ Step(n, j) = j - n)
    BY <1>4, StepValue
  <2> QED
    BY <1>4, <2>1, <2>2
<1> QED
  BY <1>1, <1>2, <1>3, <1>4

Distinct(seq) == \A i, j \in 1 .. Len(seq) : seq[i] = seq[j] => i = j

LEMMA EvenDistinct ==
  ASSUME NEW S, Barrier \notin S,
         NEW symbols \in Seq(S), Len(symbols) > 0, Distinct(symbols)
  PROVE  /\ Len(Even(symbols)) \in Nat /\ Len(Even(symbols)) >= 2
         /\ Len(Even(symbols)) % 2 = 0
         /\ Distinct(Even(symbols))
<1>1. CASE Len(symbols) % 2 = 1
  <2>1. Even(symbols) = Append(symbols, Barrier)
    BY <1>1 DEF Even
  <2>2. symbols \in Seq(S \cup {Barrier}) /\ \A i \in 1 .. Len(symbols) : symbols[i] \in S
    OBVIOUS
  <2>3. Len(Even(symbols)) = Len(symbols) + 1
    BY <2>1, <2>2
  <2>4. \A i \in 1 .. Len(symbols) + 1 :
          Even(symbols)[i] = IF i = Len(symbols) + 1 THEN Barrier ELSE symbols[i]
    BY <2>1, <2>2
  <2>5. Distinct(Even(symbols))
    BY <2>3, <2>4 DEF Distinct
  <2> QED
    BY <1>1, <2>3, <2>5
<1>2. CASE Len(symbols) % 2 # 1
  BY <1>2 DEF Even
<1> QED
  BY <1>1, <1>2

\* The symbol of block o at position p of a design of n periods.
Index(n, o, p) == (Column(n, p - 1) + (o - 1)) % n

LEMMA IndexValue ==
  ASSUME NEW n \in Nat, n >= 2, n % 2 = 0, NEW o \in 1 .. n, NEW p \in 1 .. n
  PROVE  /\ Column(n, p - 1) \in 0 .. n - 1
         /\ \/ Index(n, o, p) = Column(n, p - 1) + (o - 1)
            \/ Index(n, o, p) = Column(n, p - 1) + (o - 1) - n
         /\ Index(n, o, p) \in 0 .. n - 1
<1>1. p - 1 \in 0 .. n - 1 /\ o - 1 \in 0 .. n - 1 /\ n \in Nat \ {0}
  OBVIOUS
<1>2. Column(n, p - 1) \in 0 .. n - 1
  BY <1>1, ColumnValue
<1>3. Index(n, o, p) = IF Column(n, p - 1) + (o - 1) < n
                       THEN Column(n, p - 1) + (o - 1)
                       ELSE Column(n, p - 1) + (o - 1) - n
  BY <1>1, <1>2, Wrapped, Zenon DEF Index
<1>4. Index(n, o, p) \in 0 .. n - 1
  BY <1>1, <1>2, <1>3
<1> QED
  BY <1>2, <1>3, <1>4

LEMMA PairsDiffer ==
  ASSUME NEW n \in Nat, n >= 2, n % 2 = 0,
         NEW b \in 1 .. n, NEW c \in 1 .. n, NEW j \in 1 .. n - 1, NEW k \in 1 .. n - 1,
         Index(n, b, j) = Index(n, c, k), Index(n, b, j + 1) = Index(n, c, k + 1)
  PROVE  b = c /\ j = k
<1>1. j \in 1 .. n /\ k \in 1 .. n /\ j + 1 \in 1 .. n /\ k + 1 \in 1 .. n
  OBVIOUS
<1>2. (j + 1) - 1 = j /\ (k + 1) - 1 = k
  OBVIOUS
<1>3. /\ Column(n, j - 1) \in 0 .. n - 1 /\ Column(n, k - 1) \in 0 .. n - 1
      /\ \/ Index(n, b, j) = Column(n, j - 1) + (b - 1)
         \/ Index(n, b, j) = Column(n, j - 1) + (b - 1) - n
      /\ \/ Index(n, c, k) = Column(n, k - 1) + (c - 1)
         \/ Index(n, c, k) = Column(n, k - 1) + (c - 1) - n
  BY <1>1, IndexValue
<1>4. /\ Column(n, (j + 1) - 1) \in 0 .. n - 1 /\ Column(n, (k + 1) - 1) \in 0 .. n - 1
      /\ \/ Index(n, b, j + 1) = Column(n, (j + 1) - 1) + (b - 1)
         \/ Index(n, b, j + 1) = Column(n, (j + 1) - 1) + (b - 1) - n
      /\ \/ Index(n, c, k + 1) = Column(n, (k + 1) - 1) + (c - 1)
         \/ Index(n, c, k + 1) = Column(n, (k + 1) - 1) + (c - 1) - n
  BY <1>1, IndexValue, Zenon
<1>5. /\ Column(n, j) \in 0 .. n - 1 /\ Column(n, k) \in 0 .. n - 1
      /\ \/ Index(n, b, j + 1) = Column(n, j) + (b - 1)
         \/ Index(n, b, j + 1) = Column(n, j) + (b - 1) - n
      /\ \/ Index(n, c, k + 1) = Column(n, k) + (c - 1)
         \/ Index(n, c, k + 1) = Column(n, k) + (c - 1) - n
  BY <1>2, <1>4
<1>6. \E m \in {-2 * n, -n, 0, n, 2 * n} :
        (Column(n, j) - Column(n, j - 1)) - (Column(n, k) - Column(n, k - 1)) = m
  BY <1>3, <1>5
<1>7. j = k
  BY <1>6, StepsDiffer DEF Step
<1>8. b = c
  BY <1>3, <1>7
<1> QED
  BY <1>7, <1>8

LEMMA WilliamsValue ==
  ASSUME NEW symbols,
         NEW o \in 1 .. Len(Even(symbols)), NEW p \in 1 .. Len(Even(symbols))
  PROVE  Williams(symbols)[o][p] = Even(symbols)[1 + Index(Len(Even(symbols)), o, p)]
BY Zenon DEF Williams, Index

LEMMA Shifted ==
  ASSUME NEW n \in Nat, NEW x \in 0 .. n - 1, NEW y \in 0 .. n - 1
  PROVE  1 + x \in 1 .. n /\ (1 + x = 1 + y => x = y)
OBVIOUS

(* In one cycle of the design no symbol follows another one twice, for     *)
(* every number of variants: with n periods and n blocks each of the       *)
(* n * (n - 1) ordered pairs then occurs exactly once (the carry-over      *)
(* balance that DesignBalanced checks for three).                          *)
THEOREM NoPairRepeats ==
  ASSUME NEW S, Barrier \notin S,
         NEW symbols \in Seq(S), Len(symbols) > 0, Distinct(symbols),
         NEW b \in 1 .. Len(Even(symbols)), NEW c \in 1 .. Len(Even(symbols)),
         NEW j \in 1 .. Len(Even(symbols)) - 1, NEW k \in 1 .. Len(Even(symbols)) - 1,
         Williams(symbols)[b][j] = Williams(symbols)[c][k],
         Williams(symbols)[b][j + 1] = Williams(symbols)[c][k + 1]
  PROVE  b = c /\ j = k
<1>1. PICK n \in Nat : n = Len(Even(symbols))
  BY EvenDistinct
<1>2. n >= 2 /\ n % 2 = 0 /\ Distinct(Even(symbols))
  BY <1>1, EvenDistinct
<1>3. /\ b \in 1 .. n /\ c \in 1 .. n /\ j \in 1 .. n - 1 /\ k \in 1 .. n - 1
      /\ j \in 1 .. n /\ k \in 1 .. n /\ j + 1 \in 1 .. n /\ k + 1 \in 1 .. n
  BY <1>1
<1>4. ASSUME NEW o \in 1 .. n, NEW p \in 1 .. n
      PROVE  Williams(symbols)[o][p] = Even(symbols)[1 + Index(n, o, p)]
  <2>1. o \in 1 .. Len(Even(symbols)) /\ p \in 1 .. Len(Even(symbols))
    BY <1>1
  <2>2. Williams(symbols)[o][p] = Even(symbols)[1 + Index(Len(Even(symbols)), o, p)]
    BY <2>1, WilliamsValue, Zenon
  <2> QED
    BY <1>1, <2>2
<1>5. ASSUME NEW o \in 1 .. n, NEW p \in 1 .. n, NEW q \in 1 .. n, NEW r \in 1 .. n,
             Williams(symbols)[o][p] = Williams(symbols)[q][r]
      PROVE  Index(n, o, p) = Index(n, q, r)
  <2>1. Index(n, o, p) \in 0 .. n - 1 /\ Index(n, q, r) \in 0 .. n - 1
    BY <1>2, IndexValue
  <2>2. Even(symbols)[1 + Index(n, o, p)] = Even(symbols)[1 + Index(n, q, r)]
    BY <1>4, <1>5, Zenon
  <2>3. 1 + Index(n, o, p) \in 1 .. n /\ 1 + Index(n, q, r) \in 1 .. n
    BY <2>1, Shifted, Zenon
  <2>4. 1 + Index(n, o, p) = 1 + Index(n, q, r)
    <3>1. \A x, y \in 1 .. n : Even(symbols)[x] = Even(symbols)[y] => x = y
      BY <1>1, <1>2 DEF Distinct
    <3> QED
      BY <2>2, <2>3, <3>1, Zenon
  <2> QED
    BY <2>1, <2>4, Shifted, Zenon
<1>6. Index(n, b, j) = Index(n, c, k) /\ Index(n, b, j + 1) = Index(n, c, k + 1)
  BY <1>3, <1>5
<1> QED
  BY <1>2, <1>3, <1>6, PairsDiffer
=============================================================================
