--------------------------- MODULE RemoteWorkProofs ---------------------------
(***************************************************************************)
(* Theorems about the work that is done against a remote service and that  *)
(* outlives the process doing it, for any number of retries and crashes:   *)
(* what a download leaves behind, for every number of versions and faults; *)
(* and, in the real-agent plan coverage runs, that a persisted answer      *)
(* stands, that evidence is never judged again and that the records        *)
(* account for what was billed, for every set of cells and every list of   *)
(* configurations.                                                         *)
(***************************************************************************)
EXTENDS Download, AgentCells, FiniteLemmas, SequenceTheorems

-----------------------------------------------------------------------------
\* Downloads.

Aligned(file) == \A k \in DOMAIN file : file[k].index = k

File == {file \in Seq(Block) : Aligned(file)}

(* The inductive invariant.  Alignment of .part needs the body's position  *)
(* to be its length while a body is read; success needs what is known of   *)
(* the final file from the moment its reuse was refused to the promotion.  *)
FilesKept ==
  /\ remote \in Version
  /\ position \in Nat
  /\ part \in File
  /\ destination \subseteq File

Streaming == step = "stream" => position = Len(part)

Promotable == step = "promote" => Intact(part)

NotReusable ==
  step \notin Down \cup {"begin"} => \A file \in destination : ~Intact(file)

Succeeded == step = "done" => \E file \in destination : Intact(file)

Single == \A file, other \in destination : file = other

DownloadInv == FilesKept /\ Streaming /\ Promotable /\ NotReusable /\ Succeeded /\ Single

(* A whole version is an aligned file.                                     *)
LEMMA WholeIsAFile ==
  ASSUME NEW v \in Version
  PROVE  Whole(v) \in File
<1>1. SizeOf[v] \in Nat
  BY DownloadAssumption
<1>2. \A k \in 1 .. SizeOf[v] : [version |-> v, index |-> k] \in Block
  BY <1>1 DEF Block
<1>3. Whole(v) \in [1 .. SizeOf[v] -> Block]
  BY <1>2 DEF Whole
<1>4. Whole(v) \in Seq(Block)
  BY <1>1, <1>3
<1>5. Aligned(Whole(v))
  BY DEF Aligned, Whole
<1> QED
  BY <1>4, <1>5 DEF File

(* A block received at the position of the reader keeps .part aligned.     *)
LEMMA ReceiveAligned ==
  ASSUME NEW file \in File, NEW v \in Version
  PROVE  Append(file, [version |-> v, index |-> Len(file) + 1]) \in File
<1> DEFINE block == [version |-> v, index |-> Len(file) + 1]
<1>1. file \in Seq(Block) /\ Len(file) \in Nat
  BY DEF File
<1>2. block \in Block
  BY <1>1 DEF Block
<1>3. Append(file, block) \in Seq(Block)
  BY <1>1, <1>2
<1>4. ASSUME NEW k \in DOMAIN Append(file, block)
      PROVE  Append(file, block)[k].index = k
  <2>1. k \in 1 .. Len(file) + 1
    BY <1>1, <1>2, <1>4
  <2>2. CASE k \in 1 .. Len(file)
    <3>1. Append(file, block)[k] = file[k]
      BY <1>1, <1>2, <2>2
    <3>2. file[k].index = k
      BY <1>1, <2>2 DEF File, Aligned
    <3> QED
      BY <3>1, <3>2
  <2>3. CASE k = Len(file) + 1
    BY <1>1, <1>2, <2>3
  <2> QED
    BY <1>1, <2>1, <2>2, <2>3
<1> QED
  BY <1>3, <1>4 DEF File, Aligned

LEMMA EmptyIsAFile == <<>> \in File
BY DEF File, Aligned

LEMMA InitDownload == DownloadInit => DownloadInv
<1> SUFFICES ASSUME DownloadInit PROVE DownloadInv
  OBVIOUS
<1>1. destination \subseteq File
  BY WholeIsAFile DEF DownloadInit
<1>2. Single
  BY DEF DownloadInit, Single
<1> QED
  BY <1>1, <1>2, EmptyIsAFile
  DEF DownloadInit, DownloadInv, FilesKept, Streaming, Promotable, NotReusable,
     Succeeded, Down

LEMMA NextDownload == DownloadInv /\ [DownloadNext]_downloadVars => DownloadInv'
<1> SUFFICES ASSUME DownloadInv, [DownloadNext]_downloadVars PROVE DownloadInv'
  OBVIOUS
<1> USE DEF DownloadInv, FilesKept, Streaming, Promotable, NotReusable,
      Succeeded, Single, Down
<1>1. CASE Run
  BY <1>1 DEF Run, Intact
<1>2. CASE Begin
  BY <1>2 DEF Begin, Intact
<1>3. CASE PartialContent
  BY <1>3 DEF PartialContent, Intact, File
<1>4. CASE FullContent
  BY <1>4, EmptyIsAFile DEF FullContent, Intact
<1>5. CASE RangeNotSatisfiable
  BY <1>5 DEF RangeNotSatisfiable, Fail, Intact
<1>6. CASE Receive
  <2>1. part' \in File
    BY <1>6, ReceiveAligned DEF Receive
  <2>2. Len(part') = Len(part) + 1
    BY <1>6 DEF Receive, File, Block
  <2> QED
    BY <1>6, <2>1, <2>2 DEF Receive, Intact
<1>7. CASE EndOfBody
  BY <1>7 DEF EndOfBody, Intact
<1>8. CASE Verify
  BY <1>8 DEF Verify, Fail, Intact
<1>9. CASE Promote
  BY <1>9, EmptyIsAFile DEF Promote, Intact
<1>10. CASE BreakOff
  BY <1>10 DEF BreakOff, Fail, Intact
<1>11. CASE EndEarly
  BY <1>11 DEF EndEarly, Intact
<1>12. CASE Die
  BY <1>12 DEF Die, Intact
<1>13. CASE Replace
  BY <1>13 DEF Replace, Intact
<1>14. CASE UNCHANGED downloadVars
  BY <1>14 DEF downloadVars, bounds, Intact
<1> QED
  BY <1>1, <1>2, <1>3, <1>4, <1>5, <1>6, <1>7, <1>8, <1>9, <1>10, <1>11,
     <1>12, <1>13, <1>14 DEF DownloadNext, Downloader

LEMMA DownloadInvariance == DownloadSpec => []DownloadInv
BY InitDownload, NextDownload, PTL DEF DownloadSpec

(* .part never has a gap, a repetition or a shift (the resume offset and   *)
(* the open mode of download_artifact).                                    *)
THEOREM ResumedPartAligned == DownloadSpec => []PartAligned
<1>1. DownloadInv => PartAligned
  BY DEF DownloadInv, FilesKept, File, Aligned, PartAligned
<1> QED
  BY <1>1, DownloadInvariance, PTL

(* An aligned file of the declared size is the registered file when no     *)
(* other version was ever served; a file of the declared hash always is    *)
(* (_verify_part).                                                         *)
LEMMA IntactIsWhole ==
  ASSUME HasChecksum \/ (HasBytes /\ Version = {Registered}),
         NEW file \in File, Intact(file)
  PROVE  file = Whole(Registered)
<1>1. CASE HasChecksum
  BY <1>1 DEF Intact
<1>2. CASE HasBytes /\ Version = {Registered}
  <2>1. file \in Seq(Block) /\ Len(file) = SizeOf[Registered]
    BY <1>2 DEF Intact, File
  <2>2. file = [k \in 1 .. SizeOf[Registered] |-> file[k]]
    BY <2>1
  <2>3. ASSUME NEW k \in 1 .. SizeOf[Registered]
        PROVE  file[k] = [version |-> Registered, index |-> k]
    <3>1. file[k] \in Block
      BY <2>1, <2>3
    <3>2. file[k].version = Registered
      BY <1>2, <3>1 DEF Block
    <3>3. file[k].index = k
      BY <2>1, <2>3 DEF File, Aligned
    <3> QED
      BY <3>1, <3>2, <3>3 DEF Block
  <2> QED
    BY <2>2, <2>3 DEF Whole
<1> QED
  BY <1>1, <1>2

(* Success means the registered file, whole, at the final path: with a     *)
(* declared hash whatever the server does, with a declared byte count      *)
(* alone as long as the URL only ever served one version.                  *)
THEOREM SuccessLeavesWholeFile ==
  ASSUME HasChecksum \/ (HasBytes /\ Version = {Registered})
  PROVE  DownloadSpec => []SuccessIsWhole
<1>1. DownloadInv => SuccessIsWhole
  <2> SUFFICES ASSUME DownloadInv, step = "done" PROVE destination = {Whole(Registered)}
    BY DEF SuccessIsWhole
  <2>1. PICK file \in destination : Intact(file)
    BY DEF DownloadInv, Succeeded
  <2>2. file = Whole(Registered)
    BY <2>1, IntactIsWhole DEF DownloadInv, FilesKept
  <2> QED
    BY <2>1, <2>2 DEF DownloadInv, Single
<1> QED
  BY <1>1, DownloadInvariance, PTL

(* The final path only ever goes from a file that fails verification to    *)
(* one that passes it (_existing_result, _verify_part and os.replace in    *)
(* download_artifact).                                                     *)
THEOREM FinalPathVerified == DownloadSpec => OnlyVerifiedReplaces
<1> DEFINE Replaced ==
      /\ \A file \in destination : ~Intact(file)
      /\ \A file \in destination' : Intact(file)
<1>1. DownloadInv /\ [DownloadNext]_downloadVars
        => [destination' # destination => Replaced]_downloadVars
  <2> SUFFICES ASSUME DownloadInv, DownloadNext, destination' # destination PROVE Replaced
    BY DEF downloadVars
  <2>1. Promote
    BY DEF DownloadNext, Downloader, Run, Begin, PartialContent, FullContent,
       RangeNotSatisfiable, Receive, EndOfBody, Verify, BreakOff, EndEarly, Die, Replace
  <2>2. \A file \in destination : ~Intact(file)
    BY <2>1 DEF DownloadInv, NotReusable, Promote, Down
  <2>3. Intact(part)
    BY <2>1 DEF DownloadInv, Promotable, Promote
  <2> QED
    BY <2>1, <2>2, <2>3 DEF Promote
<1> QED
  BY <1>1, DownloadInvariance, PTL DEF DownloadSpec, OnlyVerifiedReplaces

-----------------------------------------------------------------------------
\* Real-agent plan coverage.

\* The attempts that the records, or the process, know of.
Logged ==
  [c \in Cells |-> IF c \in DOMAIN responses THEN responses[c].attempts
                   ELSE IF c = current THEN attempts ELSE 0]

Beyond(bill, log) == IF bill > log THEN bill - log ELSE 0

Excess == [c \in Cells |-> Beyond(billed[c], Logged[c])]

\* BilledIsLogged, with the table of its sum at hand.
Accounted ==
  \E h \in [SUBSET Cells -> Int] :
    Unfolds(h, Excess, Cells) /\ h[Cells] <= crashes * (Retries + 1)

\* The process works on a cell that has no judged record yet.
Working ==
  /\ pc \in Phases
  /\ pc # "idle" => config \in Configs
  /\ pc \in {"asking", "persisting", "judging"} => current \in Cells /\ current \notin DOMAIN cells
  /\ index \in Nat \ {0}
  /\ billed \in [Cells -> Nat] /\ crashes \in Nat

\* An answer is asked for only where none is persisted, and judged as it was persisted.
Standing ==
  /\ DOMAIN responses \subseteq Cells
  /\ pc \in {"asking", "persisting"} => current \notin DOMAIN responses
  /\ pc = "judging" => current \in DOMAIN responses /\ response = responses[current]

\* The attempts are those of this process and this cell.
Counted ==
  /\ attempts \in 0 .. Retries + 1
  /\ pc \in {"idle", "cells"} => attempts = 0
  /\ pc = "asking" => attempts <= Retries
  /\ pc = "persisting" => response.attempts = attempts
  /\ \A c \in DOMAIN responses : responses[c].attempts \in Nat

AgentInv == Working /\ Standing /\ Counted /\ EvidenceImmutable

USE AgentAssumption

\* The loop is at a cell of its configuration.
LEMMA LoopingCell ==
  ASSUME AgentInv, Looping
  PROVE  config.cells[index] \in Cells
<1>1. config.cells \in Seq(Cells) /\ index \in Nat \ {0} /\ index <= Len(config.cells)
  BY DEF AgentInv, Working, Looping
<1> QED BY <1>1

LEMMA InitAgent == Init => AgentInv
BY DEF Init, AgentInv, Working, Standing, Counted, EvidenceImmutable, Phases, Empty

(* Each step keeps the invariant, one step of the proof for each action.   *)
LEMMA NextAgent == AgentInv /\ [Next]_vars => AgentInv'
<1> SUFFICES ASSUME AgentInv, [Next]_vars PROVE AgentInv'
  OBVIOUS
<1> USE DEF AgentInv, Working, Standing, Counted, Phases
<1>1. ASSUME NEW c \in Configs, Start(c) PROVE AgentInv'
  BY <1>1 DEF Start, disk, EvidenceImmutable
<1>2. CASE StartCell
  <2>1. current' \in Cells \ DOMAIN cells
    BY <1>2, LoopingCell DEF StartCell
  <2> QED BY <1>2, <2>1 DEF StartCell, Looping, disk, EvidenceImmutable
<1>3. CASE Answered
  BY <1>3 DEF Answered, Bill, disk, EvidenceImmutable
<1>4. CASE Unanswered
  <2>1. billed' \in [Cells -> Nat]
    BY <1>4 DEF Unanswered, Bill
  <2> QED BY <1>4, <2>1 DEF Unanswered, disk, EvidenceImmutable
<1>5. CASE Persist
  <2> USE <1>5 DEF Persist
  <2>1. DOMAIN responses' = DOMAIN responses \cup {current} /\ responses'[current] = response
    BY DEF Put
  <2>2. \A c \in DOMAIN responses : c # current /\ responses'[c] = responses[c]
    BY DEF Put
  <2>3. Working' /\ Standing'
    BY <2>1
  <2>4. Counted'
    BY <2>1, <2>2
  <2>5. EvidenceImmutable'
    BY <2>1, <2>2 DEF EvidenceImmutable
  <2> QED BY <2>3, <2>4, <2>5
<1>6. CASE Judge
  <2> USE <1>6 DEF Judge, NextCell
  <2>1. /\ DOMAIN cells' = DOMAIN cells \cup {current}
        /\ cells'[current].response = response
        /\ \A c \in DOMAIN cells : c # current /\ cells'[c] = cells[c]
    <3>1. PICK record : cells' = Put(cells, current, record) /\ record.response = response
      OBVIOUS
    <3> QED BY <3>1 DEF Put
  <2>2. Working' /\ Standing' /\ Counted'
    OBVIOUS
  <2>3. EvidenceImmutable'
    BY <2>1 DEF EvidenceImmutable
  <2> QED BY <2>2, <2>3
<1>7. CASE Summarize
  BY <1>7 DEF Summarize, End, EvidenceImmutable
<1>8. CASE Analyze
  BY <1>8 DEF Analyze, process, EvidenceImmutable
<1>9. CASE Crash
  BY <1>9 DEF Crash, End, disk, EvidenceImmutable
<1>10. CASE UNCHANGED vars
  BY <1>10 DEF vars, disk, process, EvidenceImmutable
<1>11. CASE SkipCell
  BY <1>11 DEF SkipCell, disk, EvidenceImmutable
<1> QED BY <1>1, <1>2, <1>3, <1>4, <1>5, <1>6, <1>7, <1>8, <1>9, <1>10, <1>11 DEF Next, Process

LEMMA BeyondGrows ==
  ASSUME NEW b \in Nat, NEW l \in Nat, NEW b2 \in Nat, NEW l2 \in Nat, NEW d \in Nat,
         b2 + l <= b + l2 + d
  PROVE  Beyond(b2, l2) <= Beyond(b, l) + d
BY DEF Beyond

\* What is billed beyond the records is a natural number for each cell.
LEMMA ExcessType ==
  ASSUME AgentInv
  PROVE  Logged \in [Cells -> Nat] /\ Excess \in [Cells -> Nat]
<1>1. Logged \in [Cells -> Nat]
  BY DEF AgentInv, Counted, Logged
<1>2. \A c \in Cells : billed[c] \in Nat /\ Logged[c] \in Nat
  BY <1>1 DEF AgentInv, Working
<1>3. \A b, l \in Nat : Beyond(b, l) \in Nat
  BY DEF Beyond
<1> QED BY <1>1, <1>2, <1>3 DEF Excess

\* The attempts a crash of this step loses.
Lost == IF crashes' = crashes THEN 0 ELSE Retries + 1

(* A step bills no cell more than it logs, but for a crash, which loses    *)
(* the attempts of the cell that was being asked.                          *)
LEMMA BilledWithLogged ==
  ASSUME AgentInv, [Next]_vars
  PROVE  /\ crashes' \in {crashes, crashes + 1}
         /\ \A y \in Cells :
              billed'[y] + Logged[y] <= billed[y] + Logged'[y] + (IF y = current THEN Lost ELSE 0)
<1>0. /\ \A y \in Cells : billed[y] \in Nat /\ Logged[y] \in Nat
      /\ crashes \in Nat /\ attempts \in Nat /\ Retries \in Nat
  BY ExcessType DEF AgentInv, Working, Counted
<1> DEFINE Goal == /\ crashes' \in {crashes, crashes + 1}
                   /\ \A y \in Cells : billed'[y] + Logged[y] <=
                        billed[y] + Logged'[y] + (IF y = current THEN Lost ELSE 0)
<1>1. ASSUME crashes' = crashes, billed' = billed, \A y \in Cells : Logged'[y] = Logged[y]
      PROVE  Goal
  BY <1>0, <1>1 DEF Lost
<1> USE DEF AgentInv, Working, Standing, Counted
<1>2. ASSUME NEW c \in Configs, Start(c) PROVE Goal
  BY <1>1, <1>2 DEF Start, disk, Logged
<1>3. CASE StartCell
  BY <1>1, <1>3 DEF StartCell, Looping, disk, Logged
<1>4. CASE Answered
  <2>1. /\ crashes' = crashes /\ Lost = 0
        /\ \A y \in Cells : IF y = current THEN billed'[y] = billed[y] + 1 /\ Logged'[y] = Logged[y] + 1
                            ELSE billed'[y] = billed[y] /\ Logged'[y] = Logged[y]
    BY <1>4 DEF Answered, Bill, disk, Logged, Lost
  <2> QED BY <1>0, <2>1
<1>5. CASE Unanswered
  <2>1. /\ crashes' = crashes /\ Lost = 0
        /\ \A y \in Cells :
             IF y = current
             THEN billed'[y] \in {billed[y], billed[y] + 1} /\ Logged'[y] = Logged[y] + 1
             ELSE billed'[y] = billed[y] /\ Logged'[y] = Logged[y]
    BY <1>5 DEF Unanswered, Bill, disk, Logged, Lost
  <2> QED BY <1>0, <2>1
<1>6. CASE Persist
  BY <1>1, <1>6 DEF Persist, Put, Logged
<1>7. CASE Judge
  BY <1>1, <1>7 DEF Judge, NextCell, Logged
<1>8. CASE Summarize
  BY <1>1, <1>8 DEF Summarize, End, Logged
<1>9. CASE Analyze
  BY <1>1, <1>9 DEF Analyze, process, Logged
<1>10. CASE Crash
  <2>1. /\ crashes' = crashes + 1 /\ Lost = Retries + 1
        /\ \A y \in Cells : /\ billed'[y] = billed[y] /\ Logged'[y] \in Nat
                            /\ IF y = current THEN Logged[y] <= Logged'[y] + Retries + 1
                               ELSE Logged'[y] = Logged[y]
    <3>1. /\ crashes' = crashes + 1 /\ billed' = billed /\ responses' = responses /\ attempts' = 0
      BY <1>10 DEF Crash, End, disk
    <3>2. Lost = Retries + 1
      BY <1>0, <3>1 DEF Lost
    <3>3. \A y \in Cells :
            /\ Logged[y] = IF y \in DOMAIN responses THEN responses[y].attempts
                           ELSE IF y = current THEN attempts ELSE 0
            /\ Logged'[y] = IF y \in DOMAIN responses THEN responses[y].attempts ELSE 0
      BY <3>1 DEF Logged
    <3>4. attempts <= Retries + 1
      OBVIOUS
    <3>5. ASSUME NEW y \in Cells
          PROVE  /\ Logged'[y] \in Nat
                 /\ IF y = current THEN Logged[y] <= Logged'[y] + Retries + 1
                    ELSE Logged'[y] = Logged[y]
      <4>1. CASE y \in DOMAIN responses
        <5>1. Logged'[y] = Logged[y] /\ Logged[y] \in Nat
          BY <1>0, <3>3, <4>1
        <5> QED BY <1>0, <5>1
      <4>2. CASE y \notin DOMAIN responses
        <5>1. Logged'[y] = 0 /\ Logged[y] = IF y = current THEN attempts ELSE 0
          BY <3>3, <4>2
        <5> QED BY <1>0, <3>4, <5>1
      <4> QED BY <4>1, <4>2
    <3>6. \A y \in Cells : billed'[y] = billed[y]
      BY <3>1
    <3> QED BY <3>1, <3>2, <3>5, <3>6, Zenon
  <2> QED BY <1>0, <2>1
<1>11. CASE UNCHANGED vars
  BY <1>1, <1>11 DEF vars, disk, process, Logged
<1>12. CASE SkipCell
  BY <1>1, <1>12 DEF SkipCell, disk, Logged
<1> QED BY <1>2, <1>3, <1>4, <1>5, <1>6, <1>7, <1>8, <1>9, <1>10, <1>11, <1>12
         DEF Next, Process

LEMMA InitAccounted == Init => Accounted
<1> SUFFICES ASSUME Init PROVE Accounted
  OBVIOUS
<1>1. AgentInv /\ Excess \in [Cells -> Int]
  BY InitAgent, ExcessType
<1>2. PICK h \in [SUBSET Cells -> Int] : Unfolds(h, Excess, Cells)
  BY <1>1, UnfoldsExists
<1>3. \A c \in Cells : Excess[c] = 0
  BY DEF Init, Excess, Beyond, Logged, Empty
<1>4. h[Cells] = 0
  BY <1>2, <1>3, SumOfZeros
<1>5. crashes * (Retries + 1) = 0
  BY DEF Init
<1> QED BY <1>2, <1>4, <1>5 DEF Accounted

LEMMA NextAccounted ==
  AgentInv /\ AgentInv' /\ Accounted /\ [Next]_vars => Accounted'
<1> SUFFICES ASSUME AgentInv, AgentInv', Accounted, [Next]_vars PROVE Accounted'
  OBVIOUS
<1>1. PICK h \in [SUBSET Cells -> Int] :
        Unfolds(h, Excess, Cells) /\ h[Cells] <= crashes * (Retries + 1)
  BY DEF Accounted
<1>2. /\ Logged \in [Cells -> Nat] /\ Excess \in [Cells -> Int] /\ billed \in [Cells -> Nat]
      /\ Logged' \in [Cells -> Nat] /\ Excess' \in [Cells -> Int] /\ billed' \in [Cells -> Nat]
  <2>1. Logged \in [Cells -> Nat] /\ Excess \in [Cells -> Nat]
    BY ExcessType
  <2>2. (Logged \in [Cells -> Nat] /\ Excess \in [Cells -> Nat])'
    BY ExcessType, PTL
  <2> QED BY <2>1, <2>2 DEF AgentInv, Working
<1>3. PICK k \in [SUBSET Cells -> Int] : Unfolds(k, Excess', Cells)
  BY <1>2, UnfoldsExists
<1>4. crashes' \in {crashes, crashes + 1} /\ crashes \in Nat /\ Retries \in Nat /\ Lost \in Nat
  BY BilledWithLogged DEF Lost, AgentInv, Working
<1>5. \A y \in Cells : Excess'[y] <= Excess[y] + (IF y = current THEN Lost ELSE 0)
  <2> SUFFICES ASSUME NEW y \in Cells
               PROVE  Excess'[y] <= Excess[y] + (IF y = current THEN Lost ELSE 0)
    OBVIOUS
  <2>1. billed'[y] + Logged[y] <= billed[y] + Logged'[y] + (IF y = current THEN Lost ELSE 0)
    BY BilledWithLogged
  <2>2. Excess[y] = Beyond(billed[y], Logged[y]) /\ Excess'[y] = Beyond(billed'[y], Logged'[y])
    BY DEF Excess
  <2> QED BY <1>2, <1>4, <2>1, <2>2, BeyondGrows
<1>6. PICK f, g, x, d : f = Excess' /\ g = Excess /\ x = current /\ d = Lost
  OBVIOUS
<1>7. k[Cells] <= h[Cells] + d
  <2>1. GrowsAt(f, g, Cells, x, d)
    BY <1>4, <1>5, <1>6 DEF GrowsAt
  <2>2. SumTable(k, f, Cells) /\ SumTable(h, g, Cells)
    BY <1>1, <1>2, <1>3, <1>6 DEF SumTable
  <2> QED BY <2>1, <2>2, SumGrowsBy
<1>8. PICK m, n \in Int : m = crashes * (Retries + 1) /\ n = crashes' * (Retries + 1)
  <2>1. \A c, r \in Nat : c * (r + 1) \in Int
    OBVIOUS
  <2>2. crashes \in Nat /\ crashes' \in Nat /\ Retries \in Nat
    BY <1>4
  <2>3. crashes * (Retries + 1) \in Int /\ crashes' * (Retries + 1) \in Int
    BY <2>1, <2>2, Zenon
  <2> QED BY <2>3, Zenon
<1>9. n = m + d
  <2>1. CASE crashes' = crashes
    BY <1>4, <1>6, <1>8, <2>1 DEF Lost
  <2>2. CASE crashes' = crashes + 1
    <3>1. d = Retries + 1
      BY <1>4, <1>6, <2>2 DEF Lost
    <3>2. \A c, r \in Nat : (c + 1) * (r + 1) = c * (r + 1) + (r + 1)
      OBVIOUS
    <3>3. (crashes + 1) * (Retries + 1) = crashes * (Retries + 1) + (Retries + 1)
      BY <1>4, <3>2, Zenon
    <3>4. n = (crashes + 1) * (Retries + 1)
      BY <1>8, <2>2, Zenon
    <3>5. n = m + (Retries + 1)
      BY <1>8, <3>3, <3>4, Zenon
    <3> QED BY <3>1, <3>5, Zenon
  <2> QED BY <1>4, <2>1, <2>2
<1>10. h[Cells] \in Int /\ k[Cells] \in Int /\ h[Cells] <= m
  <2>1. h[Cells] \in Int /\ k[Cells] \in Int
    BY Cells \in SUBSET Cells
  <2> QED BY <1>1, <1>8, <2>1, Zenon
<1>11. k[Cells] <= n
  BY <1>4, <1>6, <1>7, <1>9, <1>10
<1>12. k[Cells] <= crashes' * (Retries + 1)
  BY <1>8, <1>11, Zenon
<1> QED BY <1>3, <1>12 DEF Accounted

\* The sum of the property is the last entry of the table.
LEMMA BilledFromAccounted == AgentInv /\ Accounted => BilledIsLogged
<1> SUFFICES ASSUME AgentInv, Accounted PROVE BilledIsLogged
  OBVIOUS
<1>1. PICK h \in [SUBSET Cells -> Int] :
        Unfolds(h, Excess, Cells) /\ h[Cells] <= crashes * (Retries + 1)
  BY DEF Accounted
<1> DEFINE logged(c) == IF c \in DOMAIN responses THEN responses[c].attempts
                        ELSE IF c = current THEN attempts ELSE 0
           excess(c) == IF billed[c] > logged(c) THEN billed[c] - logged(c) ELSE 0
           D(k) == [s \in SUBSET Cells |->
                      IF s = {} THEN 0
                      ELSE excess(CHOOSE x \in s : TRUE) + k[s \ {CHOOSE x \in s : TRUE}]]
           iter == CHOOSE k : k = D(k)
<1>2. \A k : D(k) = [s \in SUBSET Cells |-> IF s = {} THEN 0
                                            ELSE Excess[Pick(s)] + k[s \ {Pick(s)}]]
  <2>1. \A c \in Cells : excess(c) = Excess[c]
    BY DEF Excess, Beyond, Logged
  <2>2. \A s \in SUBSET Cells : s # {} => Pick(s) \in Cells
    BY PickIn
  <2> HIDE DEF excess
  <2> QED BY <2>1, <2>2 DEF Pick
<1>3. MapThenSumSet(excess, Cells) = iter[Cells]
  BY DEF MapThenSumSet, MapThenFoldSet
<1>4. BilledIsLogged <=> iter[Cells] <= crashes * (Retries + 1)
  BY DEF BilledIsLogged, MapThenSumSet, MapThenFoldSet
<1>5. Unfolds(iter, Excess, Cells)
  <2>1. h = D(h)
    BY <1>1, <1>2 DEF Unfolds
  <2>2. iter = D(iter)
    <3> HIDE DEF D
    <3> QED BY <2>1
  <2> HIDE DEF D, iter
  <2> QED BY <1>2, <2>2 DEF Unfolds
<1> HIDE DEF iter
<1>6. iter[Cells] = h[Cells]
  <2>1. PICK f : f = Excess
    OBVIOUS
  <2>2. PICK i : i = iter
    OBVIOUS
  <2>3. Unfolds(i, f, Cells) /\ Unfolds(h, f, Cells)
    BY <1>1, <1>5, <2>1, <2>2
  <2>4. \A t \in SUBSET Cells : i[t] = h[t]
    BY <2>3, UnfoldsAgree
  <2> QED BY <2>2, <2>4, Cells \in SUBSET Cells
<1> QED BY <1>1, <1>4, <1>6
-----------------------------------------------------------------------------
\* Both parts of the invariant hold of every behaviour.
LEMMA AgentInvariant == Spec => [](AgentInv /\ Accounted)
BY InitAgent, NextAgent, InitAccounted, NextAccounted, PTL DEF Spec

(* However often a run dies and is resumed, with whichever configuration,  *)
(* what a provider charged beyond the logged attempts is bounded by what a *)
(* crash can lose: the attempts of the one cell that was being asked.      *)
THEOREM AlwaysLogged == Spec => []BilledIsLogged
BY AgentInvariant, BilledFromAccounted, PTL

(* A persisted answer is never replaced, and its cell never billed again:  *)
(* a cell is only asked or written while it has no file (Standing).        *)
THEOREM AnswersStand == Spec => AnswerStands
<1> DEFINE Stands == \A c \in DOMAIN responses :
                       /\ c \in DOMAIN responses' /\ responses'[c] = responses[c]
                       /\ billed'[c] = billed[c]
<1>1. AgentInv /\ [Next]_vars => [Stands]_vars
  <2> SUFFICES ASSUME AgentInv, [Next]_vars PROVE Stands \/ UNCHANGED vars
    OBVIOUS
  <2> USE DEF AgentInv, Working, Standing
  <2>1. ASSUME responses' = responses, billed' = billed PROVE Stands
    BY <2>1
  <2>2. ASSUME responses' = responses, pc = "asking", Bill \/ billed' = billed PROVE Stands
    BY <2>2 DEF Bill
  <2>3. CASE Persist
    BY <2>3 DEF Persist, Put
  <2>4. CASE Answered \/ Unanswered
    BY <2>2, <2>4 DEF Answered, Unanswered, disk
  <2>5. ASSUME NEW c \in Configs, Start(c) PROVE Stands
    BY <2>1, <2>5 DEF Start, disk
  <2>6. CASE SkipCell \/ StartCell \/ Judge \/ Summarize \/ Analyze \/ Crash
    BY <2>1, <2>6 DEF SkipCell, StartCell, Judge, Summarize, Analyze, Crash, disk
  <2> QED BY <2>3, <2>4, <2>5, <2>6 DEF Next, Process
<1> QED BY <1>1, AgentInvariant, PTL DEF AnswerStands, Spec

(* What a summary or an analysis was computed from is never judged again.  *)
THEOREM EvidenceStands == Spec => []EvidenceImmutable
BY AgentInvariant, PTL DEF AgentInv

(* The loop has left a judged record behind at every position it passed,   *)
(* and works on the cell at its position.                                  *)
PassedOver ==
  /\ pc # "idle" =>
       \A i \in DOMAIN config.cells : i < index => config.cells[i] \in DOMAIN cells
  /\ pc \in {"asking", "persisting", "judging"} => current = config.cells[index]
  /\ pc = "idle" => index = 1

\* The judged cells are cells of the experiment: finitely many.
Judged == DOMAIN cells \subseteq Cells

LEMMA NextJudged == AgentInv /\ Judged /\ [Next]_vars => Judged'
<1> SUFFICES ASSUME AgentInv, Judged, [Next]_vars PROVE Judged'
  OBVIOUS
<1>1. CASE Judge
  <2>1. PICK record : cells' = Put(cells, current, record)
    BY <1>1 DEF Judge
  <2> QED BY <1>1, <2>1 DEF Judge, Put, Judged, AgentInv, Working
<1>2. ASSUME cells' = cells PROVE Judged'
  BY <1>2 DEF Judged
<1> QED
  BY <1>1, <1>2 DEF Next, Process, Start, SkipCell, StartCell, Answered, Unanswered, Persist,
                    Summarize, Analyze, Crash, vars, disk

LEMMA NextPassedOver == AgentInv /\ PassedOver /\ [Next]_vars => PassedOver'
<1> SUFFICES ASSUME AgentInv, PassedOver, [Next]_vars PROVE PassedOver'
  OBVIOUS
<1> USE DEF AgentInv, Working, PassedOver
<1>1. ASSUME NEW c \in Configs, Start(c) PROVE PassedOver'
  <2>1. index' = 1 /\ config' = c /\ pc' = "cells" /\ c.cells \in Seq(Cells)
    BY <1>1 DEF Start
  <2>2. \A i \in DOMAIN c.cells : ~(i < 1)
    BY <2>1
  <2> QED BY <2>1, <2>2
<1>2. CASE SkipCell
  BY <1>2 DEF SkipCell, Looping, disk
<1>3. CASE Judge
  <2>1. /\ DOMAIN cells' = DOMAIN cells \cup {current}
        /\ current = config.cells[index] /\ index' = index + 1
        /\ config' = config /\ pc' = "cells"
    BY <1>3 DEF Judge, NextCell, Put
  <2>2. config.cells \in Seq(Cells)
    BY <1>3 DEF Judge
  <2>3. \A i \in DOMAIN config.cells : i < index + 1 => i < index \/ i = index
    BY <2>2
  <2> QED BY <1>3, <2>1, <2>3 DEF Judge
<1>4. CASE Summarize \/ Crash
  BY <1>4 DEF Summarize, Crash, End
<1>5. CASE StartCell
  BY <1>5 DEF StartCell, Looping, disk
<1>6. CASE Answered \/ Unanswered \/ Persist \/ Analyze \/ UNCHANGED vars
  BY <1>6 DEF Answered, Unanswered, Persist, Analyze, vars, disk, process
<1> QED BY <1>1, <1>2, <1>3, <1>4, <1>5, <1>6 DEF Next, Process

\* With as many answers as records, every record has an answer.
LEMMA PassedIsAnswered ==
  ASSUME AgentInv, Judged, NEW n \in Nat, Passed(cells, n)
  PROVE  \A c \in DOMAIN cells : cells[c].response.status = "SUCCESS"
<1> DEFINE Answers == {c \in DOMAIN cells : cells[c].response.status = "SUCCESS"}
<1>1. IsFiniteSet(DOMAIN cells)
  BY FS_Subset, AgentAssumption DEF Judged
<1>2. Answers \subseteq DOMAIN cells /\ Cardinality(Answers) = Cardinality(DOMAIN cells)
  BY DEF Passed
<1>3. Answers = DOMAIN cells
  BY <1>1, <1>2, FS_Subset, Zenon
<1> QED BY <1>3

LEMMA NextReported ==
  ASSUME AgentInv, Judged, PassedOver, FailuresReported, [Next]_vars
  PROVE  FailuresReported'
<1>1. CASE Summarize
  <2>1. config \in Configs /\ config.cells \in Seq(Cells)
    BY <1>1 DEF Summarize, AgentInv, Working
  <2>2. /\ summary'.records = cells /\ summary'.cells = CellsOf(config)
        /\ summary'.passed = Passed(cells, Len(config.cells))
    BY <1>1 DEF Summarize
  <2>3. CellsOf(config) \subseteq DOMAIN cells
    <3>1. \A i \in DOMAIN config.cells : i < index
      BY <1>1, <2>1 DEF Summarize, Looping, AgentInv, Working
    <3> QED BY <1>1, <3>1 DEF Summarize, PassedOver, CellsOf
  <2>4. Len(config.cells) \in Nat
    BY <2>1
  <2>5. summary'.passed => \A c \in DOMAIN cells : cells[c].response.status = "SUCCESS"
    BY <2>2, <2>4, PassedIsAnswered
  <2> QED BY <2>2, <2>3, <2>5 DEF FailuresReported
<1>2. ASSUME summary' = summary PROVE FailuresReported'
  BY <1>2 DEF FailuresReported
<1> QED
  BY <1>1, <1>2 DEF Next, Process, Start, SkipCell, StartCell, Answered, Unanswered, Persist,
                    Judge, Analyze, Crash, vars, disk

(* No summary leaves a cell of its configuration out, or passes with a     *)
(* failed one: the loop records a cell at every position it passes, and    *)
(* the run's records are as many as its answers only when none failed.     *)
THEOREM AlwaysReportsFailures == Spec => []FailuresReported
<1>1. Init => Judged /\ PassedOver /\ FailuresReported
  BY DEF Init, Judged, PassedOver, FailuresReported, Empty
<1>2. /\ AgentInv /\ Judged /\ PassedOver /\ FailuresReported
      /\ [Next]_vars
      => (Judged /\ PassedOver /\ FailuresReported)'
  BY NextJudged, NextPassedOver, NextReported
<1> QED BY <1>1, <1>2, AgentInvariant, PTL DEF Spec
=============================================================================
