------------------------------- MODULE Download -------------------------------
(***************************************************************************)
(* One artifact's acquisition: download_artifact (src/trustaero/data/      *)
(* download.py) inside the retry loop of scripts/download_datasets.py.     *)
(* The final file and the .part file outlive the process, which may die    *)
(* between any two steps and be run again.  The server may ignore a Range  *)
(* header, break a transfer, end a body early without an error (read with  *)
(* a chunk size, the HTTP client does not raise for a short body), or have *)
(* replaced the file by another version.                                   *)
(*                                                                         *)
(* A file is a sequence of blocks [version, index].                        *)
(***************************************************************************)
EXTENDS Integers, Sequences

CONSTANTS Version,      \* contents the URL has served
          SizeOf,       \* blocks in each version
          Registered,   \* the version the registry entry was made from
          HasBytes,     \* the entry declares expected_bytes
          HasChecksum,  \* the entry declares expected_sha256
          FetchRetries, \* retries of one script run
          MaxFaults,    \* bound: broken or shortened transfers
          MaxDeaths,    \* bound: times the process dies
          MaxChanges    \* bound: times the remote file is replaced

ASSUME DownloadAssumption ==
  /\ SizeOf \in [Version -> Nat \ {0}]
  /\ Registered \in Version
  /\ {HasBytes, HasChecksum} \subseteq BOOLEAN
  /\ {FetchRetries, MaxFaults, MaxDeaths, MaxChanges} \subseteq Nat

VARIABLES remote,       \* the version the server has
          part,         \* the blocks of .part; a missing .part resumes as an empty one
          destination,  \* the final file, as a set of at most one file
          step,         \* where download_artifact is
          position,     \* blocks of the served file behind the body's reader
          attempt,      \* attempt number in _download_with_retries
          faults, deaths, changes

bounds == <<faults, deaths, changes>>

downloadVars == <<remote, part, destination, step, position, attempt, bounds>>

Block == [version : Version, index : Nat \ {0}]

Whole(v) == [k \in 1 .. SizeOf[v] |-> [version |-> v, index |-> k]]

\* Where no process is running.
Down == {"stopped", "failed", "done"}

(* An earlier registry entry may have left another version in place.       *)
DownloadInit ==
  /\ remote \in Version
  /\ part = <<>>
  /\ destination \in {{}} \cup {{Whole(v)} : v \in Version}
  /\ step = "stopped"
  /\ position = 0
  /\ attempt = 0
  /\ faults = 0 /\ deaths = 0 /\ changes = 0

\* _verify_part: what the registry entry does not declare is not checked.
Intact(file) ==
  /\ HasBytes => Len(file) = SizeOf[Registered]
  /\ HasChecksum => file = Whole(Registered)

Run ==
  /\ step \in Down
  /\ step' = "begin"
  /\ attempt' = 1
  /\ UNCHANGED <<remote, part, destination, position, bounds>>

\* DownloadError: the loop tries again until its retries are used up.
Fail ==
  /\ step' = IF attempt > FetchRetries THEN "failed" ELSE "begin"
  /\ attempt' = IF attempt > FetchRetries THEN attempt ELSE attempt + 1

\* A final file that still verifies is reused; otherwise ask for what .part misses.
Begin ==
  /\ step = "begin"
  /\ step' = IF \E file \in destination : Intact(file) THEN "done" ELSE "request"
  /\ UNCHANGED <<remote, part, destination, position, attempt, bounds>>

\* 206: the body starts where .part ends, and is appended to it.
PartialContent ==
  /\ step = "request"
  /\ Len(part) \in 1 .. SizeOf[remote] - 1
  /\ step' = "stream"
  /\ position' = Len(part)
  /\ UNCHANGED <<remote, part, destination, attempt, bounds>>

\* Mutant of FullContent: a body sent from the start is appended too.
AppendedContent ==
  /\ step = "request"
  /\ step' = "stream"
  /\ position' = 0
  /\ UNCHANGED <<remote, part, destination, attempt, bounds>>

\* 200: no range was asked for, or it was ignored; .part is overwritten.
FullContent ==
  /\ step = "request"
  /\ step' = "stream"
  /\ position' = 0
  /\ part' = <<>>
  /\ UNCHANGED <<remote, destination, attempt, bounds>>

\* 416: nothing follows .part; urlopen raises HTTPError and .part stays.
RangeNotSatisfiable ==
  /\ step = "request"
  /\ part # <<>> /\ Len(part) >= SizeOf[remote]
  /\ Fail
  /\ UNCHANGED <<remote, part, destination, position, bounds>>

Receive ==
  /\ step = "stream"
  /\ position < SizeOf[remote]
  /\ part' = Append(part, [version |-> remote, index |-> position + 1])
  /\ position' = position + 1
  /\ UNCHANGED <<remote, destination, step, attempt, bounds>>

EndOfBody ==
  /\ step = "stream"
  /\ position = SizeOf[remote]
  /\ step' = "verify"
  /\ UNCHANGED <<remote, part, destination, position, attempt, bounds>>

(* The connection breaks: once the announced length has been read the      *)
(* client no longer looks at the socket.                                   *)
BreakOff ==
  /\ \/ step = "request"
     \/ step = "stream" /\ position < SizeOf[remote]
  /\ faults < MaxFaults
  /\ faults' = faults + 1
  /\ Fail
  /\ UNCHANGED <<remote, part, destination, position, deaths, changes>>

\* The body ends early and the loop over its chunks simply ends.
EndEarly ==
  /\ step = "stream"
  /\ position < SizeOf[remote]
  /\ faults < MaxFaults
  /\ faults' = faults + 1
  /\ step' = "verify"
  /\ UNCHANGED <<remote, part, destination, position, attempt, deaths, changes>>

\* Mutant of Verify: the part is published whatever it holds.
Trust ==
  /\ step = "verify"
  /\ step' = "promote"
  /\ UNCHANGED <<remote, part, destination, position, attempt, bounds>>

Verify ==
  /\ step = "verify"
  /\ IF Intact(part) THEN step' = "promote" /\ UNCHANGED attempt ELSE Fail
  /\ UNCHANGED <<remote, part, destination, position, bounds>>

\* os.replace is atomic.
Promote ==
  /\ step = "promote"
  /\ destination' = {part}
  /\ part' = <<>>
  /\ step' = "done"
  /\ UNCHANGED <<remote, position, attempt, bounds>>

\* The process dies; the files stay as they are.
Die ==
  /\ step \notin Down
  /\ deaths < MaxDeaths
  /\ deaths' = deaths + 1
  /\ step' = "stopped"
  /\ UNCHANGED <<remote, part, destination, position, attempt, faults, changes>>

\* The publisher replaces the file; a body being sent is of the old version.
Replace ==
  /\ step # "stream"
  /\ changes < MaxChanges
  /\ changes' = changes + 1
  /\ remote' \in Version \ {remote}
  /\ UNCHANGED <<part, destination, step, position, attempt, faults, deaths>>

Downloader ==
  \/ Run \/ Begin \/ PartialContent \/ FullContent \/ RangeNotSatisfiable
  \/ Receive \/ EndOfBody \/ Verify \/ Promote

DownloadNext == Downloader \/ BreakOff \/ EndEarly \/ Die \/ Replace

DownloadSpec == DownloadInit /\ [][DownloadNext]_downloadVars

(* The process keeps going and is run again once it has stopped; faults,   *)
(* crashes and changes need not happen, and the server may answer with any *)
(* status that fits the request.                                           *)
FairDownloadSpec == DownloadSpec /\ WF_downloadVars(Downloader)

-----------------------------------------------------------------------------
(* Properties.                                                             *)

\* Types, and the attempt number within the loop of _download_with_retries.
DownloadTypeOK ==
  /\ remote \in Version
  /\ part \in Seq(Block)
  /\ destination \subseteq Seq(Block)
  /\ \A file, other \in destination : file = other
  /\ step \in Down \cup {"begin", "request", "stream", "verify", "promote"}
  /\ position \in Nat
  /\ attempt \in 0 .. FetchRetries + 1
  /\ {faults, deaths, changes} \subseteq Nat

(* However transfers were broken off and resumed, block k of .part is      *)
(* block k of what the server had when it was fetched: no gap, no          *)
(* repetition, no shift (write_offset and the open mode in                 *)
(* download_artifact).                                                     *)
PartAligned == \A k \in DOMAIN part : part[k].index = k

(* A download that reports success leaves the registered file, whole, at   *)
(* its final path: always when a checksum is declared, and with a byte     *)
(* count alone when the publisher never replaces the file.                 *)
SuccessIsWhole == step = "done" => destination = {Whole(Registered)}

(* The final path changes only from a file that fails verification to one  *)
(* that passes: a good file is never touched again and a bad one is never  *)
(* put there ("the final path is never exposed before validation           *)
(* succeeds").                                                             *)
OnlyVerifiedReplaces ==
  [][destination' # destination =>
       /\ \A file \in destination : ~Intact(file)
       /\ \A file \in destination' : Intact(file)]_downloadVars

(* However often its transfers break off, a download of the registered     *)
(* version that no crash and no replacement disturbs succeeds in the end,  *)
(* whatever file it finds at its final path.                               *)
UndisturbedSucceeds ==
  remote = Registered => <>(step = "done" \/ deaths > 0 \/ changes > 0)

(* A download that is broken off is resumed until it succeeds (the retry   *)
(* loop and the Range request).                                            *)
EventuallySucceeds == <>(step = "done")
=============================================================================
