---------------------------- MODULE AtomicWrite ----------------------------
(***************************************************************************)
(* atomic_write (json_database/atomic.py) under process crashes and power     *)
(* loss, with readers that take no lock.  The lock lets one write run at a    *)
(* time, so the writes are numbered, and number v also names the temp file    *)
(* that write v makes, which becomes the database file if v replaces it.      *)
(*                                                                         *)
(* The system has two memories.  `target` and `bytes` are what running        *)
(* processes see; after a power loss a file whose data was not synced may     *)
(* hold anything, and the database path may name any file it has named since  *)
(* the directory was last synced.                                            *)
(***************************************************************************)
EXTENDS Naturals

CONSTANTS
  MaxWrites,        \* writes in a behaviour
  Readers,          \* processes that read the database file
  Attempts,         \* _WINDOWS_RETRY_ATTEMPTS
  DirCloseCanFail   \* os.close of the directory descriptor may raise

ASSUME AtomicWriteAssumption ==
  /\ MaxWrites \in Nat
  /\ Attempts \in Nat \ {0}
  /\ DirCloseCanFail \in BOOLEAN

Writes == 1..MaxWrites
Missing == 0

VARIABLES
  posix,        \* os.name # "nt"
  write,        \* the number of the current or last write
  pc,           \* where that write is
  kept,         \* existing_mode: the mode to re-apply, "none" when it is None
  tries,        \* attempts at os.replace
  result,       \* result[v]: what became of write v
  bytes,        \* bytes[v]: the data of v's file, as processes see it
  synced,       \* the writes whose file was fsynced when complete
  mode,         \* mode[v]: the permission bits of v's file
  had,          \* history: the modes of the database file while the write runs
  temps,        \* the writes whose temp name is in the directory
  unsettled,    \* those whose temp name came or went since the last directory sync
  revived,      \* history: those whose temp name a power loss brought back
  target,       \* the write whose file the database path names, or Missing
  survivors,    \* the writes the path may name after a power loss
  lapsed,       \* a directory sync was skipped or failed since the last good one
  fd,           \* fd[r]: the file that reader r has open, or Missing
  got           \* got[r]: the data r last read

vars == <<posix, write, pc, kept, tries, result, bytes, synced, mode, had, temps,
          unsettled, revived, target, survivors, lapsed, fd, got>>
readers == <<fd, got>>
modes == <<mode, had>>
names == <<temps, unsettled, revived>>
disk == <<target, survivors, lapsed>>

Data == {"absent", "empty", "part", "whole"}
Modes == {"private", "shared"}

TypeOK ==
  /\ posix \in BOOLEAN
  /\ write \in 0..MaxWrites
  /\ pc \in {"idle", "create", "write", "fsync", "chmod", "replace", "dirsync", "cleanup"}
  /\ kept \in Modes \cup {"none"}
  /\ tries \in 0..(Attempts - 1)
  /\ result \in [Writes -> {"none", "running", "ok", "failed", "littered", "crashed", "lost"}]
  /\ bytes \in [Writes -> Data]
  /\ synced \in SUBSET Writes
  /\ mode \in [Writes -> Modes]
  /\ had \in SUBSET Modes
  /\ temps \in SUBSET Writes
  /\ unsettled \in SUBSET Writes
  /\ revived \in SUBSET Writes
  /\ target \in Writes \cup {Missing}
  /\ survivors \in SUBSET (Writes \cup {Missing})
  /\ lapsed \in BOOLEAN
  /\ fd \in [Readers -> Writes \cup {Missing}]
  /\ got \in [Readers -> Data]

Init ==
  /\ posix \in BOOLEAN
  /\ write = 0
  /\ pc = "idle"
  /\ kept = "none"
  /\ tries = 0
  /\ result = [v \in Writes |-> "none"]
  /\ bytes = [v \in Writes |-> "absent"]
  /\ synced = {}
  /\ mode = [v \in Writes |-> "private"]
  /\ had = {}
  /\ temps = {}
  /\ unsettled = {}
  /\ revived = {}
  /\ target = Missing
  /\ survivors = {Missing}
  /\ lapsed = FALSE
  /\ fd = [r \in Readers |-> Missing]
  /\ got = [r \in Readers |-> "absent"]

-----------------------------------------------------------------------------
\* atomic_write(), step by step.  An OSError on the way goes to the finally clause.

Fill(data) == bytes' = [bytes EXCEPT ![write] = data]

End(r) ==
  /\ result' = [result EXCEPT ![write] = r]
  /\ had' = {}
  /\ pc' = "idle"

\* mkdir has succeeded; _existing_mode() finds no mode on Windows, for a missing
\* file, and when stat raises.
Begin ==
  /\ pc = "idle"
  /\ write < MaxWrites
  /\ write' = write + 1
  /\ kept' \in {"none"} \cup (IF posix /\ target # Missing THEN {mode[target]} ELSE {})
  /\ had' = IF target = Missing THEN {} ELSE {mode[target]}
  /\ result' = [result EXCEPT ![write'] = "running"]
  /\ tries' = 0
  /\ pc' = "create"
  /\ UNCHANGED <<posix, bytes, synced, mode, names, disk, readers>>

\* mkstemp fails: there is nothing to clean up.
CreateFails ==
  /\ pc = "create"
  /\ End("failed")
  /\ UNCHANGED <<posix, write, kept, tries, bytes, synced, mode, names, disk, readers>>

\* Variant of Create: the database file itself is opened for writing.
CreateInPlace ==
  /\ pc = "create"
  /\ Fill("empty")
  /\ target' = write
  /\ survivors' = survivors \cup {write}
  /\ pc' = "write"
  /\ UNCHANGED <<posix, write, kept, tries, result, synced, modes, names, lapsed, readers>>

\* mkstemp: a new file in the directory of the target, mode 0600.
Create ==
  /\ pc = "create"
  /\ temps' = temps \cup {write}
  /\ unsettled' = unsettled \cup {write}
  /\ Fill("empty")
  /\ pc' = "write"
  /\ UNCHANGED <<posix, write, kept, tries, result, synced, modes, revived, disk, readers>>

WritePart ==
  /\ pc = "write"
  /\ bytes[write] = "empty"
  /\ Fill("part")
  /\ UNCHANGED <<posix, write, pc, kept, tries, result, synced, modes, names, disk, readers>>

WriteRest ==
  /\ pc = "write"
  /\ Fill("whole")
  /\ pc' = "fsync"
  /\ UNCHANGED <<posix, write, kept, tries, result, synced, modes, names, disk, readers>>

\* Variant of Fsync: flush() without os.fsync().
FlushOnly ==
  /\ pc = "fsync"
  /\ pc' = "chmod"
  /\ UNCHANGED <<posix, write, kept, tries, result, bytes, synced, modes, names, disk, readers>>

Fsync ==
  /\ pc = "fsync"
  /\ synced' = synced \cup {write}
  /\ pc' = "chmod"
  /\ UNCHANGED <<posix, write, kept, tries, result, bytes, modes, names, disk, readers>>

\* Variant of Chmod: every new file gets the usual mode.
ChmodDefault ==
  /\ pc = "chmod"
  /\ mode' = [mode EXCEPT ![write] = "shared"]
  /\ pc' = "replace"
  /\ UNCHANGED <<posix, write, kept, tries, result, bytes, synced, had, names, disk, readers>>

\* A failing chmod is ignored: the file keeps the mode of mkstemp.
Chmod ==
  /\ pc = "chmod"
  /\ mode' \in {mode} \cup IF kept = "none" THEN {} ELSE {[mode EXCEPT ![write] = kept]}
  /\ pc' = "replace"
  /\ UNCHANGED <<posix, write, kept, tries, result, bytes, synced, had, names, disk, readers>>

\* Windows does not replace a file that somebody has open.
Replaceable == posix \/ \A r \in Readers : fd[r] # target \/ fd[r] = Missing

Replace ==
  /\ pc = "replace"
  /\ Replaceable
  /\ target' = write
  /\ survivors' = survivors \cup {write}
  /\ temps' = temps \ {write}
  /\ unsettled' = unsettled \cup {write}
  /\ pc' = "dirsync"
  /\ UNCHANGED <<posix, write, kept, tries, result, bytes, synced, modes, revived, lapsed, readers>>

\* Variant of ReplaceRefused: the retry loop has no budget.
RetryForEver ==
  /\ pc = "replace"
  /\ ~Replaceable
  /\ tries' = 0
  /\ UNCHANGED <<posix, write, pc, kept, result, bytes, synced, modes, names, disk, readers>>

\* Variant of ReplaceRefused: one attempt too many.
RetryOnceMore ==
  /\ pc = "replace"
  /\ ~Replaceable
  /\ tries <= Attempts - 1
  /\ tries' = tries + 1
  /\ UNCHANGED <<posix, write, pc, kept, result, bytes, synced, modes, names, disk, readers>>

\* PermissionError on Windows: sleep and try again while the budget lasts.
ReplaceRefused ==
  /\ pc = "replace"
  /\ ~Replaceable
  /\ tries < Attempts - 1
  /\ tries' = tries + 1
  /\ UNCHANGED <<posix, write, pc, kept, result, bytes, synced, modes, names, disk, readers>>

BudgetSpent == ~Replaceable /\ tries = Attempts - 1

\* Any other OSError, or the last PermissionError, before the file is replaced.
StepFails ==
  /\ pc \in {"write", "fsync", "replace"}
  /\ pc = "replace" /\ ~Replaceable => BudgetSpent
  /\ pc' = "cleanup"
  /\ UNCHANGED <<posix, write, kept, tries, result, bytes, synced, modes, names, disk, readers>>

\* Variant of Cleanup: the temp file is left to the next write.
CleanupForgotten ==
  /\ pc = "cleanup"
  /\ End("failed")
  /\ UNCHANGED <<posix, write, kept, tries, bytes, synced, mode, names, disk, readers>>

\* finally: unlink the temp file, ignore an error doing so, and raise StorageError.
Cleanup ==
  /\ pc = "cleanup"
  /\ \/ temps' = temps \ {write} /\ unsettled' = unsettled \cup {write} /\ End("failed")
     \/ UNCHANGED <<temps, unsettled>> /\ End("littered")
  /\ UNCHANGED <<posix, write, kept, tries, bytes, synced, mode, revived, disk, readers>>

\* Variant of DirSync: the temp file is synced a second time, not its directory.
SyncFileAgain ==
  /\ pc = "dirsync"
  /\ posix
  /\ synced' = synced \cup {write}
  /\ lapsed' = FALSE
  /\ \/ End("ok")
     \/ DirCloseCanFail /\ End("failed")
  /\ UNCHANGED <<posix, write, kept, tries, bytes, mode, names, target, survivors, readers>>

\* _fsync_parent(): fsync the directory and close it, where close may raise.
DirSync ==
  /\ pc = "dirsync"
  /\ posix
  /\ survivors' = {target}
  /\ unsettled' = {}
  /\ lapsed' = FALSE
  /\ \/ End("ok")
     \/ DirCloseCanFail /\ End("failed")
  /\ UNCHANGED <<posix, write, kept, tries, bytes, synced, mode, temps, revived, target, readers>>

\* Windows returns at once; on POSIX a failing open or fsync is ignored.
DirSyncSkipped ==
  /\ pc = "dirsync"
  /\ lapsed' = TRUE
  /\ End("ok")
  /\ UNCHANGED <<posix, write, kept, tries, bytes, synced, mode, names, target, survivors, readers>>

-----------------------------------------------------------------------------
\* The world around the write.

\* The user changes the mode of the database file, also while a write is under way.
UserChmod ==
  /\ target # Missing
  /\ \E m \in Modes :
       /\ mode' = [mode EXCEPT ![target] = m]
       /\ had' = IF pc = "idle" THEN had ELSE had \cup {m}
  /\ UNCHANGED <<posix, write, pc, kept, tries, result, bytes, synced, names, disk, readers>>

\* path.read_bytes() opens the file the path names now and reads it to its end.
OpenFile(r) ==
  /\ fd[r] = Missing
  /\ target # Missing
  /\ fd' = [fd EXCEPT ![r] = target]
  /\ UNCHANGED <<posix, write, pc, kept, tries, result, bytes, synced, modes, names, disk, got>>

ReadFile(r) ==
  /\ fd[r] # Missing
  /\ got' = [got EXCEPT ![r] = bytes[fd[r]]]
  /\ fd' = [fd EXCEPT ![r] = Missing]
  /\ UNCHANGED <<posix, write, pc, kept, tries, result, bytes, synced, modes, names, disk>>

\* The writing process dies: what it did to the file system stays.
Crash ==
  /\ pc # "idle"
  /\ End("crashed")
  /\ UNCHANGED <<posix, write, kept, tries, bytes, synced, mode, names, disk, readers>>

\* Every process dies; a name not synced is as the disk has it, data not synced torn.
\* A temp file that was renamed is under one of its names only.
PowerLoss ==
  /\ target' \in survivors
  /\ survivors' = {target'}
  /\ temps' \in {(temps \ unsettled) \cup T : T \in SUBSET (unsettled \ {target'})}
  /\ unsettled' = {}
  /\ revived' = revived \cup (temps' \ temps)
  /\ bytes' = [v \in Writes |-> IF v \in synced \/ bytes[v] = "absent" THEN bytes[v] ELSE "part"]
  /\ lapsed' = FALSE
  /\ result' = [v \in Writes |-> IF result[v] = "running" THEN "crashed"
                                 ELSE IF result[v] = "ok" /\ v > target' THEN "lost"
                                 ELSE result[v]]
  /\ had' = {}
  /\ pc' = "idle"
  /\ fd' = [r \in Readers |-> Missing]
  /\ got' = [r \in Readers |-> "absent"]
  /\ UNCHANGED <<posix, write, kept, tries, synced, mode>>

-----------------------------------------------------------------------------
WriterStep ==
  \/ CreateFails \/ Create \/ WritePart \/ WriteRest \/ Fsync \/ Chmod
  \/ Replace \/ ReplaceRefused \/ StepFails \/ Cleanup \/ DirSync \/ DirSyncSkipped

Next ==
  \/ Begin \/ WriterStep \/ UserChmod \/ Crash \/ PowerLoss
  \/ \E r \in Readers : OpenFile(r) \/ ReadFile(r)

Spec == Init /\ [][Next]_vars

\* atomic_write() runs on the thread of its caller; readers may keep the file open.
FairSpec == Spec /\ WF_vars(WriterStep)

-----------------------------------------------------------------------------
\* A reader without a lock gets a complete file, whichever write it overtakes.
ReadersSeeWholeFiles == \A r \in Readers : got[r] \in {"absent", "whole"}

\* Once the directory is synced, no power loss takes an acknowledged write back.
AcknowledgedWritesSurvive ==
  ~lapsed => \A v \in Writes, s \in survivors : result[v] = "ok" => s >= v

\* A write that raised left no trace: neither now nor after a power loss does the
\* path name its file.
FailedWritesLeaveNoTrace ==
  \A v \in Writes : result[v] \in {"failed", "littered"} => v \notin survivors \cup {target}

\* A temp file outlives its write only when the process died, unlink failed, or a power
\* loss brought back a name that was removed and not synced.
NoLitter ==
  \A v \in temps : result[v] \in {"running", "crashed", "littered"} \/ v \in revived

\* A commit gives the database file only permissions that it has had since the write
\* began.  A chmod meanwhile may be undone: the mode is read at the start (atomic.py:68).
ModeIsInherited ==
  [][pc = "replace" /\ pc' = "dirsync" /\ target # Missing
     => mode[target'] \in had \cup {"private"}]_vars

\* atomic_write() returns or raises, even if a reader never closes the file.
WriteReturns == pc # "idle" ~> pc = "idle"

\* What the path names, now or after a power loss, is a complete version (ADR 0001).
Torn == MaxWrites + 1
Whole(v) == IF v = Missing \/ bytes[v] = "whole" THEN v ELSE Torn
AfterPowerLoss(v) == IF v = Missing \/ v \in synced THEN Whole(v) ELSE Torn

File == INSTANCE AtomicFile WITH
  Versions <- Writes \cup {Missing},
  value <- Whole(target),
  survivors <- {AfterPowerLoss(v) : v \in survivors}
ImplementsAtomicFile == File!Spec
=============================================================================
