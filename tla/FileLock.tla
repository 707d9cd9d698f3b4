------------------------------ MODULE FileLock ------------------------------
(***************************************************************************)
(* FileLock (json_database/lock.py): an exclusive advisory lock taken with  *)
(* flock (POSIX) or msvcrt.locking (Windows) on a lock file that is opened   *)
(* by path on every acquisition and is never unlinked.  The operating       *)
(* system's lock belongs to an inode and the code names a path, so the      *)
(* model keeps both: what the path names, which inode each open descriptor  *)
(* pins, and which descriptor has each inode locked.                        *)
(*                                                                         *)
(* An acquirer is one FileLock object in a process of its own; a second     *)
(* FileLock in one process excludes the first the same way, since the lock  *)
(* belongs to the open file description.                                    *)
(***************************************************************************)
EXTENDS Naturals

CONSTANTS
  Acquirers,    \* FileLock objects
  Inodes,       \* inodes the file system can give the lock path
  Polls,        \* sleeps of poll_interval that fit into the timeout
  Windows,      \* os.name == "nt"
  None          \* no inode, no owner, no open file

ASSUME FileLockAssumption ==
  /\ Polls \in Nat
  /\ Windows \in BOOLEAN
  /\ None \notin Acquirers \cup Inodes

VARIABLES
  path,         \* the inode the lock path names, None before the first open
  owner,        \* owner[i]: the acquirer whose descriptor has inode i locked
  file,         \* file[a]: the inode behind a._file, None when it is None
  left,         \* left[a]: sleeps left before a's deadline
  pc            \* pc[a]: where a is; a._locked in "held" and "closing"

vars == <<path, owner, file, left, pc>>

TypeOK ==
  /\ path \in Inodes \cup {None}
  /\ owner \in [Inodes -> Acquirers \cup {None}]
  /\ file \in [Acquirers -> Inodes \cup {None}]
  /\ left \in [Acquirers -> 0..Polls]
  /\ pc \in [Acquirers -> {"idle", "opened", "polling", "refused", "held", "closing"}]

Init ==
  /\ path = None
  /\ owner = [i \in Inodes |-> None]
  /\ file = [a \in Acquirers |-> None]
  /\ left = [a \in Acquirers |-> 0]
  /\ pc = [a \in Acquirers |-> "idle"]

-----------------------------------------------------------------------------
\* acquire()

\* open(path, "a+b") creates the lock file only when the path names nothing.
Open(a) ==
  /\ pc[a] = "idle"
  /\ path' \in IF path = None THEN {i \in Inodes : \A b \in Acquirers : file[b] # i}
                              ELSE {path}
  /\ file' = [file EXCEPT ![a] = path']
  /\ pc' = [pc EXCEPT ![a] = "opened"]
  /\ UNCHANGED <<owner, left>>

\* _ensure_lock_byte() has returned and the deadline is set.  The process may be
\* descheduled for any time before it looks at the clock again.
Prepare(a) ==
  /\ pc[a] = "opened"
  /\ \E n \in 0..Polls : left' = [left EXCEPT ![a] = n]
  /\ pc' = [pc EXCEPT ![a] = "polling"]
  /\ UNCHANGED <<path, owner, file>>

\* Writing the Windows lock byte raised OSError: close, and raise LockError.
PrepareFails(a) ==
  /\ Windows
  /\ pc[a] = "opened"
  /\ file' = [file EXCEPT ![a] = None]
  /\ pc' = [pc EXCEPT ![a] = "idle"]
  /\ UNCHANGED <<path, owner, left>>

TryLock(a) ==
  /\ pc[a] = "polling"
  /\ owner[file[a]] = None
  /\ owner' = [owner EXCEPT ![file[a]] = a]
  /\ pc' = [pc EXCEPT ![a] = "held"]
  /\ UNCHANGED <<path, file, left>>

\* _try_lock() raised OSError: somebody has the lock, or the call itself failed.
Refused(a) ==
  /\ pc[a] = "polling"
  /\ pc' = [pc EXCEPT ![a] = "refused"]
  /\ UNCHANGED <<path, owner, file, left>>

\* Variant of Sleep: the loop goes on sleeping past the deadline.
SleepPastDeadline(a) ==
  /\ pc[a] = "refused"
  /\ left' = [left EXCEPT ![a] = @ - 1]
  /\ pc' = [pc EXCEPT ![a] = "polling"]
  /\ UNCHANGED <<path, owner, file>>

\* Variant of Sleep: the deadline is computed anew in every round of the loop.
SleepRestartingDeadline(a) ==
  /\ pc[a] = "refused"
  /\ left' = [left EXCEPT ![a] = Polls]
  /\ pc' = [pc EXCEPT ![a] = "polling"]
  /\ UNCHANGED <<path, owner, file>>

\* The deadline lies ahead: sleep, at least poll_interval.
Sleep(a) ==
  /\ pc[a] = "refused"
  /\ \E n \in 0..Polls : n < left[a] /\ left' = [left EXCEPT ![a] = n]
  /\ pc' = [pc EXCEPT ![a] = "polling"]
  /\ UNCHANGED <<path, owner, file>>

\* The deadline has passed, even if the lock became free meanwhile: close, raise LockError.
Timeout(a) ==
  /\ pc[a] = "refused"
  /\ left[a] = 0
  /\ file' = [file EXCEPT ![a] = None]
  /\ pc' = [pc EXCEPT ![a] = "idle"]
  /\ UNCHANGED <<path, owner, left>>

-----------------------------------------------------------------------------
\* release()

\* Closing a descriptor, by close() or by the death of its process, gives up
\* the lock it has on its inode.
Disown(a) == [i \in Inodes |-> IF owner[i] = a THEN None ELSE owner[i]]

\* _unlock().  An OSError from it changes nothing but reaches the finally clause.
Unlock(a) ==
  /\ pc[a] = "held"
  /\ owner' \in {owner, Disown(a)}
  /\ pc' = [pc EXCEPT ![a] = "closing"]
  /\ UNCHANGED <<path, file, left>>

\* Variant of Close: the lock file is unlinked on release (ADR 0009's rejected form).
CloseAndUnlink(a) ==
  /\ pc[a] = "closing"
  /\ owner' = Disown(a)
  /\ file' = [file EXCEPT ![a] = None]
  /\ pc' = [pc EXCEPT ![a] = "idle"]
  /\ path' = None
  /\ UNCHANGED left

\* Variant of Close: release() leaves the descriptor to its last _unlock().
ForgetWithoutClose(a) ==
  /\ pc[a] = "closing"
  /\ file' = [file EXCEPT ![a] = None]
  /\ pc' = [pc EXCEPT ![a] = "idle"]
  /\ UNCHANGED <<path, owner, left>>

\* The finally clause: _locked = False, close, _file = None; the path stays.
Close(a) ==
  /\ pc[a] = "closing"
  /\ owner' = Disown(a)
  /\ file' = [file EXCEPT ![a] = None]
  /\ pc' = [pc EXCEPT ![a] = "idle"]
  /\ UNCHANGED <<path, left>>

\* The process dies anywhere; the operating system closes its descriptors.
Crash(a) ==
  /\ pc[a] # "idle"
  /\ owner' = Disown(a)
  /\ file' = [file EXCEPT ![a] = None]
  /\ pc' = [pc EXCEPT ![a] = "idle"]
  /\ UNCHANGED <<path, left>>

-----------------------------------------------------------------------------
AcquireStep(a) ==
  \/ Prepare(a) \/ PrepareFails(a)
  \/ TryLock(a) \/ Refused(a) \/ Sleep(a) \/ Timeout(a)

Next ==
  \E a \in Acquirers :
    Open(a) \/ AcquireStep(a) \/ Unlock(a) \/ Close(a) \/ Crash(a)

Spec == Init /\ [][Next]_vars

\* acquire() is a loop of the caller's own thread: the scheduler runs it.  What
\* the caller does inside its critical section, and for how long, is its own.
Fairness == \A a \in Acquirers : WF_vars(AcquireStep(a))

FairSpec == Spec /\ Fairness

-----------------------------------------------------------------------------
\* No two FileLock objects believe that they hold the database lock (ADR 0003,
\* ADR 0009): what acquire()'s return and _locked = True mean to the caller.
MutualExclusion ==
  \A a, b \in Acquirers : pc[a] = "held" /\ pc[b] = "held" => a = b

\* The operating system's lock never outlives the FileLock that took it, whether
\* release() succeeds, its _unlock() raises, acquire() gives up or the process dies.
NoOrphanedLock ==
  \A i \in Inodes : owner[i] # None =>
    pc[owner[i]] \in {"held", "closing"} /\ file[owner[i]] = i

\* Every acquire() comes back: with the lock or with LockError, however long the
\* holder keeps the lock and however often others overtake the caller.
AcquireReturns ==
  \A a \in Acquirers : pc[a] \in {"opened", "polling", "refused"} ~> pc[a] \in {"held", "idle"}

\* The inode-level protocol implements the lock that StorageEngine is built on.
Lock == INSTANCE AbstractLock WITH inside <- {a \in Acquirers : pc[a] = "held"}
ImplementsLock == Lock!Spec
=============================================================================
