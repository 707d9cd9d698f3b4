--------------------------- MODULE StorageEngine ---------------------------
(***************************************************************************)
(* StorageEngine (json_database/storage.py) and the transactions            *)
(* (transaction.py) that use it, called by several clients on one file:     *)
(* reads and integrity checks that take no lock, autocommit writes,          *)
(* transactions, and init.  A client is a thread or a process with one call  *)
(* in progress at a time.  A transaction's body and an autocommit mutator    *)
(* compute any state from the one they were given (Collection functions).    *)
(*                                                                         *)
(* The lock is the one FileLock implements.  Replacing the file is one step: *)
(* AtomicWrite says what happens inside it.                                 *)
(***************************************************************************)
CONSTANTS
  Clients,
  States,       \* database states, up to the metadata a commit stamps on them
  Empty,        \* make_empty_state()
  NoFile,       \* the database file does not exist
  None          \* no answer yet

ASSUME StorageEngineAssumption ==
  /\ Empty \in States
  /\ NoFile \notin States
  /\ None \notin States
  /\ NoFile # None

VARIABLES
  file,         \* what the database path holds
  inside,       \* the clients that hold the database lock
  job,          \* job[c]: the call c is in
  pc,           \* pc[c]: where in it
  work,         \* work[c]: the state that c's mutator or transaction edits
  base,         \* base[c]: what the file held when c loaded it (history)
  answer        \* answer[c]: what c's last read or check returned

vars == <<file, inside, job, pc, work, base, answer>>

Readers == {"read", "check"}
Writers == {"update", "tx"}
Creators == {"init", "force"}

Lock == INSTANCE AbstractLock WITH Acquirers <- Clients

Locked == {"creating", "open", "writing", "unwinding"}

\* c is between the two ends of a `with self.lock()`; readers load without one.
InLockedRegion(c) ==
  \/ pc[c] \in Locked
  \/ (pc[c] \in {"looking", "reading"} /\ job[c] \notin Readers)

TypeOK ==
  /\ file \in States \cup {NoFile}
  /\ inside \in SUBSET Clients
  /\ job \in [Clients -> Readers \cup Writers \cup Creators \cup {"none"}]
  /\ pc \in [Clients -> {"idle", "checking", "waiting", "looking", "reading"} \cup Locked]
  /\ work \in [Clients -> States]
  /\ base \in [Clients -> States \cup {NoFile}]
  /\ answer \in [Clients -> States \cup {NoFile, None}]

Init ==
  /\ file = NoFile
  /\ inside = {}
  /\ job = [c \in Clients |-> "none"]
  /\ pc = [c \in Clients |-> "idle"]
  /\ work = [c \in Clients |-> Empty]
  /\ base = [c \in Clients |-> NoFile]
  /\ answer = [c \in Clients |-> None]

Goto(c, label) == pc' = [pc EXCEPT ![c] = label]

Return(c) == Goto(c, "idle") /\ job' = [job EXCEPT ![c] = "none"]

\* The loaded state goes out of scope, or Transaction._state becomes None.
Forget(c) ==
  /\ base' = [base EXCEPT ![c] = NoFile]
  /\ work' = [work EXCEPT ![c] = Empty]

-----------------------------------------------------------------------------
\* load(), check_integrity(), Database._read_state()

Call(c) ==
  /\ pc[c] = "idle"
  /\ \E j \in Readers \cup Writers \cup Creators :
       /\ job' = [job EXCEPT ![c] = j]
       /\ Goto(c, IF j = "read" THEN "looking" ELSE IF j = "check" THEN "checking" ELSE "waiting")
  /\ answer' = [answer EXCEPT ![c] = None]
  /\ UNCHANGED <<file, inside, work, base>>

\* check_integrity() looks for the file before load() does.
CheckMissing(c) ==
  /\ pc[c] = "checking"
  /\ file = NoFile
  /\ answer' = [answer EXCEPT ![c] = NoFile]
  /\ Return(c)
  /\ UNCHANGED <<file, inside, work, base>>

CheckPresent(c) ==
  /\ pc[c] = "checking"
  /\ file # NoFile
  /\ Goto(c, "looking")
  /\ UNCHANGED <<file, inside, job, work, base, answer>>

\* load() returns the state s to the caller that runs it.
Loaded(c, s) ==
  IF job[c] \in Readers
  THEN answer' = [answer EXCEPT ![c] = s] /\ Return(c) /\ UNCHANGED <<work, base>>
  ELSE /\ work' = [work EXCEPT ![c] = s]
       /\ base' = [base EXCEPT ![c] = file]
       /\ Goto(c, "open")
       /\ UNCHANGED <<job, answer>>

\* Variant of FindMissing: a missing file loads as no state at all.
FindMissingAsNothing(c) ==
  /\ pc[c] = "looking"
  /\ file = NoFile
  /\ Loaded(c, NoFile)
  /\ UNCHANGED <<file, inside>>

\* not path.exists(): a missing file loads as the empty database.
FindMissing(c) ==
  /\ pc[c] = "looking"
  /\ file = NoFile
  /\ Loaded(c, Empty)
  /\ UNCHANGED <<file, inside>>

FindPresent(c) ==
  /\ pc[c] = "looking"
  /\ file # NoFile
  /\ Goto(c, "reading")
  /\ UNCHANGED <<file, inside, job, work, base, answer>>

\* One open and read of the path: the bytes of one complete file.
ReadFile(c) ==
  /\ pc[c] = "reading"
  /\ file # NoFile
  /\ Loaded(c, file)
  /\ UNCHANGED <<file, inside>>

\* Variant of LoadFails: Transaction.__enter__ does not release the lock it took.
LoadFailsHoldingLock(c) ==
  /\ pc[c] \in {"looking", "reading"}
  /\ Return(c)
  /\ UNCHANGED <<file, inside, work, base, answer>>

\* StorageError, DatabaseFormatError or IntegrityError; KeyboardInterrupt in deepcopy.
LoadFails(c) ==
  /\ pc[c] \in {"looking", "reading"}
  /\ IF job[c] \in Readers THEN Return(c) ELSE Goto(c, "unwinding") /\ UNCHANGED job
  /\ UNCHANGED <<file, inside, work, base, answer>>

-----------------------------------------------------------------------------
\* with self.lock(), Transaction.__enter__ and __exit__

\* Variant of Acquire: init() looks for the file before it takes the lock.
AcquireAfterCheck(c) ==
  /\ pc[c] = "waiting"
  /\ IF c \in inside \/ job[c] \in Writers
     THEN Lock!Acquire(c) /\ Goto(c, "looking")
     ELSE UNCHANGED inside /\ Goto(c, "creating")
  /\ UNCHANGED <<file, job, work, base, answer>>

Acquire(c) ==
  /\ pc[c] = "waiting"
  /\ Lock!Acquire(c)
  /\ Goto(c, IF job[c] \in Creators THEN "creating" ELSE "looking")
  /\ UNCHANGED <<file, job, work, base, answer>>

\* Variant of GiveUp: flock without LOCK_NB never looks at the deadline.
GiveUpOnlyWhenFree(c) ==
  /\ pc[c] = "waiting"
  /\ inside = {}
  /\ Return(c)
  /\ UNCHANGED <<file, inside, work, base, answer>>

\* LockError: the timeout has passed, or the lock file could not be prepared.
GiveUp(c) ==
  /\ pc[c] = "waiting"
  /\ Return(c)
  /\ UNCHANGED <<file, inside, work, base, answer>>

Release(c) ==
  /\ pc[c] = "unwinding"
  /\ Lock!Leave(c)
  /\ Return(c)
  /\ UNCHANGED <<file, work, base, answer>>

-----------------------------------------------------------------------------
\* update(), Transaction

\* Variant of Edit: update() leaves the `with` block before it commits.
EditAndRelease(c) ==
  /\ pc[c] = "open"
  /\ \E s \in States : work' = [work EXCEPT ![c] = s]
  /\ IF job[c] = "update" THEN Goto(c, "writing") ELSE UNCHANGED pc
  /\ inside' = IF job[c] = "update" THEN inside \ {c} ELSE inside
  /\ UNCHANGED <<file, job, base, answer>>

\* The mutator returns, or an operation of the transaction body does.
Edit(c) ==
  /\ pc[c] = "open"
  /\ \E s \in States : work' = [work EXCEPT ![c] = s]
  /\ IF job[c] = "update" THEN Goto(c, "writing") ELSE UNCHANGED pc
  /\ UNCHANGED <<file, inside, job, base, answer>>

\* The body ends without an exception: __exit__ commits.
BodyEnds(c) ==
  /\ pc[c] = "open"
  /\ job[c] = "tx"
  /\ Goto(c, "writing")
  /\ UNCHANGED <<file, inside, job, work, base, answer>>

\* The mutator or the body raises: nothing is written.
BodyRaises(c) ==
  /\ pc[c] = "open"
  /\ Forget(c)
  /\ Goto(c, "unwinding")
  /\ UNCHANGED <<file, inside, job, answer>>

-----------------------------------------------------------------------------
\* create_empty(), _commit_unlocked()

CreateRefused(c) ==
  /\ pc[c] = "creating"
  /\ job[c] = "init"
  /\ file # NoFile
  /\ Goto(c, "unwinding")
  /\ UNCHANGED <<file, inside, job, work, base, answer>>

\* Variant of Create: --force unlinks the old file before it writes the new one.
CreateUnlinking(c) ==
  /\ pc[c] = "creating"
  /\ job[c] = "force" \/ file = NoFile
  /\ file' = NoFile
  /\ Goto(c, "writing")
  /\ UNCHANGED <<inside, job, work, base, answer>>

Create(c) ==
  /\ pc[c] = "creating"
  /\ job[c] = "force" \/ file = NoFile
  /\ Goto(c, "writing")
  /\ UNCHANGED <<file, inside, job, work, base, answer>>

\* The commit validates, stamps and encodes the state, and replaces the file.  It may
\* still raise after that, when it closes the directory, and so may the release of the
\* lock: the same steps, as what a write answers is not in the state.
Replace(c) ==
  /\ pc[c] = "writing"
  /\ file' = IF job[c] \in Creators THEN Empty ELSE work[c]
  /\ Forget(c)
  /\ Goto(c, "unwinding")
  /\ UNCHANGED <<inside, job, answer>>

\* Validation, encoding or atomic_write() raises before the file is replaced.
CommitFails(c) ==
  /\ pc[c] = "writing"
  /\ Forget(c)
  /\ Goto(c, "unwinding")
  /\ UNCHANGED <<file, inside, job, answer>>

-----------------------------------------------------------------------------
\* The process dies; the operating system releases its lock.
Crash(c) ==
  /\ pc[c] # "idle"
  /\ inside' = inside \ {c}
  /\ Forget(c)
  /\ Return(c)
  /\ UNCHANGED <<file, answer>>

\* What the library runs by itself, without waiting for its caller.
LibraryStep(c) ==
  \/ CheckMissing(c) \/ CheckPresent(c)
  \/ FindMissing(c) \/ FindPresent(c) \/ ReadFile(c) \/ LoadFails(c)
  \/ Acquire(c) \/ GiveUp(c) \/ Release(c)
  \/ CreateRefused(c) \/ Create(c) \/ Replace(c) \/ CommitFails(c)

\* An autocommit mutator is a function of collection.py, which the library runs too.
MutatorStep(c) == job[c] = "update" /\ (Edit(c) \/ BodyRaises(c))

Next ==
  \E c \in Clients :
    Call(c) \/ LibraryStep(c) \/ Edit(c) \/ BodyEnds(c) \/ BodyRaises(c) \/ Crash(c)

Spec == Init /\ [][Next]_vars

\* A call that is not in a transaction body runs on the caller's own thread.
Fairness == \A c \in Clients : WF_vars(LibraryStep(c) \/ MutatorStep(c))

FairSpec == Spec /\ Fairness

-----------------------------------------------------------------------------
\* Exactly the clients in a locked region hold the lock: no path out of update(),
\* create_empty(), __enter__ or __exit__ leaves it behind or gives it up early.
LockFollowsCall == \A c \in Clients : c \in inside <=> InLockedRegion(c)

\* The file is still what a writer loaded when it replaces it: no update made
\* between its load and its commit can be lost.
NoLostUpdate ==
  \A c \in Clients : pc[c] \in {"open", "writing"} /\ job[c] \in Writers => base[c] = file

\* init() without force never replaces a database, however many race to create it.
InitNeverClobbers ==
  \A c \in Clients : pc[c] = "writing" /\ job[c] = "init" => file = NoFile

\* A load that has seen the file exist does not find it gone when it opens it,
\* though readers take no lock: writers and init replace the file in place.
FileNeverVanishes ==
  \A c \in Clients :
    pc[c] = "reading" \/ (job[c] = "check" /\ pc[c] = "looking") => file # NoFile

\* Every call but a transaction body returns, though another client may stay in
\* its own transaction body, and so in the lock, for ever.
CallReturns ==
  \A c \in Clients : pc[c] # "idle" /\ job[c] # "tx" ~> pc[c] = "idle"

\* Strict serializability, all or nothing: each commit is one step of SerialStore.
Serial == INSTANCE SerialStore WITH
  store <- file,
  active <- {c \in Clients : pc[c] \in {"open", "writing"} /\ job[c] \in Writers}
ImplementsSerialStore == Serial!Spec
=============================================================================
