------------------------------ MODULE Database ------------------------------
(***************************************************************************)
(* Database and Transaction objects (database.py, transaction.py) as a        *)
(* program uses them: several Database objects on one file, each with         *)
(* transactions that are entered, leaked, closed by the database's own        *)
(* __exit__ and exited late.  A call runs as one step here; StorageEngine      *)
(* takes the calls apart.                                                    *)
(*                                                                         *)
(* Each Database object is used by one thread.  A call that needs the lock    *)
(* while another object holds it may wait for it (then it is the step taken   *)
(* later) or raise LockError.                                                *)
(***************************************************************************)
CONSTANTS
  Databases,          \* Database objects on the one file
  Transactions,       \* Transaction objects
  DatabaseOf,         \* DatabaseOf[t]: the t._database
  States,             \* database states
  Empty,              \* make_empty_state()
  NoFile,             \* the database file does not exist
  None,               \* Python's None
  OverlappingExits    \* a `with` block whose transaction was closed by the
                      \* database may end while a newer one is open

ASSUME DatabaseAssumption ==
  /\ DatabaseOf \in [Transactions -> Databases]
  /\ Empty \in States
  /\ NoFile \notin States
  /\ None \notin States \cup Transactions \cup {NoFile}
  /\ OverlappingExits \in BOOLEAN

VARIABLES
  file,       \* what the database path holds
  holder,     \* the transaction that has the file lock, None between calls
  current,    \* current[d]: d._active_transaction
  state,      \* state[t]: t._state, None when t is not active
  entered,    \* the transactions whose `with` block has not ended
  last        \* the last call: its kind, database, result and value

vars == <<file, holder, current, state, entered, last>>

Calls == {"none", "enter", "op", "exit", "read", "check", "write", "init", "dbexit", "crash"}
Results == {"ok", "raised", "TransactionError", "LockError", "StorageError", "OSError"}

\* How a call that writes may fail under the lock: load(), the mutator or the commit
\* raises, or giving up the lock does.  Closing the directory (atomic.py:130) and giving
\* up the lock (lock.py:99-103) come after the replacement of the file.
Failures == {"StorageError", "OSError"}

TypeOK ==
  /\ file \in States \cup {NoFile}
  /\ holder \in Transactions \cup {None}
  /\ current \in [Databases -> Transactions \cup {None}]
  /\ state \in [Transactions -> States \cup {None}]
  /\ entered \in SUBSET Transactions
  /\ last \in [call : Calls, db : Databases, result : Results, value : States \cup {NoFile, None}]

Init ==
  /\ file = NoFile
  /\ holder = None
  /\ current = [d \in Databases |-> None]
  /\ state = [t \in Transactions |-> None]
  /\ entered = {}
  /\ last \in [call : {"none"}, db : Databases, result : {"ok"}, value : {None}]

Say(c, d, r, v) == last' = [call |-> c, db |-> d, result |-> r, value |-> v]

\* Variant of Load: a missing file is no state.
LoadWithoutDefault == file

\* StorageEngine.load()
Load == IF file = NoFile THEN Empty ELSE file

IsOpen(t) == state[t] # None

-----------------------------------------------------------------------------
\* Transaction

EnterNested(t) ==
  /\ current[DatabaseOf[t]] # None
  /\ Say("enter", DatabaseOf[t], "TransactionError", None)
  /\ UNCHANGED <<file, holder, current, state, entered>>

\* Taking the lock raised, or load() did and the lock was given back.
EnterFails(t) ==
  /\ current[DatabaseOf[t]] = None
  /\ \E r \in IF holder # None THEN {"LockError"} ELSE Failures :
       Say("enter", DatabaseOf[t], r, None)
  /\ UNCHANGED <<file, holder, current, state, entered>>

Enter(t) ==
  /\ current[DatabaseOf[t]] = None
  /\ holder = None
  /\ holder' = t
  /\ state' = [state EXCEPT ![t] = Load]
  /\ current' = [current EXCEPT ![DatabaseOf[t]] = t]
  /\ entered' = entered \cup {t}
  /\ Say("enter", DatabaseOf[t], "ok", None)
  /\ UNCHANGED file

\* An operation through tx.collection(...).
Operate(t) ==
  /\ IF IsOpen(t)
     THEN \/ /\ \E s \in States : state' = [state EXCEPT ![t] = s]
             /\ Say("op", DatabaseOf[t], "ok", None)
          \/ UNCHANGED state /\ Say("op", DatabaseOf[t], "raised", None)
     ELSE UNCHANGED state /\ Say("op", DatabaseOf[t], "TransactionError", None)
  /\ UNCHANGED <<file, holder, current, entered>>

\* Variant of Close: the database still routes to the transaction that ended.
CloseKeepingRoute(t) ==
  /\ state' = [state EXCEPT ![t] = None]
  /\ holder' = IF holder = t THEN None ELSE holder
  /\ UNCHANGED current

\* Variant of Close: the lock is left to the garbage collector.
CloseWithoutRelease(t) ==
  /\ state' = [state EXCEPT ![t] = None]
  /\ current' = [current EXCEPT ![DatabaseOf[t]] = None]
  /\ UNCHANGED holder

\* The finally clause of __exit__.
Close(t) ==
  /\ state' = [state EXCEPT ![t] = None]
  /\ current' = [current EXCEPT ![DatabaseOf[t]] = None]
  /\ holder' = IF holder = t THEN None ELSE holder

\* The `with` block of t ends.
LeaveBlock(t) ==
  /\ t \in entered
  /\ OverlappingExits \/ current[DatabaseOf[t]] \in {t, None}
  /\ entered' = entered \ {t}

\* The block ends without an exception and t is active: commit.
ExitCommits(t) ==
  /\ LeaveBlock(t)
  /\ IsOpen(t)
  /\ file' = state[t]
  /\ Say("exit", DatabaseOf[t], "ok", None)
  /\ Close(t)

\* The commit raises, or the finally clause does after it; the file may be replaced.
ExitFails(t) ==
  /\ LeaveBlock(t)
  /\ IsOpen(t)
  /\ file' \in {file, state[t]}
  /\ \E r \in Failures : Say("exit", DatabaseOf[t], r, None)
  /\ Close(t)

\* t is no longer active: there is nothing to commit.
ExitLate(t) ==
  /\ LeaveBlock(t)
  /\ ~IsOpen(t)
  /\ Say("exit", DatabaseOf[t], "TransactionError", None)
  /\ Close(t)
  /\ UNCHANGED file

\* The block ends with an exception: nothing is committed.
ExitRaising(t) ==
  /\ LeaveBlock(t)
  /\ Say("exit", DatabaseOf[t], "raised", None)
  /\ Close(t)
  /\ UNCHANGED file

-----------------------------------------------------------------------------
\* Database

\* Variant of Read: the file is read even though a transaction is open.
ReadFromDisk(d) ==
  /\ Say("read", d, "ok", Load)
  /\ UNCHANGED <<file, holder, current, state, entered>>

\* Every read goes through _read_state().
Read(d) ==
  /\ Say("read", d, "ok", IF current[d] # None THEN state[current[d]] ELSE Load)
  /\ UNCHANGED <<file, holder, current, state, entered>>

\* load() raises; a transaction's own state is always there.
ReadFails(d) ==
  /\ current[d] = None
  /\ Say("read", d, "StorageError", None)
  /\ UNCHANGED <<file, holder, current, state, entered>>

CheckIntegrity(d) ==
  /\ Say("check", d, "ok", file)
  /\ UNCHANGED <<file, holder, current, state, entered>>

\* Variant of WriteRefused: the guard of _write() is missing, as it is in init().
WriteUnguarded(d) ==
  /\ holder # None
  /\ Say("write", d, "LockError", None)
  /\ UNCHANGED <<file, holder, current, state, entered>>

\* _write() while d has an active transaction.
WriteRefused(d) ==
  /\ current[d] # None
  /\ Say("write", d, "TransactionError", None)
  /\ UNCHANGED <<file, holder, current, state, entered>>

\* Variant of Write: an autocommit write does not take the lock.
WriteWithoutLock(d) ==
  /\ current[d] = None
  /\ file' \in States
  /\ Say("write", d, "ok", None)
  /\ UNCHANGED <<holder, current, state, entered>>

\* StorageEngine.update(): its lock is free again when the call returns.
Write(d) ==
  /\ current[d] = None
  /\ holder = None
  /\ file' \in States
  /\ Say("write", d, "ok", None)
  /\ UNCHANGED <<holder, current, state, entered>>

\* The lock is not to be had; or an error under it, perhaps after the replacement.
WriteFails(d) ==
  /\ current[d] = None
  /\ \/ holder # None /\ UNCHANGED file /\ Say("write", d, "LockError", None)
     \/ /\ holder = None
        /\ file' \in {file} \cup States
        /\ \E r \in Failures : Say("write", d, r, None)
  /\ UNCHANGED <<holder, current, state, entered>>

\* init() asks for the lock without a look at _active_transaction.
InitCall(d) ==
  /\ \/ holder # None /\ UNCHANGED file /\ Say("init", d, "LockError", None)
     \/ holder = None /\ file' = Empty /\ Say("init", d, "ok", None)
     \/ /\ holder = None
        /\ file' \in {file, Empty}
        /\ \E r \in Failures : Say("init", d, r, None)
  /\ UNCHANGED <<holder, current, state, entered>>

\* Database.__exit__ rolls a leaked transaction back, whatever its block still does;
\* an exception that already unwinds the database's block passes through.
ExitDatabase(d) ==
  /\ IF current[d] = None
     THEN UNCHANGED <<holder, current, state>> /\ Say("dbexit", d, "ok", None)
     ELSE Close(current[d]) /\ Say("dbexit", d, "TransactionError", None)
  /\ UNCHANGED <<file, entered>>

ExitDatabaseRaising(d) ==
  /\ IF current[d] = None THEN UNCHANGED <<holder, current, state>> ELSE Close(current[d])
  /\ Say("dbexit", d, "raised", None)
  /\ UNCHANGED <<file, entered>>

\* The process of d, which has no other Database, dies: its objects are gone, and
\* new ones take their place.
Crash(d) ==
  LET own == {t \in Transactions : DatabaseOf[t] = d} IN
  /\ current' = [current EXCEPT ![d] = None]
  /\ state' = [t \in Transactions |-> IF t \in own THEN None ELSE state[t]]
  /\ holder' = IF holder \in own THEN None ELSE holder
  /\ entered' = entered \ own
  /\ Say("crash", d, "ok", None)
  /\ UNCHANGED file

-----------------------------------------------------------------------------
TransactionStep(t) ==
  \/ t \notin entered /\ (EnterNested(t) \/ EnterFails(t) \/ Enter(t))
  \/ Operate(t)
  \/ ExitCommits(t) \/ ExitFails(t) \/ ExitLate(t) \/ ExitRaising(t)

DatabaseStep(d) ==
  \/ Read(d) \/ ReadFails(d) \/ CheckIntegrity(d)
  \/ WriteRefused(d) \/ Write(d) \/ WriteFails(d) \/ InitCall(d)
  \/ ExitDatabase(d) \/ ExitDatabaseRaising(d) \/ Crash(d)

Next ==
  \/ \E t \in Transactions : TransactionStep(t)
  \/ \E d \in Databases : DatabaseStep(d)

Spec == Init /\ [][Next]_vars

-----------------------------------------------------------------------------
\* The file lock is held exactly by the open transaction; in whichever order its
\* block and its database end, the lock is neither leaked nor given up early.
LockFollowsTransaction == \A t \in Transactions : holder = t <=> IsOpen(t)

\* _active_transaction names the open transaction of its database and no other.
RoutingFollowsTransaction ==
  \A t \in Transactions : current[DatabaseOf[t]] = t <=> IsOpen(t)

OpenIn(d) == {t \in Transactions : DatabaseOf[t] = d /\ IsOpen(t)}

\* ADR 0008: a read through a database returns the in-memory state of the
\* transaction open on it, an integrity check the file.
ReadsFollowTransaction ==
  /\ last.call = "read" /\ last.result = "ok" =>
       \/ \E t \in OpenIn(last.db) : last.value = state[t]
       \/ OpenIn(last.db) = {} /\ last.value = Load
  /\ last.call = "check" => last.value = file

\* Nobody waits for a lock that the own open transaction holds (autocommit writes
\* raise TransactionError, nested transactions are refused before they lock).
NoSelfLockout ==
  last.result = "LockError" /\ last.call # "init" => OpenIn(last.db) = {}

\* ADR 0008: writes through the database, init among them, raise TransactionError
\* while a transaction is open on it.
DatabaseWritesRefused ==
  last.call \in {"write", "init"} /\ OpenIn(last.db) # {} => last.result = "TransactionError"

\* While a transaction is open nobody else changes the file, and its own exit, failing
\* late or not, only to what it worked out: that is computed from what it replaces.
OpenTransactionOwnsFile ==
  [][\A t \in Transactions : IsOpen(t) /\ file' # file => last'.call = "exit" /\ file' = state[t]]_vars
=============================================================================
