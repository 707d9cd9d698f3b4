# Formal models of json_database

json_database keeps a whole document database in one JSON file. These modules
model how it keeps that file correct: the lock, the atomic replacement, the
engine that loads and commits under the lock, the transactions and `Database`
objects on top, the operations and queries on documents, and what becomes of a
file that others change. TLC checks the models on small instances, and TLAPS proves
the safety properties of all eight for every value of the constants. Paths such
as `storage.py` are under `json_database/`.

## 1. The system

| Component | State | Operations | Talks to |
|---|---|---|---|
| File lock, `lock.py` | the open file and `_locked` of each `FileLock`; the lock of the operating system on the inode | `acquire` (polls until a deadline), `release` | the file system; used by the engine and by transactions |
| Atomic write, `atomic.py` | temp file, database file, directory entry | `atomic_write`, the Windows retry | the file system; called by the commit |
| Storage engine, `storage.py` | the database file | `load`, `update`, `create_empty`, `check_integrity`, `_commit_unlocked` | lock, atomic write, serializer |
| Transaction, `transaction.py` | `_state`, `_lock`, `_active` | `__enter__`, operations, `__exit__` | engine and lock; sets `_active_transaction` of its database |
| Database, `database.py` | `_active_transaction` | reads, autocommit writes, `init`, `check_integrity`, `__exit__` | engine; reads go to the active transaction |
| Collection, `collection.py` | none: it edits the state it is handed | insert, update, replace, delete, upsert, bulk forms, reads | called with a transaction's state or inside `update` |
| Query, `query.py` | none | `matches`, `filter_documents`, `run_predicate` | called by collection reads |
| Serializer, `serializer.py` | none | dumps, canonical form, loads, validate | engine (bytes, checksum), `validate_document`, command line |
| Command line, `cli.py` | none | one `Database` call per process, exit codes | database |

What makes it hard:

* **Concurrency.** Processes, and `FileLock` objects in one process, race for the
  lock. Readers and integrity checks take no lock at all.
* **Failure.** Every file operation may raise; a process may die anywhere; power
  may fail with data or a directory entry not yet on disk.
* **Order.** Fsync before replace, replace before directory sync, load inside the
  lock, release after commit.
* **Time.** The lock has a deadline, the Windows replace has a retry budget.
* **Protocol.** Transactions can be nested, leaked, closed by the database and
  then exited late by their own block.
* **All or nothing.** An operation that raises inside a transaction should leave no
  half of itself behind, since the body may catch the exception and commit; a copy
  that runs out of stack in a loop does.
* **Foreign hands.** The file may be edited or damaged, and the caller keeps
  references to the documents it passes in and gets back.
* **Round trips.** Nested sets, tuples and typed values must come back from the file
  as they went in, or the checksum over them fails.

What makes each component correct: the lock is exclusive, is never orphaned, and
`acquire` returns; the file is always one complete version and an acknowledged
commit survives; commits are serializable and no update is lost; lock, routing
and transaction agree; operations validate before they change anything; what is
committed loads back, and what was changed by others is reported and kept; a query
selects by all of its criteria; no caller shares an object with the working state.

## 2. The modules

| Module | Models | Extended or instanced by |
|---|---|---|
| `AbstractLock` | what `with self.lock()` promises | `FileLock` (implements it), `StorageEngine` (uses it) |
| `FileLock` | `lock.py` over inodes and descriptors | `MCFileLock`, `FileLockProofs` |
| `SerialStore` | what the database promises its clients: serial transactions, no lock | `StorageEngine` (implements it) |
| `StorageEngine` | `storage.py` and transactions as concurrent calls | `MCStorageEngine`, `StorageEngineProofs` |
| `AtomicFile` | the promise of ADR 0001 | `AtomicWrite` (implements it) |
| `AtomicWrite` | `atomic.py`, the disk and readers | `MCAtomicWrite`, `AtomicWriteProofs` |
| `Database` | `database.py` and `transaction.py` as objects in a program | `MCDatabase`, `DatabaseProofs` |
| `Collection` | `collection.py` and the commit's check of its result | `MCCollection`, `CollectionProofs` |
| `Serializer` | `serializer.py` on nested values | `Load`, `LoadProofs` |
| `Load` | `load`, `check_integrity`, checksum and checks of `storage.py`, and the commands of `cli.py`, on a file that others edit | `MCLoad`, `LoadProofs` |
| `Query` | `query.py` on one collection | `MCQuery`, `QueryProofs` |
| `Ownership` | the deep copies of `collection.py` between caller and state | `MCOwnership`, `OwnershipProofs` |

The chain is: `FileLock` implements `AbstractLock`, on which `StorageEngine` is
built; `AtomicWrite` implements `AtomicFile`, which justifies that `StorageEngine`
replaces its file in one step; `StorageEngine` implements `SerialStore`, which
justifies that a call is one step in `Database`; `Collection` says which states a
mutator or a transaction body, arbitrary in `StorageEngine`, really computes. Three
modules look closer at what those take as a value: `Load` at the bytes that stand for
a state, `Ownership` at the objects of which it consists, `Query` at what is read
from it.

Each definition is named for the code it models, and `PROJECT.json` gives its
lines. In each module a definition commented "Variant of X" is a wrong form of X:
replacing X by it breaks a property, which shows that the property sees that bug.

### FileLock

`path` is the inode that the lock path names, `file[a]` the inode behind `_file`,
`owner` the operating system's lock per inode, `pc` the place in `acquire` or
`release`. `Open`, `Prepare`, `TryLock`, `Refused`, `Sleep` and `Timeout` are
`acquire`, `Unlock` and `Close` are `release`. A failed try and the look at the
clock are separate steps, so the lock may become free between them. `Crash` is
the death of the process. The path keeps its inode because the code never unlinks
it; the variant `CloseAndUnlink` is the form that ADR 0009 rejects, and it breaks
mutual exclusion in the way the ADR tells. A failing `open` or `mkdir` changes no
state and is not an action.

### AtomicWrite

There are two memories. `target` and `bytes` are what running processes see;
`survivors` are the files that the path may name after a power loss, and only the
data of files in `synced` survives one. The step order, the failure of every step,
the clean-up, the Windows retry with its budget, the re-applied mode and readers
that keep a file open are actions. `posix` chooses the platform. The database lock
admits one write at a time, so one write runs. `lapsed` records that a directory
sync was skipped (Windows) or failed (ignored by the code): without it no write is
acknowledged falsely, with it a commit may be lost, and the file is still whole.
`UserChmod` may come at any time, also between the look at the old mode (`kept`) and
the replacement; the history `had` is the modes that the database file had while the
write ran. A temp name that was made, renamed or removed since the last directory sync
is in `unsettled`: a power loss may keep it or bring it back (`revived`), though not
under the temp name and the database path both.

### StorageEngine

A client has one call in progress: a lock-free read or check, an autocommit
update, a transaction, `init`, or `init` with force. `pc` is the place in the call,
`work` the state that the mutator or the body edits. `base` is a history variable:
the file as the client loaded it. Loading is two steps, `path.exists` and the
read, so a writer can come between. A damaged file, a failed validation and an
I/O error are `LoadFails` and `CommitFails`. `Replace` is the commit as a whole,
by `AtomicFile`. An error after the replacement, from closing the directory or
giving up the lock, is not a separate step: for the file and the lock it is the same as
a return, and what a write answers is not in the state.

### Database

`current[d]` is `_active_transaction`, `state[t]` is `_state` (and `_active`),
`holder` the transaction with the lock, `entered` the blocks that have not ended,
`last` the outcome of the last call. A call is one step. The constant
`OverlappingExits` tells whether a block whose transaction the database has
closed may end while a newer transaction is open on the same database. A
`Transaction` object can be used again after its block. One thread uses a
`Database`, as its documentation asks. A call that writes may fail late: closing the
directory (`atomic.py:130`) or giving up the lock (`lock.py:99`) raises after the file
was replaced, so `ExitFails`, `WriteFails` and `InitCall` may raise with the old file or
with the new one. An exit of a transaction that is no longer active is `ExitLate`.

### Collection

Each operation is a function from the collections to an outcome, the new
collections with "ok", or an exception. A document is an id and its fields; a
body may lack an id, have a right, a wrong or an unacceptable one, or be refused
by `validate_document`. The checks come in the order of the code, and
`FirstError` takes the first that fails. The loop of `bulk_update` is the recursive
function `Applied`, the state after each entry, so that it can be proved about.

`copy.deepcopy` takes more of the stack for a dictionary than `validate_document` does,
so it may raise `RecursionError` for a body that was accepted. Values in `Deep` are of
that kind, and `room` tells whether the caller has left enough of the stack for them. In
the bulk operations the copy is inside the loop: `Copied` is how many bodies come
before the first that does not fit, and these stay applied. `update` changes the
document before it copies it for its caller. An argument of a bulk operation that is
not a list is `NotListStep`.

### Serializer and Load

A Python or JSON value is a record with one field named for its type, nested as in
the program. Its `Parts` are the values in it at any depth, itself included. The
recursive functions of the code are `Walk`, one function on the parts of a value that
says of each what `_encode`, `_decode`, `_coerce_set_member` and the check on reserved
keys return; `EncodeStep`, `DecodeStep`, `MemberStep` and `LooseStep` are their bodies,
with `new` for the recursive calls. A value nested deeper than `MaxNesting` does not
fit (`Fits`) and raises `RecursionError`, as in Python, whose limit is some number too:
the proofs hold for every `MaxNesting` from 3, the depth of an empty database, on. Tags
add depth, and so does the state around a value, so one that `validate_document` takes may be
too deep for the commit.

`DumpsRaises` and `Raised` say when encoding and decoding raise. The printed text
stands for the encoded value, since keys are sorted and separators fixed; three atoms
are kept that `json.loads` reads and `dumps` refuses (NaN, a number of more than 4300
digits, half of a surrogate pair), the Decimal NaN, and a second spelling of a date that
decodes to the same value. A checksum is a record of what it was computed from, so two
differ when their inputs do. Texts and characters are atoms.

In `Load`, `file` is what the path names: nothing, something unreadable, empty or not
JSON, or a JSON value. Commands are one step each, because `SerialStore` shows that
they take effect one after the other; each ends with the exit code that `main` gives
to its exception. `committed` is a history variable: what a reader should see, which
is what was written with its tuples outside of sets turned into lists (`Normal`). `Edit`
makes any JSON of the file that `Edited` has for it, at most `MaxEdits` times per
committed file, but computes no checksum. `LoadError` takes the checks of `load`
in their order: a tag is refused by its shape before it is decoded, the shape of the
state before the checksum.

### Query

A value is a record named for its type, a document a function from fields to values,
criteria a list of clauses in the order of the dictionary. A match is "yes", "no" or
"QueryError", and `FirstOther` is a loop that ends at its first outcome that is not
"yes", so the code's early returns, which hide later errors, are in the model. A field that
is not a string is `NotText`; criteria that are not a dictionary are one such field,
since both are refused at once.
`FindMeans` compares with a meaning without order, `Selected`. What is found is given by
its positions in the collection. Texts are sequences of character codes and their order
is the one of Python: the first difference decides.

### Ownership

A document is a dictionary whose fields refer to list objects. A place is a document
and a field; `value` is what is in the list at each place, and `alias` the places that
refer to the same list. So lists need no names, and heaps that differ in the names of
objects only are one state. Each operation that takes or returns a document makes the
copies that the code makes: `Rebind` says of each place whose list it refers to
afterwards, the one of an old place itself or its copy in one of the `deepcopy` calls,
which keep sharing inside a document. The caller may at any time change a list or put
it elsewhere. `written` is what the operations were given when they were called.

## 3. The runs

| Run | Instance | Result |
|---|---|---|
| `file_lock` | 3 locks, 2 inodes, 2 polls, Windows failures on | passes, about 15,000 states |
| `storage_engine` | 3 clients, 2 states | passes, about 27,000 states |
| `atomic_write` | 3 writes, 1 reader, 3 attempts, both platforms | passes, about 670,000 states |
| `database` | 2 databases with 2 and 1 transactions, 2 states | passes, about 2,050 states |
| `collection` | 2 names, 2 ids, 5 bodies good, bad and deep, with and without room, lists of up to 2 | passes, about 2,300 states |
| `load` | 1 id, 12 values good, bad and too deep, 10 foreign values at every place, 1 edit per commit, nesting up to 9 | passes, about 19,000 states |
| `query` | 5 documents, 2 at a time, all operators, criteria of up to 2 clauses, none and malformed | passes, about 14,000 states |
| `ownership` | 2 ids, 2 variables of the caller, 2 fields, 2 contents | passes, about 27,000 states |
| `atomic_write_dir_close` | as `atomic_write`, closing the directory may fail | `FailedWritesLeaveNoTrace` is violated |
| `database_late_exit` | as `database`, overlapping exits | `ReadsFollowTransaction` is violated |
| `database_init_in_transaction` | as `database` | `DatabaseWritesRefused` is violated |
| `load_reserved_id` | as `load`, the id is `__jsondb_type__` | `LoadsBack` is violated |

What the passing runs show:

* `file_lock`: `MutualExclusion`, `NoOrphanedLock` (success, failure or death),
  `ImplementsLock`, and `AcquireReturns` however often others overtake.
* `storage_engine`: `NoLostUpdate`, `ImplementsSerialStore`, `LockFollowsCall`,
  `InitNeverClobbers`, `FileNeverVanishes` for readers without a lock, and
  `CallReturns` though another client may stay in its transaction for ever.
* `atomic_write`: `ReadersSeeWholeFiles`, `AcknowledgedWritesSurvive`,
  `FailedWritesLeaveNoTrace`, `NoLitter`, `WriteReturns`, `ImplementsAtomicFile`, and
  `ModeIsInherited`: a commit gives the file no permissions but those that it has had
  since the write began.
* `database`: the lock, the route, the reads and the file follow the open
  transaction, also when a call raises after it has replaced the file; no call but
  `init` waits for its own lock.
* `collection`: `RaisingKeepsState` (an operation that finds fault with its arguments
  changes nothing, one that runs out of stack takes nothing away), `CommitAcceptsShape`
  (names, ids and id fields stay good; what the encoder refuses is the subject of
  `Load`), `BulkUpdateIsSequential`, `UpsertAgreesWithReplace`, `ReadsBack`.
* `load`: `LoadsBack` (sets with tuples of dates in them and all other types, in
  every nesting of the instance), `DamageIsSeen` (`check` passes no edited file but
  one with the committed content in another spelling), `DamageStays` (only
  `init --force` replaces a damaged file, also when it fails late, so damage never gets
  a valid checksum) and
  `ExitCodes` (damage gives 4 whatever the command, and only damage does).
* `query`: `FindMeans`, and `OperatorLaws` for missing and null fields.
* `ownership`: `StateIsWhatWasWritten`.

The violations are disagreements between the code and what it says of itself:

1. `atomic.py:130` closes the directory in a `finally` clause without an
   `except`. If that raises, the commit raises `StorageError` although the file
   was replaced; `tests/test_transactions.py:74` says that the file is untouched.
2. `transaction.py:78` clears `_active_transaction` without looking whose it is.
   A late exit hides a newer transaction from reads, against ADR 0008. The lock
   is not affected: `LockFollowsTransaction` is proved with overlapping exits too.
3. `database.py:105` does not refuse `init` in a transaction, as ADR 0008 says of
   writes; it waits for its own lock and raises `LockError`.
4. `collection.py:279` accepts the document id `__jsondb_type__`. `upsert` under it
   is committed, and from then on `load` takes the object of documents for a tagged
   value and raises `DatabaseFormatError`: the whole database cannot be read, though
   the library alone has written it. Only `upsert` can do so; other operations that
   make a document choose their id.

Met on the way, in the models, and not against a property. `bulk_update` and
`bulk_insert` copy inside their loops (`collection.py:222`, `:197`), so a body too deep
for `copy.deepcopy` leaves the entries before it applied, where the docstring at
`collection.py:92-96` says of invalid updates that none apply; `update` raises in the same
way for the copy it returns, with the document already changed. A `chmod` by the user
between `atomic.py:68` and the replacement is undone by the commit, which so may give
back permissions that were just taken away. A commit or a lock that raises after the
replacement hides that the file has changed. `load` raises
`SerializationError` for a file with NaN, a tagged Decimal "nan" or half of a surrogate
pair, `ValueError` for a huge number and `RecursionError` for a nesting that is too deep.
`check_integrity` catches none of them, so `check` ends with 2 or 1 for such files and
not with 4 (`Strange` in `Load`). `validate_document` takes a value that is less deep than
the limit and that the state around it, or its tags, make too deep for the commit. `check` on an
unreadable file ends with 4 where other commands end with 5. An `OSError` from making
the lock file or the directory ends the command line with a traceback and code 1.

### Why the bounds are enough

Three locks are the least for the race of ADR 0009 (holder, waiter, newcomer), and
two inodes let a recreated file differ from the old one. Three clients give two
writers and a reader or a creator at once; two states tell an update from its
absence. Three writes give a committed file, its replacement, and one that fails,
dies or is lost on top; three attempts give a first, a middle and a last one (the
code has ten). Two transactions on one database are needed to leak one and open
another, and a second database is a rival for the lock. Two entries in a bulk list
are the least in which one fails after another passed, or both name one document.
One edit reaches every place of the file, and the state after it is judged by
itself; the foreign values are of every type that a check tells apart, and each value
that callers pass is there for one way of nesting or one error. A nesting of 9 is more than
all good values need, so that of the values only the two made for it are too deep. Two documents are the
least whose order `find` must keep, and two clauses or two operators the least of
which one hides the other. With two ids a bulk operation can share one list between
two documents, and with two variables the caller can keep both what it passed in and
what it got back, or pass one list in two documents. `MaxWrites`, `Polls`, `Attempts`, `MaxBulk`,
`MaxEdits` and `MaxDocs` are the only bounds on counters.

### Fairness

`FileLock`: weak fairness of the steps of `acquire`, a loop on the caller's own
thread. `StorageEngine`: weak fairness of a client's library steps and autocommit
mutators; none for a transaction body, which is the caller's and may last for ever.
`AtomicWrite`: weak fairness of the writer's steps; none for readers, which may
keep the file open. Crashes and callers are never fair. `Database`, `Collection`,
`Load`, `Query` and `Ownership` have no liveness properties, as their steps are whole
calls.

## 4. The proofs

`FileLockProofs`, `StorageEngineProofs`, `AtomicWriteProofs`, `DatabaseProofs`,
`CollectionProofs`, `QueryProofs`, `OwnershipProofs` and `LoadProofs` prove every safety,
action and refinement property of the passing runs, with the type invariants, for all
values of the constants that satisfy the named assumptions of each module.

* **FileLock.** `IInv` adds to the type invariant that all open descriptors are on
  the inode that the path names (`OneInode`) and that `_locked` agrees with the
  operating system (`HolderOwns`). Mutual exclusion is not inductive without the
  first: two holders could be on two inodes. From `IInv` every step maps to
  `AbstractLock`.
* **StorageEngine.** The invariant adds the job that each place belongs to and
  that a client outside a transaction keeps no state. Since exactly the clients in
  a locked region hold the lock, and at most one does, nobody else can replace the
  file of a writer, which is `NoLostUpdate`; with it a commit maps to a commit of
  `SerialStore`, whose guard is that the store is the one it was copied from.
* **AtomicWrite.** The invariant relates the place in the write to what is synced
  and to what the path names and may name after a power loss: only complete and
  synced files ever get a chance to be the database file.
* **Database.** The lock needs only that a database routes to its own
  transactions. Routing, reads and self-lockout are proved under
  `OverlappingExits = FALSE`; the run `database_late_exit` shows that the
  condition is necessary.
* `FailedWritesLeaveNoTrace` is proved under `DirCloseCanFail = FALSE`; the run
  `atomic_write_dir_close` shows that this is necessary too.
* **Collection.** `IInv` is that every collection has a good name, every document a
  good id and that same id as a field, and two fields in all (`Sound`); it is
  inductive, and each operation keeps it because its checks rule out the rest. For
  loops that end half-way this is shown of the state after every number of entries,
  together with the fact that nothing has been lost (`Keeps`, `AppliedSound`), from
  which `RaisingKeepsState` follows.
  `UpsertAgreesWithReplace` and `ReadsBack` are about one operation in any such
  state. `BulkUpdateIsSequential` compares two loops, over lists of any length: the
  one that checks all and then applies all, and the one that checks and applies each
  entry in turn. Both are recursive functions on the number of entries. That such
  functions exist, and that the loops agree up to each entry, is shown by the
  least-number principle (`LeastNumber`), which comes from the library's theorem
  that strict inclusion of finite sets is well-founded: a least number of entries at
  which the claim fails has a predecessor at which it holds. The argument on one entry is that
  applying an entry keeps the set of documents, so that checks made before and checks
  made in between say the same.
* **Query.** `FindMeans` is about the last query, so the invariant is that its outcome
  is that of `Find` on the documents as they are (`LastIsCurrent`). Level by level, a
  loop that stops at its first "no" or error says "yes" exactly if everything it goes
  over does, and an error comes from something malformed, which by itself rules out a
  "yes". The assumption is that each clause has a value or an expression. `OperatorLaws`
  rests on the order being total on values of one type; for texts the first place at
  which two of them differ is again a least number.
* **Ownership.** The invariant is `Clean`: the list at a place of a stored document is at
  no place of another document. A deep copy shares with its own document only, the
  caller links lists among its own documents only, and so a list that the caller
  changes is at no place of the state. `StateIsWhatWasWritten` alone is not
  inductive, since a shared list does no harm until it is changed.

* **Load and Serializer.** The properties are about values in any nesting, so the proof
  starts with an induction over the parts of a value (`PartsInduction`: a set that has
  every part whose children it has, has them all), from the least-number principle on
  depths. By it `Walk` exists and is unique (`WalkExists`, `WalkFacts`), which gives each
  recursive function of the code as equations (`EncodeRules`, `DecodeRules` and so on),
  and by it three facts are shown of a plain value, one of the supported types without
  reserved keys: it is decoded from its encoding as its normal form (`RoundTrip`; in a
  set, where arrays become tuples, as itself), values of one encoding have one normal
  form (`EncodeTells`, without which one checksum could stand for two contents), and
  its encoding passes the check on tags (`EncodeFacts`). Of what anyone may have written,
  `DecodeFacts` shows that what is decoded is plain, normal and of the atoms of the file.

  `IInv` says of the committed state that it is plain, normal and printable, has the
  shape, agrees with its checksum and contains no other one (`StateOK`), of a file that
  nobody edited that it is the encoding of that state, and of any file that its only
  checksum is that of the state. `LoadsBack` and `DamageIsSeen` are not inductive: a write
  stores what it has loaded, so what is loaded must be such a state again, and a file
  with the checksum of its content is the committed one only because no other
  checksum is in reach of an edit. With a checksum that agrees, two encodings are equal,
  and by `EncodeTells` the states are. `DamageStays` and `ExitCodes` follow by the kind
  of step: every command under the lock stores such a state after `load` succeeded, and
  may then still raise, or fails and changes nothing (`LockedStep`).

  The theorems assume `TypeKey \notin Ids`: the run `load_reserved_id` shows that they
  are false otherwise. `ValuesAssumption` says that ids are non-empty strings and values
  are Python values that hold no checksum of a state, `NestingAssumption` that an empty
  database fits. Nothing is assumed of `Edited` and `MaxEdits`: an edit makes any JSON
  that has no checksum but those of the file.

Only model-checked: the liveness properties (`AcquireReturns`, `CallReturns`,
`WriteReturns`), since the provers handle neither fairness nor ENABLED. The library's
induction theorems cannot be used, as they take an operator as a parameter; the
least-number principle stands for them, and the recursions of the models are functions.

## 5. Not modelled

* **Exceptions between two byte codes.** A `KeyboardInterrupt` just after
  `transaction.py:49` leaks the lock; one between lines 52 and 54 leaves the
  route set. Actions fail only where a call can raise.
* **Threads that share a `Database`**, which its documentation excludes.
* **Permission bits in a power loss**: a file keeps the mode it had.
* **The characters of a collection name** (`collection.py:100-110`): a name is valid
  or not. A regular expression on strings is a unit test's work.
* **Arguments and output** of the command line: `argparse` and the printed text.
* **The stack of the caller.** The nesting at which `RecursionError` is raised is one
  number in `Load`; in Python it depends on how deep the caller of the library is, and
  differs between the recursive functions. `Collection` has the difference that matters
  there, between validation and copy, as `Deep` and `room`.
* **Numbers** are integers: a Decimal NaN in a comparison raises
  `decimal.InvalidOperation` out of `find`, as `query.py:119` catches only `TypeError`.
  Values that are equal across types in Python (`1`, `1.0`, `True`) are not in the
  instances.
* **Time.** All commits of `Load` have one time stamp.
* **Demo scripts, JSON schemas, tests, packaging** have no behaviour of their own.

## 6. Plan

All parts are done, in this order: `FileLock` with `AbstractLock`, `StorageEngine`
with `SerialStore`, `AtomicWrite` with `AtomicFile`, and `Database`, each with its
proofs; `Collection`; `Serializer` and `Load`; `Query`; `Ownership`; the proofs about
`Collection`, `Query`, `Ownership` and `Load`; failures after the replacement in
`Database` and `Load`, a `chmod` and temp names over a power loss in `AtomicWrite`, and
copies that run out of stack in `Collection`. What could follow: a limit on nesting of
its own for each recursive function in `Load`.
