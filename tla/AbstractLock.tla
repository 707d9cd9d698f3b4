---------------------------- MODULE AbstractLock ----------------------------
(***************************************************************************)
(* What the storage engine relies on when it enters `with self.lock():` at  *)
(* most one acquirer is inside the critical section, whoever the others     *)
(* are and whatever becomes of them.  FileLock implements this module;      *)
(* StorageEngine is built on it.                                            *)
(***************************************************************************)
CONSTANT Acquirers

VARIABLE inside         \* the acquirers that are in their critical section

Init == inside = {}

Acquire(a) == inside = {} /\ inside' = {a}

\* A release, an exception that unwinds the `with` block, or the death of the
\* process: the operating system ends the critical section in each case.
Leave(a) == a \in inside /\ inside' = inside \ {a}

Next == \E a \in Acquirers : Acquire(a) \/ Leave(a)

Spec == Init /\ [][Next]_inside
=============================================================================
