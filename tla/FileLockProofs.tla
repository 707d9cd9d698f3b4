--------------------------- MODULE FileLockProofs ---------------------------
(***************************************************************************)
(* FileLock is correct for any number of FileLock objects, inodes and polls. *)
(* The argument: the lock path, once it names an inode, names that one for   *)
(* ever (release() does not unlink it), so all open descriptors are on one   *)
(* inode, which has one owner.                                              *)
(***************************************************************************)
EXTENDS FileLock, TLAPS

\* All open descriptors are on the one inode that the path names.
OneInode ==
  \A a \in Acquirers :
    IF pc[a] = "idle" THEN file[a] = None ELSE file[a] = path /\ path # None

\* _locked means that the operating system agrees.
HolderOwns == \A a \in Acquirers : pc[a] = "held" => owner[file[a]] = a

IInv == TypeOK /\ OneInode /\ HolderOwns /\ NoOrphanedLock

-----------------------------------------------------------------------------
\* Closing a descriptor leaves the locks of all others alone.
LEMMA DisownFacts ==
  ASSUME TypeOK, NEW a \in Acquirers
  PROVE  /\ Disown(a) \in [Inodes -> Acquirers \cup {None}]
         /\ \A i \in Inodes : Disown(a)[i] = IF owner[i] = a THEN None ELSE owner[i]
  BY DEF TypeOK, Disown

LEMMA InitIInv == Init => IInv
  BY FileLockAssumption DEF Init, IInv, TypeOK, OneInode, HolderOwns, NoOrphanedLock

LEMMA NextIInv == IInv /\ [Next]_vars => IInv'
<1> SUFFICES ASSUME IInv, [Next]_vars PROVE IInv'
  OBVIOUS
<1> USE FileLockAssumption DEF IInv, TypeOK, OneInode, HolderOwns, NoOrphanedLock
<1>1. ASSUME NEW a \in Acquirers, Open(a) PROVE IInv'
  BY <1>1 DEF Open
<1>2. ASSUME NEW a \in Acquirers, Prepare(a) PROVE IInv'
  BY <1>2 DEF Prepare
<1>3. ASSUME NEW a \in Acquirers, PrepareFails(a) PROVE IInv'
  BY <1>3 DEF PrepareFails
<1>4. ASSUME NEW a \in Acquirers, TryLock(a) PROVE IInv'
  BY <1>4 DEF TryLock
<1>5. ASSUME NEW a \in Acquirers, Sleep(a) PROVE IInv'
  BY <1>5 DEF Sleep
<1>6. ASSUME NEW a \in Acquirers, Timeout(a) PROVE IInv'
  BY <1>6 DEF Timeout
<1>7. ASSUME NEW a \in Acquirers, Unlock(a) PROVE IInv'
  BY <1>7, DisownFacts DEF Unlock
<1>8. ASSUME NEW a \in Acquirers, Close(a) PROVE IInv'
  BY <1>8, DisownFacts DEF Close
<1>9. ASSUME NEW a \in Acquirers, Crash(a) PROVE IInv'
  BY <1>9, DisownFacts DEF Crash
<1>10. ASSUME NEW a \in Acquirers, Refused(a) PROVE IInv'
  BY <1>10 DEF Refused
<1>11. CASE UNCHANGED vars
  BY <1>11 DEF vars
<1>. QED
  BY <1>1, <1>2, <1>3, <1>4, <1>5, <1>6, <1>7, <1>8, <1>9, <1>10, <1>11 DEF Next, AcquireStep

LEMMA Invariance == Spec => []IInv
  BY InitIInv, NextIInv, PTL DEF Spec

-----------------------------------------------------------------------------
\* Type correctness of FileLock, for any number of acquirers.
THEOREM TypeCorrect == Spec => []TypeOK
  BY Invariance, PTL DEF IInv

\* No two FileLock objects believe that they hold the lock.
THEOREM MutualExclusionHolds == Spec => []MutualExclusion
<1>1. IInv => MutualExclusion
  BY DEF IInv, OneInode, HolderOwns, MutualExclusion
<1>. QED
  BY <1>1, Invariance, PTL

\* No lock of the operating system outlives the FileLock that took it.
THEOREM NoOrphanedLockHolds == Spec => []NoOrphanedLock
  BY Invariance, PTL DEF IInv

-----------------------------------------------------------------------------
Held == {a \in Acquirers : pc[a] = "held"}

\* Taking the inode's lock enters an empty critical section.
LEMMA TryLockEnters ==
  ASSUME IInv, NEW a \in Acquirers, TryLock(a)
  PROVE  Held = {} /\ Held' = {a}
<1>1. Held = {}
  BY FileLockAssumption DEF IInv, TypeOK, OneInode, HolderOwns, TryLock, Held
<1>2. \A b \in Acquirers : pc'[b] = IF b = a THEN "held" ELSE pc[b]
  BY DEF IInv, TypeOK, TryLock
<1>. QED
  BY <1>1, <1>2 DEF Held

\* A step that takes a out of "held" or leaves it out ends at most its own section.
LEMMA LeavingStep ==
  ASSUME TypeOK, NEW a \in Acquirers, NEW s, s # "held", pc' = [pc EXCEPT ![a] = s]
  PROVE  Held' = Held \ {a}
  BY DEF TypeOK, Held

\* The inode-level protocol implements the lock that StorageEngine is built on.
THEOREM LockRefinement == Spec => ImplementsLock
<1>1. Init => Lock!Init
  BY DEF Init, Lock!Init
<1>2. IInv /\ [Next]_vars => [Lock!Next]_Held
  <2> SUFFICES ASSUME IInv, [Next]_vars PROVE [Lock!Next]_Held
    OBVIOUS
  <2>1. ASSUME NEW a \in Acquirers, TryLock(a) PROVE Lock!Acquire(a)
    BY <2>1, TryLockEnters DEF Lock!Acquire, Held
  <2>2. ASSUME NEW a \in Acquirers, Held' = Held \ {a} PROVE Lock!Leave(a) \/ Held' = Held
    BY <2>2 DEF Lock!Leave, Held
  <2>3. ASSUME NEW a \in Acquirers,
               \/ Open(a) \/ Prepare(a) \/ PrepareFails(a) \/ Refused(a) \/ Sleep(a)
               \/ Timeout(a) \/ Unlock(a) \/ Close(a) \/ Crash(a)
        PROVE  Held' = Held \ {a}
    BY <2>3, LeavingStep
    DEF IInv, Open, Prepare, PrepareFails, Refused, Sleep, Timeout, Unlock, Close, Crash
  <2>4. CASE UNCHANGED vars
    BY <2>4 DEF vars, Held
  <2>. QED
    BY <2>1, <2>2, <2>3, <2>4 DEF Next, AcquireStep, Lock!Next
<1>. QED
  BY <1>1, <1>2, Invariance, PTL DEF Spec, ImplementsLock, Lock!Spec, Held
=============================================================================
