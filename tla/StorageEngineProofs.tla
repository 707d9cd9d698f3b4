------------------------- MODULE StorageEngineProofs -------------------------
(***************************************************************************)
(* StorageEngine is correct for any number of clients and any database       *)
(* states.  The argument: whoever is between a load and a commit holds the   *)
(* lock (LockFollowsCall), the lock has one holder (OneHolder), and only its  *)
(* holder changes the file; so what a holder learnt about the file, that it   *)
(* is missing (InitNeverClobbers) or what it holds (NoLostUpdate), is still   *)
(* so when it acts on it.  With that, every step is a step of SerialStore.    *)
(***************************************************************************)
EXTENDS StorageEngine, TLAPS

\* The calls that reach each place in the code.
JobAtPc ==
  \A c \in Clients :
    /\ pc[c] = "idle" <=> job[c] = "none"
    /\ pc[c] = "checking" => job[c] = "check"
    /\ pc[c] \in {"looking", "reading"} => job[c] \notin Creators
    /\ pc[c] = "creating" => job[c] \in Creators
    /\ pc[c] = "open" => job[c] \in Writers
    /\ pc[c] \in {"waiting", "writing", "unwinding"} => job[c] \in Writers \cup Creators

OneHolder == \A c, d \in inside : c = d

\* c has loaded a state that it may commit.
HasState(c) == pc[c] \in {"open", "writing"} /\ job[c] \in Writers

\* A client with nothing to commit keeps no state.
NothingKept == \A c \in Clients : ~HasState(c) => base[c] = NoFile /\ work[c] = Empty

IInv ==
  /\ TypeOK
  /\ JobAtPc
  /\ OneHolder
  /\ LockFollowsCall
  /\ NoLostUpdate
  /\ InitNeverClobbers
  /\ FileNeverVanishes
  /\ NothingKept

-----------------------------------------------------------------------------
LEMMA InitIInv == Init => IInv
  BY StorageEngineAssumption
  DEF Init, IInv, TypeOK, JobAtPc, OneHolder, LockFollowsCall, InLockedRegion, NoLostUpdate,
      InitNeverClobbers, FileNeverVanishes, NothingKept, HasState,
      Readers, Writers, Creators, Locked

LEMMA NextIInv == IInv /\ [Next]_vars => IInv'
<1> SUFFICES ASSUME IInv, [Next]_vars PROVE IInv'
  OBVIOUS
<1> USE StorageEngineAssumption
    DEF IInv, TypeOK, JobAtPc, OneHolder, LockFollowsCall, InLockedRegion, NoLostUpdate,
        InitNeverClobbers, FileNeverVanishes, NothingKept, HasState,
        Readers, Writers, Creators, Locked, Goto, Return, Forget
<1>1. ASSUME NEW c \in Clients, Call(c) PROVE IInv'
  BY <1>1 DEF Call
<1>2. ASSUME NEW c \in Clients, CheckMissing(c) \/ CheckPresent(c) PROVE IInv'
  BY <1>2 DEF CheckMissing, CheckPresent
<1>3. ASSUME NEW c \in Clients, FindMissing(c) PROVE IInv'
  <2>1. CASE job[c] \in Readers
    BY <1>3, <2>1 DEF FindMissing, Loaded
  <2>2. CASE job[c] \notin Readers
    BY <1>3, <2>2 DEF FindMissing, Loaded
  <2>. QED
    BY <2>1, <2>2
<1>4. ASSUME NEW c \in Clients, FindPresent(c) PROVE IInv'
  BY <1>4 DEF FindPresent
<1>5. ASSUME NEW c \in Clients, ReadFile(c) PROVE IInv'
  <2>1. CASE job[c] \in Readers
    BY <1>5, <2>1 DEF ReadFile, Loaded
  <2>2. CASE job[c] \notin Readers
    BY <1>5, <2>2 DEF ReadFile, Loaded
  <2>. QED
    BY <2>1, <2>2
<1>6. ASSUME NEW c \in Clients, LoadFails(c) PROVE IInv'
  BY <1>6 DEF LoadFails
<1>7. ASSUME NEW c \in Clients, Acquire(c) PROVE IInv'
  BY <1>7 DEF Acquire, Lock!Acquire
<1>8. ASSUME NEW c \in Clients, GiveUp(c) PROVE IInv'
  BY <1>8 DEF GiveUp
<1>9. ASSUME NEW c \in Clients, Release(c) PROVE IInv'
  BY <1>9 DEF Release, Lock!Leave
<1>10. ASSUME NEW c \in Clients, Edit(c) PROVE IInv'
  BY <1>10 DEF Edit
<1>11. ASSUME NEW c \in Clients, BodyEnds(c) \/ BodyRaises(c) PROVE IInv'
  BY <1>11 DEF BodyEnds, BodyRaises
<1>12. ASSUME NEW c \in Clients, CreateRefused(c) \/ Create(c) PROVE IInv'
  BY <1>12 DEF CreateRefused, Create
<1>13. ASSUME NEW c \in Clients, Replace(c) PROVE IInv'
  BY <1>13 DEF Replace
<1>14. ASSUME NEW c \in Clients, CommitFails(c) PROVE IInv'
  BY <1>14 DEF CommitFails
<1>15. ASSUME NEW c \in Clients, Crash(c) PROVE IInv'
  BY <1>15 DEF Crash
<1>16. CASE UNCHANGED vars
  BY <1>16 DEF vars
<1>. QED
  BY <1>1, <1>2, <1>3, <1>4, <1>5, <1>6, <1>7, <1>8, <1>9, <1>10, <1>11, <1>12, <1>13,
     <1>14, <1>15, <1>16
  DEF Next, LibraryStep

LEMMA Invariance == Spec => []IInv
  BY InitIInv, NextIInv, PTL DEF Spec

-----------------------------------------------------------------------------
\* Type correctness of StorageEngine, for any clients and states.
THEOREM TypeCorrect == Spec => []TypeOK
  BY Invariance, PTL DEF IInv

\* The lock is held in exactly the locked regions of the calls, whatever fails there.
THEOREM LockFollowsCallHolds == Spec => []LockFollowsCall
  BY Invariance, PTL DEF IInv

\* No commit overwrites an update that its writer has not seen.
THEOREM NoLostUpdateHolds == Spec => []NoLostUpdate
  BY Invariance, PTL DEF IInv

\* init() without force never replaces a database.
THEOREM InitNeverClobbersHolds == Spec => []InitNeverClobbers
  BY Invariance, PTL DEF IInv

\* A file that a lock-free reader has seen is there when the reader opens it.
THEOREM FileNeverVanishesHolds == Spec => []FileNeverVanishes
  BY Invariance, PTL DEF IInv

-----------------------------------------------------------------------------
Active == {c \in Clients : HasState(c)}

\* A step of c that moves c into or out of the states that may be committed, or
\* does neither, whether it ends c's call or not.
LEMMA StepOfClient ==
  ASSUME TypeOK, NEW c \in Clients, NEW p, pc' = [pc EXCEPT ![c] = p],
         job' = job \/ job' = [job EXCEPT ![c] = "none"]
  PROVE  /\ p \notin {"open", "writing"} => Active' = Active \ {c}
         /\ p \in {"open", "writing"} /\ job' = job /\ job[c] \in Writers
              => Active' = Active \cup {c}
         /\ job' = job /\ job[c] \notin Writers => Active' = Active \ {c}
  BY DEF TypeOK, Active, HasState

\* Every step of StorageEngine is a step of SerialStore or invisible in it.
LEMMA NextSerial == IInv /\ [Next]_vars => [Serial!Next]_Serial!svars
<1> SUFFICES ASSUME IInv, [Next]_vars, ~UNCHANGED Serial!svars PROVE Serial!Next
  OBVIOUS
<1> USE DEF IInv, TypeOK, JobAtPc, NothingKept, HasState, Active,
            Goto, Return, Forget, Serial!Forget
<1>1. ASSUME NEW c \in Clients, Call(c) PROVE Serial!Next
  <2>1. Active' = Active /\ c \notin Active
    BY <1>1 DEF Call, Readers, Writers, Creators
  <2>. QED
    BY <1>1, <2>1 DEF Call, Serial!Next, Serial!Ask
<1>2. ASSUME NEW c \in Clients,
             \/ CheckPresent(c) \/ FindPresent(c) \/ LoadFails(c) \/ Acquire(c) \/ GiveUp(c)
             \/ Release(c) \/ CreateRefused(c) \/ Create(c) \/ BodyEnds(c)
      PROVE  FALSE
  <2>1. Active' = Active
    BY <1>2, StepOfClient
    DEF CheckPresent, FindPresent, LoadFails, Acquire, GiveUp, Release, CreateRefused, Create,
        BodyEnds, Readers, Writers, Creators
  <2>2. UNCHANGED <<file, base, work, answer>>
    BY <1>2
    DEF CheckPresent, FindPresent, LoadFails, Acquire, GiveUp, Release, CreateRefused, Create,
        BodyEnds
  <2>. QED
    BY <2>1, <2>2 DEF Serial!svars
<1>3. ASSUME NEW c \in Clients, CheckMissing(c) PROVE Serial!Next
  <2>1. Active' = Active /\ c \notin Active
    BY <1>3, StepOfClient DEF CheckMissing
  <2>. QED
    BY <1>3, <2>1 DEF CheckMissing, Serial!Next, Serial!Read
<1>4. ASSUME NEW c \in Clients, NEW s \in States, s = Serial!Content(file), c \notin Active,
             Loaded(c, s), UNCHANGED <<file, inside>>, job[c] \in Readers \cup Writers
      PROVE  Serial!Next
  <2>1. CASE job[c] \in Readers
    <3>1. Active' = Active
      BY <1>4, <2>1, StepOfClient DEF Loaded
    <3>. QED
      BY <1>4, <2>1, <3>1 DEF Loaded, Serial!Next, Serial!Read
  <2>2. CASE job[c] \in Writers
    <3>1. Active' = Active \cup {c}
      BY <1>4, <2>2, StepOfClient DEF Loaded, Readers, Writers
    <3>. QED
      BY <1>4, <2>2, <3>1 DEF Loaded, Readers, Writers, Serial!Next, Serial!Begin
  <2>. QED
    BY <1>4, <2>1, <2>2
<1>5. ASSUME NEW c \in Clients, FindMissing(c) \/ ReadFile(c) PROVE Serial!Next
  <2>1. c \notin Active /\ job[c] \in Readers \cup Writers
    BY <1>5 DEF FindMissing, ReadFile
  <2>. QED
    BY <1>4, <1>5, <2>1, StorageEngineAssumption DEF FindMissing, ReadFile, Serial!Content
<1>6. ASSUME NEW c \in Clients, Edit(c) PROVE Serial!Next
  <2>1. Active' = Active /\ c \in Active
    BY <1>6 DEF Edit, Writers
  <2>. QED
    BY <1>6, <2>1 DEF Edit, Serial!Next, Serial!Edit
<1>7. ASSUME NEW c \in Clients, Forget(c), UNCHANGED <<file, answer>>, Active' = Active \ {c}
      PROVE  Serial!Next
  <2>1. CASE c \in Active
    BY <1>7, <2>1 DEF Serial!Next, Serial!Abort
  <2>2. CASE c \notin Active
    BY <1>7, <2>2 DEF Serial!svars
  <2>. QED
    BY <2>1, <2>2
<1>8. ASSUME NEW c \in Clients, BodyRaises(c) \/ CommitFails(c) \/ Crash(c) PROVE Serial!Next
  <2>1. Active' = Active \ {c}
    BY <1>8, StepOfClient DEF BodyRaises, CommitFails, Crash
  <2>. QED
    BY <1>7, <1>8, <2>1 DEF BodyRaises, CommitFails, Crash
<1>9. ASSUME NEW c \in Clients, Replace(c) PROVE Serial!Next
  <2>1. Active' = Active \ {c}
    BY <1>9, StepOfClient DEF Replace
  <2>2. CASE job[c] \in Writers
    BY <1>9, <2>1, <2>2 DEF Replace, NoLostUpdate, Writers, Creators, Serial!Next, Serial!Commit
  <2>3. CASE job[c] \in Creators
    BY <1>9, <2>1, <2>3 DEF Replace, Writers, Creators, Serial!Next, Serial!Reset
  <2>. QED
    BY <1>9, <2>2, <2>3 DEF Replace
<1>10. ~UNCHANGED vars
  BY DEF vars, Serial!svars
<1>. QED
  BY <1>1, <1>2, <1>3, <1>5, <1>6, <1>8, <1>9, <1>10 DEF Next, LibraryStep

\* StorageEngine implements the strictly serializable store, for any clients and states.
THEOREM SerialRefinement == Spec => ImplementsSerialStore
<1>1. Init => Serial!Init
  BY DEF Init, Serial!Init
<1>. QED
  BY <1>1, NextSerial, Invariance, PTL DEF Spec, ImplementsSerialStore, Serial!Spec
=============================================================================
