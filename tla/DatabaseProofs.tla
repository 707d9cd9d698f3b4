--------------------------- MODULE DatabaseProofs ---------------------------
(***************************************************************************)
(* Database and Transaction objects keep ADR 0008's promise for any number    *)
(* of them, as long as no `with` block of a force-closed transaction ends      *)
(* under a newer one.  The lock needs no such condition.                      *)
(***************************************************************************)
EXTENDS Database, TLAPS

USE DatabaseAssumption

\* A database only ever routes to transactions of its own.
RouteIsOwn == \A d \in Databases : current[d] # None => DatabaseOf[current[d]] = d

LInv == TypeOK /\ RouteIsOwn /\ LockFollowsTransaction

LEMMA InitLInv == Init => LInv
  BY DEF Init, LInv, TypeOK, RouteIsOwn, LockFollowsTransaction, IsOpen, Calls, Results

LEMMA NextLInv == LInv /\ [Next]_vars => LInv'
<1> SUFFICES ASSUME LInv, [Next]_vars PROVE LInv'
  OBVIOUS
<1> USE DEF LInv, TypeOK, RouteIsOwn, LockFollowsTransaction, IsOpen, Calls, Results, Failures, Say, Load
<1>1. ASSUME NEW t \in Transactions, EnterNested(t) \/ EnterFails(t) PROVE LInv'
  BY <1>1 DEF EnterNested, EnterFails
<1>2. ASSUME NEW t \in Transactions, Enter(t) PROVE LInv'
  BY <1>2 DEF Enter
<1>3. ASSUME NEW t \in Transactions, Operate(t) PROVE LInv'
  BY <1>3 DEF Operate
<1>4. ASSUME NEW t \in Transactions, ExitCommits(t) PROVE LInv'
  BY <1>4 DEF ExitCommits, LeaveBlock, Close
<1>5. ASSUME NEW t \in Transactions, ExitFails(t) \/ ExitLate(t) \/ ExitRaising(t) PROVE LInv'
  BY <1>5 DEF ExitFails, ExitLate, ExitRaising, LeaveBlock, Close
<1>6. ASSUME NEW d \in Databases, Read(d) \/ ReadFails(d) \/ CheckIntegrity(d) PROVE LInv'
  BY <1>6 DEF Read, ReadFails, CheckIntegrity
<1>7. ASSUME NEW d \in Databases, WriteRefused(d) \/ Write(d) \/ WriteFails(d) \/ InitCall(d)
      PROVE  LInv'
  BY <1>7 DEF WriteRefused, Write, WriteFails, InitCall
<1>8. ASSUME NEW d \in Databases, ExitDatabase(d) \/ ExitDatabaseRaising(d) PROVE LInv'
  BY <1>8 DEF ExitDatabase, ExitDatabaseRaising, Close
<1>9. ASSUME NEW d \in Databases, Crash(d) PROVE LInv'
  BY <1>9 DEF Crash
<1>10. CASE UNCHANGED vars
  BY <1>10 DEF vars
<1>. QED
  BY <1>1, <1>2, <1>3, <1>4, <1>5, <1>6, <1>7, <1>8, <1>9, <1>10
  DEF Next, TransactionStep, DatabaseStep

LEMMA LockInvariance == Spec => []LInv
  BY InitLInv, NextLInv, PTL DEF Spec

\* Type correctness, for any databases, transactions and states.
THEOREM TypeCorrect == Spec => []TypeOK
  BY LockInvariance, PTL DEF LInv

\* The file lock is held by the open transaction, in whatever order blocks end.
THEOREM LockFollowsTransactionHolds == Spec => []LockFollowsTransaction
  BY LockInvariance, PTL DEF LInv

\* Nobody changes the file under an open transaction.
THEOREM OpenTransactionOwnsFileHolds == Spec => OpenTransactionOwnsFile
<1>1. LInv /\ [Next]_vars =>
        [\A t \in Transactions :
           IsOpen(t) /\ file' # file => last'.call = "exit" /\ file' = state[t]]_vars
  <2> SUFFICES ASSUME LInv, Next, NEW t \in Transactions, IsOpen(t), file' # file
               PROVE  last'.call = "exit" /\ file' = state[t]
    BY DEF vars
  <2>1. holder = t
    BY DEF LInv, LockFollowsTransaction
  <2>2. PICK u \in Transactions : ExitCommits(u) \/ ExitFails(u)
    BY <2>1
    DEF Next, TransactionStep, DatabaseStep, EnterNested, EnterFails, Enter, Operate,
        ExitLate, ExitRaising, Read, ReadFails, CheckIntegrity, WriteRefused, Write, WriteFails,
        InitCall, ExitDatabase, ExitDatabaseRaising, Crash
  <2>. QED
    BY <2>1, <2>2 DEF ExitCommits, ExitFails, Say, LInv, LockFollowsTransaction
<1>. QED
  BY <1>1, LockInvariance, PTL DEF Spec, OpenTransactionOwnsFile

-----------------------------------------------------------------------------
IInv == LInv /\ RoutingFollowsTransaction

LEMMA NextRouting ==
  ASSUME OverlappingExits = FALSE
  PROVE  IInv /\ [Next]_vars => RoutingFollowsTransaction'
<1> SUFFICES ASSUME IInv, [Next]_vars PROVE RoutingFollowsTransaction'
  OBVIOUS
<1> USE DEF IInv, LInv, TypeOK, RouteIsOwn, LockFollowsTransaction, RoutingFollowsTransaction, IsOpen, Load
<1>1. ASSUME NEW t \in Transactions, Enter(t) PROVE RoutingFollowsTransaction'
  BY <1>1 DEF Enter
<1>2. ASSUME NEW t \in Transactions, Operate(t) PROVE RoutingFollowsTransaction'
  BY <1>2 DEF Operate
<1>3. ASSUME NEW t \in Transactions, Close(t), current[DatabaseOf[t]] \in {t, None}
      PROVE  RoutingFollowsTransaction'
  BY <1>3 DEF Close
<1>4. ASSUME NEW t \in Transactions, ExitCommits(t) \/ ExitFails(t) \/ ExitLate(t) \/ ExitRaising(t)
      PROVE  RoutingFollowsTransaction'
  BY <1>3, <1>4 DEF ExitCommits, ExitFails, ExitLate, ExitRaising, LeaveBlock
<1>5. ASSUME NEW d \in Databases, ExitDatabase(d) \/ ExitDatabaseRaising(d)
      PROVE  RoutingFollowsTransaction'
  BY <1>5 DEF ExitDatabase, ExitDatabaseRaising, Close
<1>6. ASSUME NEW d \in Databases, Crash(d) PROVE RoutingFollowsTransaction'
  BY <1>6 DEF Crash
<1>7. ASSUME UNCHANGED <<current, state>> PROVE RoutingFollowsTransaction'
  BY <1>7
<1>. QED
  BY <1>1, <1>2, <1>4, <1>5, <1>6, <1>7
  DEF Next, TransactionStep, DatabaseStep, EnterNested, EnterFails, Read, ReadFails, CheckIntegrity,
      WriteRefused, Write, WriteFails, InitCall, vars

\* _active_transaction names the open transaction of its database and no other.
THEOREM RoutingFollowsTransactionHolds ==
  ASSUME OverlappingExits = FALSE
  PROVE  Spec => []RoutingFollowsTransaction
<1>1. Init => IInv
  BY InitLInv DEF Init, IInv, RoutingFollowsTransaction, IsOpen
<1>2. IInv /\ [Next]_vars => IInv'
  BY NextLInv, NextRouting DEF IInv
<1>. QED
  BY <1>1, <1>2, PTL DEF Spec, IInv

LEMMA RoutingInvariance ==
  ASSUME OverlappingExits = FALSE
  PROVE  Spec => []IInv
  BY LockInvariance, RoutingFollowsTransactionHolds, PTL DEF IInv

\* Which transaction reads are routed to, and which is open in a database, agree.
LEMMA OpenInFacts ==
  ASSUME IInv, NEW d \in Databases
  PROVE  IF current[d] = None THEN OpenIn(d) = {} ELSE current[d] \in OpenIn(d)
  BY DEF IInv, LInv, TypeOK, RouteIsOwn, RoutingFollowsTransaction, OpenIn

\* A read through a database shows the transaction open on it, a check the file.
THEOREM ReadsFollowTransactionHolds ==
  ASSUME OverlappingExits = FALSE
  PROVE  Spec => []ReadsFollowTransaction
<1>1. Init => ReadsFollowTransaction
  BY DEF Init, ReadsFollowTransaction
<1>2. IInv /\ ReadsFollowTransaction /\ [Next]_vars => ReadsFollowTransaction'
  <2> SUFFICES ASSUME IInv, ReadsFollowTransaction, [Next]_vars PROVE ReadsFollowTransaction'
    OBVIOUS
  <2>1. ASSUME NEW d \in Databases, Read(d) PROVE ReadsFollowTransaction'
    BY <2>1, OpenInFacts DEF Read, Say, ReadsFollowTransaction, OpenIn, IsOpen, Load
  <2>2. ASSUME NEW d \in Databases, CheckIntegrity(d) PROVE ReadsFollowTransaction'
    BY <2>2 DEF CheckIntegrity, Say, ReadsFollowTransaction
  <2>3. CASE UNCHANGED vars
    BY <2>3 DEF vars, ReadsFollowTransaction, OpenIn, IsOpen, Load
  <2>4. ASSUME last'.call \notin {"read", "check"} PROVE ReadsFollowTransaction'
    BY <2>4 DEF ReadsFollowTransaction
  <2>5. ASSUME NEW d \in Databases, ReadFails(d) PROVE ReadsFollowTransaction'
    BY <2>5 DEF ReadFails, Say, ReadsFollowTransaction
  <2>. QED
    BY <2>1, <2>2, <2>3, <2>4, <2>5
    DEF Next, TransactionStep, DatabaseStep, EnterNested, EnterFails, Enter, Operate,
        ExitCommits, ExitFails, ExitLate, ExitRaising, WriteRefused, Write, WriteFails, InitCall,
        ExitDatabase, ExitDatabaseRaising, Crash, Say, Failures
<1>. QED
  BY <1>1, <1>2, RoutingInvariance, PTL DEF Spec

\* No call but init() ever waits for the lock of the own open transaction.
THEOREM NoSelfLockoutHolds ==
  ASSUME OverlappingExits = FALSE
  PROVE  Spec => []NoSelfLockout
<1>1. Init => NoSelfLockout
  BY DEF Init, NoSelfLockout
<1>2. IInv /\ NoSelfLockout /\ [Next]_vars => NoSelfLockout'
  <2> SUFFICES ASSUME IInv, NoSelfLockout, [Next]_vars PROVE NoSelfLockout'
    OBVIOUS
  <2>1. ASSUME NEW d \in Databases, current[d] = None, UNCHANGED state, last'.db = d
        PROVE  NoSelfLockout'
    BY <2>1, OpenInFacts DEF NoSelfLockout, OpenIn, IsOpen
  <2>2. ASSUME NEW t \in Transactions, EnterFails(t) PROVE NoSelfLockout'
    BY <2>1, <2>2 DEF EnterFails, Say
  <2>3. ASSUME NEW d \in Databases, WriteFails(d) PROVE NoSelfLockout'
    BY <2>1, <2>3 DEF WriteFails, Say
  <2>4. CASE UNCHANGED vars
    BY <2>4 DEF vars, NoSelfLockout, OpenIn, IsOpen
  <2>5. ASSUME last'.result # "LockError" \/ last'.call = "init" PROVE NoSelfLockout'
    BY <2>5 DEF NoSelfLockout
  <2>. QED
    BY <2>2, <2>3, <2>4, <2>5
    DEF Next, TransactionStep, DatabaseStep, EnterNested, Enter, Operate, ExitCommits,
        ExitFails, ExitLate, ExitRaising, Read, ReadFails, CheckIntegrity, WriteRefused, Write, InitCall,
        ExitDatabase, ExitDatabaseRaising, Crash, Say, Failures
<1>. QED
  BY <1>1, <1>2, RoutingInvariance, PTL DEF Spec
=============================================================================
