-------------------------- MODULE AtomicWriteProofs --------------------------
(***************************************************************************)
(* atomic_write is correct for any number of writes, readers and attempts.   *)
(* The argument: a file is synced before it gets the database's name and is   *)
(* never written to after (SyncedIsWhole, NamedIsSynced), so every name the   *)
(* path may have, now or after a power loss, is of a complete version; and    *)
(* names are only given in the order of the writes (Ordered), so what the     *)
(* last directory sync settled cannot be older than a write acknowledged      *)
(* before.                                                                  *)
(***************************************************************************)
EXTENDS AtomicWrite, TLAPS

\* The write in progress, and the ones before and after it.
Progress ==
  /\ pc # "idle" => write \in Writes
  /\ \A v \in Writes : result[v] = "running" <=> v = write /\ pc # "idle"
  /\ \A v \in Writes : v > write =>
       /\ result[v] = "none" /\ bytes[v] = "absent" /\ mode[v] = "private"
       /\ v \notin temps \cup unsettled \cup synced

SyncedIsWhole == \A v \in synced : bytes[v] = "whole"

\* How far the file of the write in progress has come.
FileAtPc ==
  /\ pc \in {"create", "write", "fsync"} => write \notin synced
  /\ pc \in {"chmod", "replace"} => write \in synced
  /\ pc = "fsync" => bytes[write] = "whole"
  /\ pc \in {"create", "dirsync"} => write \notin temps

\* Every file that has, had or may get back the database's name.
NamedIsSynced ==
  /\ target \in survivors
  /\ survivors \subseteq synced \cup {Missing}
  /\ \A r \in Readers : fd[r] \in synced \cup {Missing}

\* The database's name is given in the order of the writes.
Ordered ==
  /\ \A s \in survivors : s <= target
  /\ target <= write
  /\ pc = "dirsync" => target = write
  /\ pc \notin {"idle", "dirsync"} => target < write
  /\ \A v \in Writes : result[v] = "ok" => v <= target

\* The mode of the new file comes from the old one, as it was at some time of the write.
ModeAtPc ==
  /\ pc \notin {"idle", "dirsync", "cleanup"} => kept \in had \cup {"none"}
  /\ pc \in {"create", "write", "fsync", "chmod"} => mode[write] = "private"
  /\ pc = "replace" => mode[write] \in {"private", kept}

IInv ==
  /\ TypeOK
  /\ Progress
  /\ SyncedIsWhole
  /\ FileAtPc
  /\ NamedIsSynced
  /\ Ordered
  /\ ModeAtPc
  /\ ReadersSeeWholeFiles
  /\ AcknowledgedWritesSurvive
  /\ NoLitter

-----------------------------------------------------------------------------
LEMMA InitIInv == Init => IInv
<1> SUFFICES ASSUME Init PROVE IInv
  OBVIOUS
<1> USE AtomicWriteAssumption DEF Init, Writes, Missing
<1>1. TypeOK
  <2>1. 0 \in 0..MaxWrites /\ 0 \in 0..(Attempts - 1)
    BY DEF AtomicWriteAssumption
  <2>. QED
    BY <2>1 DEF TypeOK, Data, Modes
<1>2. Progress
  BY DEF Progress
<1>3. SyncedIsWhole
  BY DEF SyncedIsWhole
<1>4. FileAtPc
  BY DEF FileAtPc
<1>5. NamedIsSynced
  BY DEF NamedIsSynced
<1>6. Ordered
  BY DEF Ordered
<1>7. ModeAtPc
  BY DEF ModeAtPc
<1>8. ReadersSeeWholeFiles
  BY DEF ReadersSeeWholeFiles
<1>9. AcknowledgedWritesSurvive
  BY DEF AcknowledgedWritesSurvive
<1>10. NoLitter
  BY DEF NoLitter
<1>. QED
  BY <1>1, <1>2, <1>3, <1>4, <1>5, <1>6, <1>7, <1>8, <1>9, <1>10 DEF IInv

LEMMA NextIInv == IInv /\ [Next]_vars => IInv'
<1> SUFFICES ASSUME IInv, [Next]_vars PROVE IInv'
  OBVIOUS
<1> USE AtomicWriteAssumption
    DEF IInv, TypeOK, Progress, SyncedIsWhole, FileAtPc, NamedIsSynced, Ordered, ModeAtPc,
        ReadersSeeWholeFiles, AcknowledgedWritesSurvive, NoLitter, Writes, Missing, Data, Modes,
        readers, modes, names, disk
<1>1. CASE Begin
  <2>1. TypeOK'
    BY <1>1 DEF Begin
  <2>2. Progress'
    BY <1>1 DEF Begin
  <2>3. SyncedIsWhole'
    BY <1>1 DEF Begin
  <2>4. FileAtPc'
    BY <1>1 DEF Begin
  <2>5. NamedIsSynced'
    BY <1>1 DEF Begin
  <2>6. Ordered'
    BY <1>1 DEF Begin
  <2>7. ModeAtPc'
    BY <1>1 DEF Begin
  <2>8. ReadersSeeWholeFiles'
    BY <1>1 DEF Begin
  <2>9. AcknowledgedWritesSurvive'
    BY <1>1 DEF Begin
  <2>10. NoLitter'
    BY <1>1 DEF Begin
  <2>. QED
    BY <2>1, <2>2, <2>3, <2>4, <2>5, <2>6, <2>7, <2>8, <2>9, <2>10 DEF IInv
<1>2. CASE CreateFails
  BY <1>2 DEF CreateFails, End
<1>3. CASE Create
  BY <1>3 DEF Create, Fill
<1>4. CASE WritePart
  <2>1. TypeOK'
    BY <1>4 DEF WritePart, Fill
  <2>2. Progress'
    BY <1>4 DEF WritePart, Fill
  <2>3. SyncedIsWhole'
    BY <1>4 DEF WritePart, Fill
  <2>4. FileAtPc'
    BY <1>4 DEF WritePart, Fill
  <2>5. NamedIsSynced'
    BY <1>4 DEF WritePart, Fill
  <2>6. Ordered'
    BY <1>4 DEF WritePart, Fill
  <2>7. ModeAtPc'
    BY <1>4 DEF WritePart, Fill
  <2>8. ReadersSeeWholeFiles'
    BY <1>4 DEF WritePart, Fill
  <2>9. AcknowledgedWritesSurvive'
    BY <1>4 DEF WritePart, Fill
  <2>10. NoLitter'
    BY <1>4 DEF WritePart, Fill
  <2>. QED
    BY <2>1, <2>2, <2>3, <2>4, <2>5, <2>6, <2>7, <2>8, <2>9, <2>10 DEF IInv
<1>5. CASE WriteRest
  <2>1. TypeOK'
    BY <1>5 DEF WriteRest, Fill
  <2>2. Progress'
    BY <1>5 DEF WriteRest, Fill
  <2>3. SyncedIsWhole'
    BY <1>5 DEF WriteRest, Fill
  <2>4. FileAtPc'
    BY <1>5 DEF WriteRest, Fill
  <2>5. NamedIsSynced'
    BY <1>5 DEF WriteRest, Fill
  <2>6. Ordered'
    BY <1>5 DEF WriteRest, Fill
  <2>7. ModeAtPc'
    BY <1>5 DEF WriteRest, Fill
  <2>8. ReadersSeeWholeFiles'
    BY <1>5 DEF WriteRest, Fill
  <2>9. AcknowledgedWritesSurvive'
    BY <1>5 DEF WriteRest, Fill
  <2>10. NoLitter'
    BY <1>5 DEF WriteRest, Fill
  <2>. QED
    BY <2>1, <2>2, <2>3, <2>4, <2>5, <2>6, <2>7, <2>8, <2>9, <2>10 DEF IInv
<1>6. CASE Fsync
  BY <1>6 DEF Fsync
<1>7. CASE Chmod
  BY <1>7 DEF Chmod
<1>8. CASE Replace
  BY <1>8 DEF Replace
<1>9. CASE ReplaceRefused
  BY <1>9 DEF ReplaceRefused
<1>10. CASE StepFails
  BY <1>10 DEF StepFails
<1>11. CASE Cleanup
  <2>1. TypeOK'
    BY <1>11 DEF Cleanup, End
  <2>2. Progress'
    BY <1>11 DEF Cleanup, End
  <2>3. SyncedIsWhole'
    BY <1>11 DEF Cleanup, End
  <2>4. FileAtPc'
    BY <1>11 DEF Cleanup, End
  <2>5. NamedIsSynced'
    BY <1>11 DEF Cleanup, End
  <2>6. Ordered'
    BY <1>11 DEF Cleanup, End
  <2>7. ModeAtPc'
    BY <1>11 DEF Cleanup, End
  <2>8. ReadersSeeWholeFiles'
    BY <1>11 DEF Cleanup, End
  <2>9. AcknowledgedWritesSurvive'
    BY <1>11 DEF Cleanup, End
  <2>10. NoLitter'
    <3>1. ASSUME temps' = temps \ {write}, End("failed"), revived' = revived PROVE NoLitter'
      BY <3>1 DEF End
    <3>2. ASSUME temps' = temps, End("littered"), revived' = revived PROVE NoLitter'
      BY <3>2 DEF End
    <3>. QED
      BY <1>11, <3>1, <3>2 DEF Cleanup
  <2>. QED
    BY <2>1, <2>2, <2>3, <2>4, <2>5, <2>6, <2>7, <2>8, <2>9, <2>10 DEF IInv
<1>12. CASE DirSync
  <2>1. TypeOK'
    BY <1>12 DEF DirSync, End
  <2>2. Progress'
    BY <1>12 DEF DirSync, End
  <2>3. SyncedIsWhole'
    BY <1>12 DEF DirSync, End
  <2>4. FileAtPc'
    BY <1>12 DEF DirSync, End
  <2>5. NamedIsSynced'
    BY <1>12 DEF DirSync, End
  <2>6. Ordered'
    BY <1>12 DEF DirSync, End
  <2>7. ModeAtPc'
    BY <1>12 DEF DirSync, End
  <2>8. ReadersSeeWholeFiles'
    BY <1>12 DEF DirSync, End
  <2>9. AcknowledgedWritesSurvive'
    BY <1>12 DEF DirSync, End
  <2>10. NoLitter'
    BY <1>12 DEF DirSync, End
  <2>. QED
    BY <2>1, <2>2, <2>3, <2>4, <2>5, <2>6, <2>7, <2>8, <2>9, <2>10 DEF IInv
<1>13. CASE DirSyncSkipped
  BY <1>13 DEF DirSyncSkipped, End
<1>14. CASE UserChmod
  BY <1>14 DEF UserChmod
<1>15. ASSUME NEW r \in Readers, OpenFile(r) PROVE IInv'
  <2>1. TypeOK'
    BY <1>15 DEF OpenFile
  <2>2. Progress'
    BY <1>15 DEF OpenFile
  <2>3. SyncedIsWhole'
    BY <1>15 DEF OpenFile
  <2>4. FileAtPc'
    BY <1>15 DEF OpenFile
  <2>5. NamedIsSynced'
    BY <1>15 DEF OpenFile
  <2>6. Ordered'
    BY <1>15 DEF OpenFile
  <2>7. ModeAtPc'
    BY <1>15 DEF OpenFile
  <2>8. ReadersSeeWholeFiles'
    BY <1>15 DEF OpenFile
  <2>9. AcknowledgedWritesSurvive'
    BY <1>15 DEF OpenFile
  <2>10. NoLitter'
    BY <1>15 DEF OpenFile
  <2>. QED
    BY <2>1, <2>2, <2>3, <2>4, <2>5, <2>6, <2>7, <2>8, <2>9, <2>10 DEF IInv
<1>16. ASSUME NEW r \in Readers, ReadFile(r) PROVE IInv'
  <2>1. TypeOK'
    BY <1>16 DEF ReadFile
  <2>2. Progress'
    BY <1>16 DEF ReadFile
  <2>3. SyncedIsWhole'
    BY <1>16 DEF ReadFile
  <2>4. FileAtPc'
    BY <1>16 DEF ReadFile
  <2>5. NamedIsSynced'
    BY <1>16 DEF ReadFile
  <2>6. Ordered'
    BY <1>16 DEF ReadFile
  <2>7. ModeAtPc'
    BY <1>16 DEF ReadFile
  <2>8. ReadersSeeWholeFiles'
    BY <1>16 DEF ReadFile
  <2>9. AcknowledgedWritesSurvive'
    BY <1>16 DEF ReadFile
  <2>10. NoLitter'
    BY <1>16 DEF ReadFile
  <2>. QED
    BY <2>1, <2>2, <2>3, <2>4, <2>5, <2>6, <2>7, <2>8, <2>9, <2>10 DEF IInv
<1>17. CASE Crash
  BY <1>17 DEF Crash, End
<1>18. CASE PowerLoss
  <2>1. TypeOK'
    <3>1. temps' \in SUBSET Writes /\ revived' \in SUBSET Writes
      <4>1. PICK T \in SUBSET (unsettled \ {target'}) : temps' = (temps \ unsettled) \cup T
        BY <1>18, Zenon DEF PowerLoss
      <4>2. revived' = revived \cup (temps' \ temps)
        BY <1>18, Zenon DEF PowerLoss
      <4>. QED
        BY <4>1, <4>2
    <3>2. /\ target' \in Writes \cup {Missing}
          /\ survivors' \in SUBSET (Writes \cup {Missing})
          /\ unsettled' \in SUBSET Writes
      BY <1>18 DEF PowerLoss
    <3>3. bytes' \in [Writes -> Data] /\ result' \in
            [Writes -> {"none", "running", "ok", "failed", "littered", "crashed", "lost"}]
      BY <1>18 DEF PowerLoss
    <3>. QED
      BY <1>18, <3>1, <3>2, <3>3 DEF PowerLoss
  <2>2. Progress'
    BY <1>18 DEF PowerLoss
  <2>3. SyncedIsWhole'
    BY <1>18 DEF PowerLoss
  <2>4. FileAtPc'
    BY <1>18 DEF PowerLoss
  <2>5. NamedIsSynced'
    BY <1>18 DEF PowerLoss
  <2>6. Ordered'
    BY <1>18 DEF PowerLoss
  <2>7. ModeAtPc'
    BY <1>18 DEF PowerLoss
  <2>8. ReadersSeeWholeFiles'
    BY <1>18 DEF PowerLoss
  <2>9. AcknowledgedWritesSurvive'
    BY <1>18 DEF PowerLoss
  <2>10. NoLitter'
    BY <1>18 DEF PowerLoss
  <2>. QED
    BY <2>1, <2>2, <2>3, <2>4, <2>5, <2>6, <2>7, <2>8, <2>9, <2>10 DEF IInv
<1>19. CASE UNCHANGED vars
  BY <1>19 DEF vars
<1>. QED
  BY <1>1, <1>2, <1>3, <1>4, <1>5, <1>6, <1>7, <1>8, <1>9, <1>10,
     <1>11, <1>12, <1>13, <1>14, <1>15, <1>16, <1>17, <1>18, <1>19
  DEF Next, WriterStep

LEMMA Invariance == Spec => []IInv
  BY InitIInv, NextIInv, PTL DEF Spec

-----------------------------------------------------------------------------
\* Type correctness of AtomicWrite, for any number of writes, readers and attempts.
THEOREM TypeCorrect == Spec => []TypeOK
  BY Invariance, PTL DEF IInv

\* A reader without a lock never gets part of a file.
THEOREM ReadersSeeWholeFilesHolds == Spec => []ReadersSeeWholeFiles
  BY Invariance, PTL DEF IInv

\* A write acknowledged and settled by a directory sync survives every power loss.
THEOREM AcknowledgedWritesSurviveHolds == Spec => []AcknowledgedWritesSurvive
  BY Invariance, PTL DEF IInv

\* Temp files are left behind only by crashes, failing unlinks and power losses.
THEOREM NoLitterHolds == Spec => []NoLitter
  BY Invariance, PTL DEF IInv

\* Where closing the directory cannot fail, a write that raises has had no effect.
THEOREM FailedWritesLeaveNoTraceHolds ==
  ASSUME DirCloseCanFail = FALSE
  PROVE  Spec => []FailedWritesLeaveNoTrace
<1>1. Init => FailedWritesLeaveNoTrace
  BY DEF Init, FailedWritesLeaveNoTrace
<1>2. IInv /\ FailedWritesLeaveNoTrace /\ [Next]_vars => FailedWritesLeaveNoTrace'
  <2> SUFFICES ASSUME IInv, FailedWritesLeaveNoTrace, [Next]_vars
               PROVE  FailedWritesLeaveNoTrace'
    OBVIOUS
  <2> USE DEF FailedWritesLeaveNoTrace
  <2>1. ASSUME NEW r, r \notin {"failed", "littered"}, End(r), UNCHANGED <<target, survivors>>
        PROVE  FailedWritesLeaveNoTrace'
    BY <2>1 DEF End, IInv, TypeOK
  <2>2. ASSUME NEW r, End(r), UNCHANGED <<target, survivors>>, pc \notin {"idle", "dirsync"}
        PROVE  FailedWritesLeaveNoTrace'
    <3>1. write \notin survivors \cup {target}
      BY <2>2, AtomicWriteAssumption DEF IInv, TypeOK, Ordered, Writes, Missing
    <3>. QED
      BY <2>2, <3>1 DEF End, IInv, TypeOK
  <2>3. CASE CreateFails \/ Cleanup
    BY <2>2, <2>3 DEF CreateFails, Cleanup, disk
  <2>4. CASE DirSync \/ DirSyncSkipped
    BY <2>4 DEF DirSync, DirSyncSkipped, End, IInv, TypeOK, NamedIsSynced
  <2>5. CASE Replace
    BY <2>5 DEF Replace, IInv, Progress
  <2>6. CASE Crash
    BY <2>1, <2>6 DEF Crash, disk
  <2>7. CASE PowerLoss
    BY <2>7 DEF PowerLoss, IInv, TypeOK
  <2>8. CASE Begin
    BY <2>8 DEF Begin, IInv, TypeOK, disk
  <2>9. ASSUME UNCHANGED <<result, target, survivors>> PROVE FailedWritesLeaveNoTrace'
    BY <2>9
  <2>. QED
    BY <2>3, <2>4, <2>5, <2>6, <2>7, <2>8, <2>9
    DEF Next, WriterStep, Create, WritePart, WriteRest, Fsync, Chmod, ReplaceRefused, StepFails,
        UserChmod, OpenFile, ReadFile, disk, vars
<1>. QED
  BY <1>1, <1>2, Invariance, PTL DEF Spec

-----------------------------------------------------------------------------
\* A commit gives the file no permissions but those it had at some time of the write.
THEOREM ModeIsInheritedHolds == Spec => ModeIsInherited
<1>1. IInv /\ [Next]_vars =>
        [pc = "replace" /\ pc' = "dirsync" /\ target # Missing
         => mode[target'] \in had \cup {"private"}]_vars
  <2> SUFFICES ASSUME IInv, Next, pc = "replace", pc' = "dirsync", target # Missing
               PROVE  mode[target'] \in had \cup {"private"}
    BY DEF vars
  <2>1. Replace
    BY DEF Next, Begin, WriterStep, CreateFails, Create, WritePart, WriteRest, Fsync, Chmod,
           ReplaceRefused, StepFails, Cleanup, DirSync, DirSyncSkipped, UserChmod, Crash,
           PowerLoss, OpenFile, ReadFile, End
  <2>. QED
    BY <2>1 DEF Replace, IInv, TypeOK, Progress, ModeAtPc, Modes, modes
<1>. QED
  BY <1>1, Invariance, PTL DEF Spec, ModeIsInherited

-----------------------------------------------------------------------------
\* No version that the path names, or may name after a power loss, is torn.
Intact == Whole(target) = target /\ {AfterPowerLoss(v) : v \in survivors} = survivors

LEMMA NothingTorn == IInv => Intact
  BY DEF Intact, IInv, NamedIsSynced, SyncedIsWhole, Whole, AfterPowerLoss, Missing

\* atomic_write implements the atomic file of ADR 0001.
THEOREM AtomicFileRefinement == Spec => ImplementsAtomicFile
<1>1. Init => File!Init
  BY DEF Init, File!Init, Whole, AfterPowerLoss, Missing
<1>2. IInv /\ IInv' /\ [Next]_vars
        => [File!Next]_<<Whole(target), {AfterPowerLoss(v) : v \in survivors}>>
  <2> SUFFICES ASSUME IInv, IInv', [Next]_vars
               PROVE  [File!Next]_<<Whole(target), {AfterPowerLoss(v) : v \in survivors}>>
    OBVIOUS
  <2>1. /\ Whole(target) = target /\ Whole(target)' = target'
        /\ {AfterPowerLoss(v) : v \in survivors} = survivors
        /\ {AfterPowerLoss(v) : v \in survivors}' = survivors'
    <3>1. Intact /\ Intact'
      BY NothingTorn, PTL
    <3>. QED
      BY <3>1 DEF Intact
  <2>2. CASE Replace
    BY <2>1, <2>2 DEF Replace, File!Next, File!Put, IInv, Progress
  <2>3. CASE DirSync
    BY <2>1, <2>3 DEF DirSync, File!Next, File!Settle
  <2>4. CASE PowerLoss
    BY <2>1, <2>4 DEF PowerLoss, File!Next, File!PowerLoss
  <2>5. CASE UNCHANGED <<target, survivors>>
    BY <2>1, <2>5
  <2>. QED
    BY <2>2, <2>3, <2>4, <2>5
    DEF Next, Begin, WriterStep, CreateFails, Create, WritePart, WriteRest, Fsync, Chmod,
        ReplaceRefused, StepFails, Cleanup, DirSyncSkipped, UserChmod, Crash, OpenFile,
        ReadFile, disk, vars
<1>. QED
  BY <1>1, <1>2, Invariance, PTL DEF Spec, ImplementsAtomicFile, File!Spec
=============================================================================
