SPECIFICATION FairSpec
CONSTANTS
  r1 = r1
  Readers <- MCReaders
  MaxWrites = 3
  Attempts = 3
  DirCloseCanFail = FALSE
INVARIANTS
  TypeOK
  ReadersSeeWholeFiles
  AcknowledgedWritesSurvive
  FailedWritesLeaveNoTrace
  NoLitter
PROPERTIES
  ModeIsInherited
  WriteReturns
  ImplementsAtomicFile
