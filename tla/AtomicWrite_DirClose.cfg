SPECIFICATION Spec
CONSTANTS
  r1 = r1
  Readers <- MCReaders
  MaxWrites = 3
  Attempts = 3
  DirCloseCanFail = TRUE
INVARIANT
  FailedWritesLeaveNoTrace
