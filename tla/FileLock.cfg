SPECIFICATION FairSpec
CONSTANTS
  a1 = a1
  a2 = a2
  a3 = a3
  i1 = i1
  i2 = i2
  Acquirers <- MCAcquirers
  Inodes <- MCInodes
  Polls = 2
  Windows = TRUE
  None = None
INVARIANTS
  TypeOK
  MutualExclusion
  NoOrphanedLock
PROPERTIES
  ImplementsLock
  AcquireReturns
