SPECIFICATION FairSpec
CONSTANTS
  c1 = c1
  c2 = c2
  c3 = c3
  Empty = Empty
  filled = filled
  Clients <- MCClients
  States <- MCStates
  NoFile = NoFile
  None = None
INVARIANTS
  TypeOK
  LockFollowsCall
  NoLostUpdate
  InitNeverClobbers
  FileNeverVanishes
PROPERTIES
  ImplementsSerialStore
  CallReturns
