SPECIFICATION Spec
CONSTANTS
  d1 = d1
  d2 = d2
  t1 = t1
  t2 = t2
  t3 = t3
  Empty = Empty
  filled = filled
  NoFile = NoFile
  None = None
  Databases <- MCDatabases
  Transactions <- MCTransactions
  DatabaseOf <- MCDatabaseOf
  States <- MCStates
  OverlappingExits = TRUE
INVARIANT
  ReadsFollowTransaction
