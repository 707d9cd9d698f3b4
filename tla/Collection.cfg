SPECIFICATION Spec
CONSTANTS
  n1 = n1
  n2 = n2
  i1 = i1
  i2 = i2
  f = f
  g = g
  v = v
  w = w
  deep = deep
  Deep <- MCDeep
  NoId = NoId
  BadId = BadId
  BadName = BadName
  Invalid = Invalid
  Malformed = Malformed
  Names <- MCNames
  Ids <- MCIds
  Bodies <- MCBodies
  MaxBulk = 2
INVARIANTS
  TypeOK
  CommitAcceptsShape
  BulkUpdateIsSequential
  UpsertAgreesWithReplace
  ReadsBack
PROPERTIES
  RaisingKeepsState
