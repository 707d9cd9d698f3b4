SPECIFICATION Spec
CONSTANTS
  Ids = {"a"}
  Values <- MCValues
  Edited <- MCEdited
  MaxNesting = 9
  MaxEdits = 1
INVARIANTS
  LoadsBack
  DamageIsSeen
PROPERTIES
  DamageStays
  ExitCodes
