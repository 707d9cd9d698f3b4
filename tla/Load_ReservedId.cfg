SPECIFICATION Spec
CONSTANTS
  Ids = {"__jsondb_type__"}
  Values <- MCValues
  Edited <- MCEdited
  MaxNesting = 9
  MaxEdits = 1
INVARIANT LoadsBack
