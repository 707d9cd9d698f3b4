SPECIFICATION Spec
CONSTANTS
  Ids = {"i1", "i2"}
  Hands = {"h1", "h2"}
  Fields = {"f", "g"}
  Contents = {0, 1}
  Itself = "itself"
INVARIANTS
  StateIsWhatWasWritten
