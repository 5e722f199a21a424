SPECIFICATION Spec
CONSTANTS
  Users = {0, 1}
  Writable = {{1, 2}}
INVARIANTS
  TypeOK
  RateWasAsked
PROPERTIES
  ReadWaitsForTick
  ReadReturnsWhileEnabled
\* Two waiting readers may wait for ever.
CHECK_DEADLOCK FALSE
