SPECIFICATION Spec
CONSTANTS
  NumTerminals = 3
  MaxPcb = 4
  NULL = NULL
INVARIANTS
  ForegroundOwnsScreen
