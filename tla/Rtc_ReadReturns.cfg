SPECIFICATION Spec
CONSTANTS
  Users = {0, 1}
  Writable = {}
PROPERTIES
  ReadReturns
\* Two waiting readers may wait for ever.
CHECK_DEADLOCK FALSE
