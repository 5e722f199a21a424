SPECIFICATION Spec
CONSTANTS
  NumTerminals = 2
  Writers = {0}
  WIDTH = 2
  HEIGHT = 2
  PAGE = 5
  ByteSize = 2
  WordSize = 40
  Characters = {"c"}
  MaxLine = 2
  MaxKeys = 3
  MaxWritten = 4
INVARIANTS
  CursorOnScreen
