SPECIFICATION Spec
CONSTANTS
  BlockSize = 3
  NumBlocks = 3
  Word = 64
  Room = 9
  Requests = {2, 4}
INVARIANTS
  ReadCopiesFile
