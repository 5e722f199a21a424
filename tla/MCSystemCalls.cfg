SPECIFICATION MCSpec
CONSTANTS
  Word = 4096
  HexDigits = 3
  NumTerminals = 2
  NumPcbs = 3
  MaxCommand = 4
  ArgSize = 3
  ParseArray <- MCParseArray
  Image <- MCImage
  Shell <- MCShell
  Commands <- MCCommands
  Statuses = {0, 7}
  Lengths = {0, 1, 3}
  Addresses = {0, 20, 39}
  Results = {2}
  PROG_START = 16
  FOUR_KB = 4
  FOUR_MB = 16
INVARIANTS
  TypeOK
  ResultIsKept
  ArgumentsAreOwn
  LibraryIsRight
