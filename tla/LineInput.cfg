SPECIFICATION Spec
CONSTANTS
  MaxBuffer = 3
  TabSpaces = 2
  Letters = {"a"}
  Requests = {0, 2, 3}
INVARIANTS
  TypeOK
  PatientReadReturnsLine
  ReadEndsLine
  ReadWaitsForEnter
  StorageIsOneLine
PROPERTIES
  EnterIsAnswered
