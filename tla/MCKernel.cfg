SPECIFICATION PagingSpec
CONSTANTS
  NumTerminals = 3
  MaxPcb = 4
  NULL = NULL
INVARIANTS
  TypeOK
  ContextConsistent
  SuspendedIsSaved
  ParentIsSaved
  ProcessLines
  RecordedTerminalMapped
  ReachIsConfined
PROPERTIES
  KernelRunsSessions
