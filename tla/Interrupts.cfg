SPECIFICATION Spec
CONSTANTS
  NumTerminals = 2
  Burst = 3
INVARIANTS
  TypeOK
  TimerIsUnmasked
  LinesHaveOwners
  NestingIsBounded
PROPERTIES
  DeviceIsServed
  TimeIsShared
