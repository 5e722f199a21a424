SPECIFICATION Spec
CONSTANTS
  NumTerminals = 2
  Holdable = {"left ctrl", "left shift", "right shift", "left alt", "caps", "left"}
INVARIANTS
  TypeOK
  FlagsFollowKeys
  TypedFollowsKeys
