CONSTANTS
  UintRange = 65536
  MaxHardware = 64
SPECIFICATION Spec
INVARIANTS
  ForegroundFitsHardware
\* The constructor runs once.
CHECK_DEADLOCK FALSE
