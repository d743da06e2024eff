SPECIFICATION NatSpec
CONSTANTS
  Count = 2
  MaxRun = 3
INVARIANTS
  NatTypeOK
  LinuxKeepsStep
  AndroidStalls
PROPERTIES
  KeepsTheOrder
CHECK_DEADLOCK FALSE
