SPECIFICATION ServerSpec
CONSTANTS
  Slaves = {s1, s2}
  Size = 5
  RightName = 1
  RightPass = 1
  Logins <- SomeLogins
  None = none
INVARIANTS
  ServerTypeOK
  VerdictIsRight
  
  TransmitsOnlyIfVerified
  ListensOnlyToMaster
PROPERTIES
  PairMeets
CHECK_DEADLOCK FALSE
