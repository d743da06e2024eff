SPECIFICATION Spec
CONSTANTS
  m1 = m1
  m2 = m2
  s1 = s1
  s2 = s2
  Masters = {m1}
  Slaves = {s1, s2}
  Server = server
  None = none
  Site <- SharedSite
  MaxTry = 1
  PeerSheetLen = 200
  BadCred = {}
  Stack <- CleanStack
INVARIANTS
  MasterIntroduced
  RoutablePeers
CONSTRAINTS
  UntilVerdict
  OneAttempt
CHECK_DEADLOCK FALSE
