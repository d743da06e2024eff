SPECIFICATION Spec
CONSTANTS
  m1 = m1
  m2 = m2
  s1 = s1
  s2 = s2
  Masters = {m1}
  Slaves = {s1}
  Server = server
  None = none
  Site <- OwnSites
  MaxTry = 1
  PeerSheetLen = 200
  BadCred = {}
  Stack <- CleanStack
INVARIANTS
  ModesAgree
CHECK_DEADLOCK FALSE
