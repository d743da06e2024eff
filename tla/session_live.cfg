SPECIFICATION FairSpec
CONSTANTS
  m1 = m1
  m2 = m2
  s1 = s1
  s2 = s2
  Masters = {m1}
  Slaves = {s1}
  Server = server
  None = none
  Site <- OwnSites
  MaxTry = 2
  PeerSheetLen = 1
  BadCred = {}
  Stack <- CleanStack
INVARIANTS
  CrashOnlyAfterQuit
PROPERTIES
  ServerReturns
  ClientsMoveOn
CONSTRAINTS
  OneOpens
  OneAttempt
  NoKeepAlive
CHECK_DEADLOCK FALSE
