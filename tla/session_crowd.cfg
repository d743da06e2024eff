SPECIFICATION Spec
CONSTANTS
  m1 = m1
  m2 = m2
  s1 = s1
  s2 = s2
  Masters = {m1, m2}
  Slaves = {s1, s2}
  Server = server
  None = none
  Site <- OwnSites
  MaxTry = 1
  PeerSheetLen = 200
  BadCred = {s2}
  Stack <- CleanStack
INVARIANTS
  OneHost
  MasterIntroduced
  CrashOnlyAfterQuit
CONSTRAINTS
  UntilVerdict
  OneAttempt
CHECK_DEADLOCK FALSE
