SPECIFICATION Spec
CONSTANTS
  m1 = m1
  m2 = m2
  s1 = s1
  s2 = s2
  Masters = {m1}
  Slaves = {s1}
  Server = server
  None = none
  Site <- OwnSites
  MaxTry = 2
  PeerSheetLen = 2
  BadCred = {}
  Stack <- DirtyStack
INVARIANTS
  TypeOK
  P2POnlyIfPunched
  OneVerdictPerAttempt
  SessionInv
PROPERTIES
  ImplementsRendezvous
CONSTRAINTS
  VerdictsOrRelay
CHECK_DEADLOCK FALSE
