SPECIFICATION TurnSpec
CONSTANTS
  Thread = {t1, t2}
  Masters = {m}
  Slaves = {s1, s2}
  PeerSheetLen = 2
  MaxDatagrams = 3
  Room = 3
  Slack = 1
  None = none
INVARIANTS
  TurnTypeOK
  OneTurnThread
  TurnFIFO
  StopsAfterQuit
  TurnServed
  MembersHeard
CONSTRAINT Followed
SYMMETRY Alike
CHECK_DEADLOCK FALSE
