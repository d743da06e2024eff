SPECIFICATION DataSpec
CONSTANTS
  MaxIndex = 3
  MaxWant = 4
  Room = 3
  Slack = 1
  Wrap = 16
  Get = get
  None = none
INVARIANTS
  DataTypeOK
  StreamIntact
  ReadsStayInRoom
PROPERTIES
  NoUnseenGap
CHECK_DEADLOCK FALSE
