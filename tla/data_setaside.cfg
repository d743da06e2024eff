SPECIFICATION DataSpec
CONSTANTS
  MaxIndex = 3
  MaxWant = 2
  Room = 3
  Slack = 1
  Wrap = 16
  Get = get
  None = none
PROPERTIES
  SetAsideIsKept
CHECK_DEADLOCK FALSE
