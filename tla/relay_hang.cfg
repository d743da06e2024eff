SPECIFICATION RelayFairSpec
CONSTANTS
  Thread = {t1, t2}
  MRuns = {ma, mb}
  SRuns = {sa}
  None = none
PROPERTIES
  CmdSpinEnds
CHECK_DEADLOCK FALSE
