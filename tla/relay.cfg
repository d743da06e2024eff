SPECIFICATION RelayFairSpec
CONSTANTS
  Thread = {t1, t2}
  MRuns = {ma, mb}
  SRuns = {sa}
  None = none
INVARIANTS
  RelayTypeOK
  OneRelayThread
  FlagsAreHeld
PROPERTIES
  ControlSpinEnds
  WaitingPairIsRelayed
CHECK_DEADLOCK FALSE
