SPECIFICATION FairSpec
CONSTANT MaxHosts = 2
INVARIANTS
  Inv
  OneHost
PROPERTIES
  StoppedNotRestarted
  CrashedHostReturns
  NothingLeft
  KeepsLifecycle
CHECK_DEADLOCK FALSE
