SPECIFICATION FairSpec
CONSTANTS
  Workers = {w1, w2}
  Callers = {c1, c2}
  Loops <- SmallLoops
  QueueCapacity = 1
INVARIANTS
  PoolTypeOK
  CounterExact
  NothingRunsAfterReturn
  NilMeansDone
PROPERTIES
  CallsReturn
  CloseReturns
CHECK_DEADLOCK FALSE
