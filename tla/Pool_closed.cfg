SPECIFICATION FairSpec
CONSTANTS
  Workers = {w1}
  Callers = {c1}
  Loops <- SmallLoops
  QueueCapacity = 1
PROPERTY ClosedPoolRefuses
CHECK_DEADLOCK FALSE
