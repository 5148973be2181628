SPECIFICATION Spec
CONSTANTS
  t1 = t1
  t2 = t2
  Target = {t1, t2}
  NoTarget = NoTarget
  Decisions <- Crafting
  MaxUp = 3
  MaxSeq = 2
  MaxSessions = 2
  MaxObs = 6
  MaxErrors = 0
  MaxCrashes = 0
CHECK_DEADLOCK FALSE
INVARIANT TargetsScopedToSession
