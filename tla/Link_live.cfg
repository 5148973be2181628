SPECIFICATION FairSpec
CONSTANTS
  t1 = t1
  t2 = t2
  Target = {t1, t2}
  NoTarget = NoTarget
  Decisions <- Crafting
  MaxUp = 3
  MaxSeq = 2
  MaxSessions = 2
  MaxObs = 5
  MaxErrors = 0
  MaxCrashes = 1
CHECK_DEADLOCK FALSE
INVARIANTS
  AdapterAgrees
  InFlightAnswerable
PROPERTIES
  Reconnects
  InFlightEnds
