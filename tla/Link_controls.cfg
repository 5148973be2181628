SPECIFICATION Spec
CONSTANTS
  t1 = t1
  t2 = t2
  Target = {t1, t2}
  NoTarget = NoTarget
  Decisions <- Gathering
  MaxUp = 3
  MaxSeq = 3
  MaxSessions = 1
  MaxObs = 6
  MaxErrors = 0
  MaxCrashes = 0
CHECK_DEADLOCK FALSE
INVARIANTS
  AdapterAgrees
  InFlightAnswerable
  OneShotsOneAtATime
  OutcomesGenuine
