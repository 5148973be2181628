SPECIFICATION Spec
CONSTANTS
  pos = pos
  cbot = cbot
  Bot = cbot
  NoProfile = NoProfile
  Profiles = {"p1"}
  Masks <- SmallMasks
  MaxIndex = 2
  MaxGeneration = 2
  Batches <- SmallBatches
  Phases = {"input", "simulation"}
  Afters = {{}, {"input"}}
  Definitions <- SmallDefinitions
  MaxSystems = 3
  MaxFrames = 1
  MaxCommands = 1
INVARIANTS
  FrameTypeOK
  WorldInv
  CommitNeverFails
  NoRaces
  QueriesSettled
  RunsInOrder
  PlanHolds
PROPERTIES
  ImplementsStore
CHECK_DEADLOCK FALSE
