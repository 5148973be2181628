SPECIFICATION FairSpec
CONSTANTS
  c1 = c1
  c2 = c2
  low = low
  tall = tall
  b1 = b1
  b2 = b2
  air = air
  stone = stone
  s1 = s1
  s2 = s2
  sword = sword
  None = None
  Unreadable = Unreadable
  Origin = Origin
  Chunks = {c1, c2}
  Geometries = {low, tall}
  Within <- SmallWithin
  Blocks = {b1, b2}
  States = {air, stone}
  Ids = {"e1"}
  Places = {"here", "there"}
  Slots = {s1, s2}
  Items = {sword}
  Hotbar = {0, 1}
  BlockBatches <- SmallBlockBatches
  SlotBatches <- SmallSlotBatches
  MaxSessions = 2
  Budgets <- SmallBudgets
  MaxEvents = 2
INVARIANTS
  MirrorTypeOK
  ChunksMirrored
  EntitiesMirrored
  InventoryTrue
PROPERTY MotionSettles
CHECK_DEADLOCK FALSE
