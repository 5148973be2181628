SPECIFICATION Spec
CONSTANTS
  c1 = c1
  c2 = c2
  low = low
  tall = tall
  b1 = b1
  b2 = b2
  air = air
  stone = stone
  s1 = s1
  s2 = s2
  sword = sword
  None = None
  Unreadable = Unreadable
  Origin = Origin
  Chunks = {c1, c2}
  Geometries = {low}
  Within <- SmallWithin
  Blocks = {b1, b2}
  States = {air, stone}
  Ids = {"e1"}
  Places = {"here", "there"}
  Slots = {s1, s2}
  Items = {sword}
  Hotbar = {0, 1}
  BlockBatches <- SmallBlockBatches
  SlotBatches <- SmallSlotBatches
  MaxSessions = 2
  Budgets <- ReloadBudgets
  MaxEvents = 2
INVARIANT ViewOfOneSession
CHECK_DEADLOCK FALSE
