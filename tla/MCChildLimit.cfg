SPECIFICATION ChildrenSpec
CONSTANTS
  FailThreshold = 1
  Cooldown = 1
  HalfOpenMax = 1
  HalfOpenSuccesses = 1
  None = None
  MinBackoff = 1
  MaxBackoff = 1
  Quota = 1
  Window = 1
  ChildIds = {x, y}
  Creations = {c1, c2}
  MaxChildren = 1
  MaxNow = 1
SYMMETRY Interchangeable
INVARIANT ChildLimit
CHECK_DEADLOCK FALSE
