SPECIFICATION ChildrenSpec
CONSTANTS
  FailThreshold = 1
  Cooldown = 1
  HalfOpenMax = 1
  HalfOpenSuccesses = 1
  None = None
  MinBackoff = 1
  MaxBackoff = 1
  Quota = 1
  Window = 1
  ChildIds = {x}
  Creations = {c1, c2, c3}
  MaxChildren = None
  MaxNow = 1
SYMMETRY Interchangeable
INVARIANTS ChildrenTypeOK SlotsAreHeld DeathIsOnRecord OnlyCollectionKills
CHECK_DEADLOCK FALSE
