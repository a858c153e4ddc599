SPECIFICATION LocksSpec
CONSTANTS
  None = None
  NoLock = NoLock
  GraphIds = {g1, g2}
  Holders = {h1, h2}
  LockIds = {l1, l2, l3}
  LockTtls = {None, 1, 3}
  MaxTtl = 2
  MaxNow = 5
SYMMETRY Interchangeable
INVARIANTS
  LocksTypeOK
  IndexesAgree
  LeaseExclusion
  GateMatchesLeases
