SPECIFICATION ToolsSpec
CONSTANTS
  None = None
  NoLock = NoLock
  NoState = NoState
  NoTx = NoTx
  NoAudit = NoAudit
  GraphIds = {g1}
  Holders = {h1}
  LockIds = {l1}
  LockTtls = {1}
  MaxTtl = 1
  TxIds = {t1}
  Owners <- MCOwners
  Contents = {"plain", "stamped", "sorted", "cyclic"}
  ValidContents = {"plain", "stamped", "sorted"}
  Stamp <- MCStamp
  Canonical <- MCCanonical
  Ttls = {None, 1}
  CommitInterval = None
  TimeInterval = None
  MaxVersion = 2
  MaxNow = 2
INVARIANTS
  PreviewReachable
