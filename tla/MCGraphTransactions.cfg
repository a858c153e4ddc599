SPECIFICATION TxSpec
CONSTANTS
  None = None
  NoState = NoState
  NoTx = NoTx
  GraphIds = {g1}
  TxIds = {t1, t2, t3}
  Owners = {None}
  Contents = {"a", "b"}
  ValidContents = {"a", "b"}
  Stamp <- MCStamp
  Ttls = {2}
  CommitInterval = 2
  TimeInterval = 2
  MaxVersion = 3
  MaxNow = 3
SYMMETRY Interchangeable
INVARIANTS
  TxTypeOK
  OneWriterPerVersion
  CommitRetires
  SnapshotLag
PROPERTIES
  VersionsMoveByCommit
  ImplementsStore
