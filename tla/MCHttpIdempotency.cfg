SPECIFICATION HttpSpec
CONSTANTS
  Keys = {"a1", "a2", "b1"}
  MethodKeys = {"a", "b"}
  MethodKey <- MCMethodKey
  Replies = {ok, error}
  Ttl = 2
  Threshold = 2
  MaxNow = 3
  MaxRestarts = 1
  None = None
  Torn = Torn
  Requests = {r1, r2}
SYMMETRY Interchangeable
INVARIANTS HttpTypeOK FingerprintsMatch LedgerCatchesUp MemoryKeepsPromises
PROPERTY RetryIsReplayed
