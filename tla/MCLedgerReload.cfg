SPECIFICATION HttpLiveSpec
CONSTANTS
  Keys = {"a1"}
  MethodKeys = {"a"}
  MethodKey <- MCMethodKey
  Replies = {ok}
  Ttl = 2
  Threshold = 2
  MaxNow = 3
  MaxRestarts = 1
  None = None
  Torn = Torn
  Requests = {r1}
PROPERTY LoadEnds
