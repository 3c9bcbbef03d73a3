CONSTANTS
  QueueLen = 2
  Workers = {w1, w2}
  Faults = {"spawn", "put", "get", "task", "driver", "memory"}
  ApiCalls = {"CONNECT", "START", "switch", "store", "load"}
  MaxPairs = 2
  MaxAsks = 1
  MaxLosses = 1
SPECIFICATION FairSpec
INVARIANTS TypeOK RamMatchesFlash StationHasPair
PROPERTY SavesReachFlash
