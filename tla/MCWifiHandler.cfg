CONSTANTS
  QueueLen = 2
  LoopLen = 3
  MaxRequests = 4
  Faults = {}
  ApiEvents = {"START"}
SPECIFICATION Spec
INVARIANTS TypeOK Converged NeverNullMode StartOnlyStopped FsmAgrees ServerAgrees
PROPERTIES Switching
