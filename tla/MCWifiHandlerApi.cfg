CONSTANTS
  QueueLen = 2
  LoopLen = 3
  MaxRequests = 3
  Faults = {}
  ApiEvents = {"START", "STOP", "CONNECT"}
SPECIFICATION Spec
INVARIANTS Converged ServerAgrees
