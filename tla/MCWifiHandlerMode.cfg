CONSTANTS
  QueueLen = 2
  LoopLen = 3
  MaxRequests = 3
  Faults = {}
  ApiEvents = {}
SPECIFICATION Spec
INVARIANTS ModeReached
