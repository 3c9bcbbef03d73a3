SPECIFICATION Spec
CONSTANTS
  MaxBlocks = 2
  LoopLen = 2
  QueueLen = 2
  MaxRequests = 1
  Faults = {"memory", "flash", "httpd", "register", "stop", "driver"}
INVARIANTS
  TypeOK
  BlocksOwned
  CausesNamed
  RequestsEndClean
  HandlersMove
  WaitsEnd
