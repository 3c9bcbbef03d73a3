CONSTANTS
  QueueLen = 2
  LoopLen = 3
  MaxRequests = 3
  Faults = {}
  ApiEvents = {"STOP", "CONNECT"}
SPECIFICATION Spec
PROPERTIES ConnectReconnects
