CONSTANTS
  QueueLen = 2
  LoopLen = 3
  MaxRequests = 3
  Faults = {"spawn", "init", "stop", "config", "start", "connect", "httpd"}
  ApiEvents = {}
SPECIFICATION FairSpec
INVARIANTS Converged
PROPERTIES DriverFinishes Switches Switching
