CONSTANTS
  Clients = {c1, c2}
  Values = {v1, v2}
  Absent = Absent
  NoClient = NoClient
  Faults = {"open", "access", "commit"}
  MaxOps = 3
SPECIFICATION FairSpec
PROPERTIES Implements OperationsEnd
