CONSTANTS
  Clients = {c1, c2}
  Values = {v1, v2}
  Absent = Absent
  NoClient = NoClient
  Faults = {}
  MaxOps = 3
SPECIFICATION Spec
INVARIANTS LoadsAreWhole
