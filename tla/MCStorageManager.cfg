CONSTANTS
  Clients = {c1, c2, c3}
  Values = {v1, v2}
  Absent = Absent
  NoClient = NoClient
  Faults = {"open", "access"}
  MaxOps = 4
SPECIFICATION Spec
SYMMETRY ClientSymmetry
INVARIANTS Serialized WholeAtRest LoadsAreStable
