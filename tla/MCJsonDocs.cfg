CONSTANTS
  Pairs <- MCPairs
  Requests <- MCRequests
  Sizes <- MCSizes
  Keys <- MCKeys
  Paths <- MCPaths
  Fail <- MCFail
  Char <- MCChar
  OutSizes <- MCOutSizes
  MaxCalls = 2
SPECIFICATION Spec
CHECK_DEADLOCK FALSE
INVARIANTS TypeOK Linked Owned DeletesTree CompareAgrees PointerFinds PatchesReach MergeReaches FieldsArrive
PROPERTIES EditsOnePlace FailedPatchKeeps
