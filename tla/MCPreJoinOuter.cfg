CONSTANTS
  Planner = {"deep", "wide"}
  Node <- MCNode
  Kind <- MCKindOuter
  Inputs <- MCInputs
  Height <- MCHeight
  Joins <- MCJoins
  ScanRows <- MCScanRows
  Bytes <- MCBytes
  TrueRows <- MCTrueRowsOuter
  Estimate <- MCEstimate
  Options <- MCOptionsDefault
  Proposals = {1, 3, 4}
  SafeMaxRows = 7
  MaxU64 = 15
  MaxInstalls = 2
SPECIFICATION Spec
INVARIANTS
  EveryJoinWithinProduct
CHECK_DEADLOCK FALSE
