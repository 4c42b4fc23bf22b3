CONSTANTS
  Planner = {"deep", "wide"}
  Node <- MCNode
  Kind <- MCKind
  Inputs <- MCInputs
  Height <- MCHeight
  Joins <- MCJoins
  ScanRows <- MCScanRows
  Bytes <- MCBytes
  TrueRows <- MCTrueRows
  Estimate <- MCEstimate
  Options <- MCOptions
  Proposals = {2, 6, 15}
  SafeMaxRows = 7
  MaxU64 = 15
  MaxInstalls = 2
SPECIFICATION Spec
INVARIANTS
  CountersAddUp
  TruthSurvives
  WithinEnvelope
CHECK_DEADLOCK FALSE
