CONSTANTS
  q1 = q1
  q2 = q2
  q3 = q3
  q4 = q4
  NaN = NaN
  None = None
  Err = Err
  MaxU64 = 4
  Prediction <- MCPrediction
  MaxParts = 2
  Suite <- MCSuite
  Placeholder = {q2}
  Root <- MCRoot
  Result <- MCResult
  Node = {1, 2, 3, 4, 5, 6, 7, 8}
  Operator <- MCOperator
  Children <- MCChildren
  Height <- MCHeight
  Reports <- MCReports
  Emits <- MCEmits
  Campaign <- MCCampaign
  Legacy <- MCLegacy
  MaxFaults = 2
SPECIFICATION FairSpec
INVARIANTS
  ObservationsMatchOutcomes
  HeldOutUnseen
  LossIsTimeouts
  CorrectorContract
PROPERTIES
  CallsEnd
