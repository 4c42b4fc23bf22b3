CONSTANTS
  join = join
  scan = scan
  other = other
  Largest = 3
  Prediction <- MCPrediction
  NaN = NaN
  Absent = Absent
  Err = Err
  Queries <- MCQueries
  Chain <- MCChain
  Dataset <- MCDataset
  RawFile <- MCRawFile
  WarmUp = {1, 2}
  V3WarmUp = 2
  Refit = {0, 2}
  Replicates = 3
  Unit = 6
  Alpha = 3
  Exact = 12
  MaxTests = 4
  MaxPairs = 4
  MaxCounted = 3
  Value <- MCValue
  Null = Null
SPECIFICATION AblationSpec
INVARIANTS
  PairedCells
  TrainedAsUsed
  StepUp
  ExactTail
  NormalMoments
CHECK_DEADLOCK FALSE
