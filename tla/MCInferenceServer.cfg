CONSTANTS
  Conn = {c1, c2}
  Server <- MCServer
  Request <- MCRequest
  FeatureLen = 2
  MaxBatches = 2
  MaxU64 = 2
  Reply = {0, 5}
  Hard = 3
  Idle = 2
  Grace = 1
  MaxTimeout = 4
  Patience = {1, 4}
  MaxParts = 1
  Words = Words
  Failed = Failed
  Pending = Pending
  None = None
SPECIFICATION FairSpec
INVARIANTS
  NeutralUnlessAnswered
  OutlastsBackend
PROPERTIES
  EveryRequestEnds
