CONSTANTS
  q1 = q1
  q2 = q2
  Null = Null
  Client = {w1, w2}
  Template <- MCTemplate
  Observation <- MCObservation
  Store <- MCStore
  FeatureColumns <- MCFeatureColumns
  Current = 1
  MaxI64 = 7
  MaxU32 = 3
  MaxRows = 3
  MaxFaults = 2
SPECIFICATION FairSpec
INVARIANTS
  OpenMeansMigrated
  HistoryFaithful
PROPERTIES
  OpensEventually
  AppendOnlyLog
  NewerUntouched
