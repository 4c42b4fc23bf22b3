SPECIFICATION BindingSpec
CONSTANTS
  Relation <- MCRelation
  Attribute <- MCAttribute
  Schema <- MCSchema
  Value <- MCValue
  Instance <- MCInstance
  EdgeList <- MCEdgeList
  MaxRows = 2
  Stale = 1
  MaxU64 = 7
  EveryKey = TRUE
  Number <- MCNumber
  MaxLength = 4
INVARIANTS
  CeilingSound
PROPERTIES
  KeepsPromise
\* The call returns once; nothing follows it.
CHECK_DEADLOCK FALSE
