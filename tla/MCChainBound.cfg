SPECIFICATION LegacySpec
CONSTANTS
  Relation <- MCRelation
  Attribute <- MCAttribute
  Schema <- MCSchema
  Value <- MCValue
  Instance <- MCTwoKeys
  EdgeList <- MCChain
  MaxRows = 2
  Stale = 0
  MaxU64 = 7
  EveryKey = FALSE
  Number <- MCNumber
  MaxLength = 0
INVARIANTS
  CeilingSound
\* The call returns once; nothing follows it.
CHECK_DEADLOCK FALSE
