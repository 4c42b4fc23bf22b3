CONSTANTS
  Columns = 2
  Field <- MCField
  Portable <- MCPortable
  Overrides <- MCOverrides
  Counts <- MCCounts
  Projections <- MCProjections
  MaxU64 = 7
  Tables <- MCTables
  Focus = "t"
  Version <- MCVersion
  Declared <- MCDeclared
  Malformed = Malformed
  Legacy <- MCLegacy
  Torn = Torn
  None = None
SPECIFICATION CorpusSpec
INVARIANTS
  MemoryMonotone
  DistinctCountsAreOfTheirColumns
  RebuildHeals
  OneBuild
CONSTRAINT Bounded
