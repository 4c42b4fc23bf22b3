CONSTANTS
  Path <- MCPath
  Supported <- MCSupported
  Hll = "hll"
  Size <- MCSize
  Blob <- MCBlob
  Initial <- MCInitial
  PathLists <- MCPathLists
  Expected <- MCExpected
  Schemas <- MCSchemas
  MaxBlobs = 2
  MaxSnapshot = 2
  MaxAdded = 2
  MaxTorn = 1
  MaxAttached = 2
SPECIFICATION SidecarSpec
INVARIANTS
  LoadsExactlyWhatWasWritten
  SnapshotConsistent
  DistinctCountIsOfItsColumn
  FailsForAReason
CONSTRAINT Bounded
