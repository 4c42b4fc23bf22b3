SPECIFICATION SummarySpec
CONSTANTS
  Builder = {b1, b2}
  Item <- MCItem
  Bits = 5
  Precisions = {1, 2}
  Asked = {1, 2, 5}
  Hash <- MCHash
  Malformed <- MCMalformed
  Part = {p1, p2}
  Null = Null
  NullKey = NullKey
  Value = {0, 1, 3}
  Batch <- MCBatch
  Engine = {"arrow", "unsupported", "duckdb"}
  BloomSize <- MCBloomSize
  DoubleHash <- MCDoubleHash
  MaxU64 = 31
  Buckets = {2, 3}
  GridSize <- MCGridSize
  Precision = 2
  MaxLen = 7
SYMMETRY Builders
INVARIANTS
  HllDegreeSound
  NoFalseNegatives
  HistogramWithinBuckets
  GridCovers
  IngestedDegreeSound
