SPECIFICATION FilterSpec
CONSTANTS
  b1 = b1
  b2 = b2
  Builder = {b1, b2}
  Item <- MCItem
  Dims <- MCDims
  Hash <- MCHash
  Count = {1, 2}
  Malformed <- MCMalformed
  MaxU32 = 3
  MaxU64 = 4
  MaxRows = 4
  Absent = Absent
  Payload <- MCPayload
  Filter <- MCFilter
  Fraction <- MCFraction
INVARIANTS
  NeverUndercounts
  CountMinDegreeSound
  PreFilterFits
