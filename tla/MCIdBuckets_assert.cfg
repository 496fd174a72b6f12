SPECIFICATION BucketSpec
CONSTANTS
  Tables <- MCFullTables
  AnyRank <- MCAnyRank
  MaxIndices = 1
CHECK_DEADLOCK FALSE
INVARIANTS
  AssertHolds
