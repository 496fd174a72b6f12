SPECIFICATION MCSpec
CONSTANTS
  BucketSize = 2
  AssignBucketSize = 2
  Key <- MCKey
  Inputs <- MCInputs
  Tables <- MCTables
  MaxIndices = 3
  AnyRank <- MCAnyRank
  Jobs <- MCJobs
  SortBytes = 4
  VectorBytes = 4
  AsyncBytes = 4
  WarpSize = 4
  WarpsPerBlock = 2
  GatherBytes = 8
  ScatterBytes = 32
  Unwritten = Unwritten
  Garbage = Garbage
  IndexRange = 16
INVARIANTS
  KeysDistinct
  AppendsUnique
  CountsOwned
  SampledAsInTurn
  HeaviestSampled
  RowsMoved
PROPERTIES
  SearchesEnd
