SPECIFICATION MCSpec
CONSTANTS
  WorldSize = 3
  Pages = 2
  MaxOps = 4
  Kind <- MCKind
  Thread <- MCThread
  Operations <- MCOperations
  MaxCalls = 3
  MaxBucket = 2
INVARIANTS
  NoAbort
  UsableWhileHeld
  ReleasedLast
  NothingLeft
  MemoryOfItsOwn
PROPERTIES
  HandleCallsReturn
