SPECIFICATION MCSpec
CONSTANTS
  WorldSize = 2
  Offsets <- MCOffsets
  Batches <- MCBatches
  AnyRank <- MCAnyRank
  IndexRange = 16
  Untouched = Untouched
  OutOfBounds = OutOfBounds
  MaxOps = 3
INVARIANTS
  GatherSeesScatters
  CountsMatch
  StepsAccepted
  StatesOfEntry
  CheckpointComplete
PROPERTIES
  TableCallsReturn
