SPECIFICATION FairSpec
CONSTANTS
  Rank <- MCRank
  Owner <- MCOwner
  Kinds = {"shared", "distributed", "readonly"}
  Batches <- MCBatches
  MaxOps = 3
INVARIANTS
  GatherSeesSteps
  RawSettled
PROPERTIES
  ImplementsTable
  CallsReturn
