SPECIFICATION Spec
CONSTANTS
  RowPtr <- MCRowPtr
  Calls <- MCCalls
  Threshold = 2
INVARIANTS
  HeaviestSampled
