SPECIFICATION Spec
CONSTANTS
  Tables <- MCTables
  MaxCalls = 3
  MaxBatch = 1
  SetSize = 1
  SizeRange = 65536
  Unset = 1000
INVARIANTS
  StatesCoverEntries
