SPECIFICATION Spec
CONSTANTS
  a = a
  b = b
  Value <- TwoValues
  Coverage = 3
  Lines = 2
  CounterBits = 1
  MaxInc = 2
  MaxCount = 4
SYMMETRY ValueSymmetry
INVARIANTS
  Coherent
  EstimateTight
PROPERTIES
  ImplementsTable
  WriteBackSettles
  KeepsHottest
