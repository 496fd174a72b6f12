SPECIFICATION MCSpec
CONSTANTS
  SizeModulus = 64
  Layouts <- MCLayouts
  Jobs <- MCJobs
INVARIANTS
  CopiedToPlace
  RowsOfRank
  LoadedOnReturn
  BytesInPlace
PROPERTIES
  LoadsReturn
