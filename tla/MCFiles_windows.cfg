SPECIFICATION MCSpec
CONSTANTS
  SizeModulus = 64
  Layouts <- MCContiguous
  Jobs <- MCJobs
INVARIANTS
  RowsOfRank
