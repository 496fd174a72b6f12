SPECIFICATION MCSpec
CONSTANTS
  SizeModulus = 64
  Layouts <- MCRobins
  Jobs <- MCJobs
INVARIANTS
  EntriesFound
