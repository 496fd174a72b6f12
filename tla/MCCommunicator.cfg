SPECIFICATION MCSpec
CONSTANTS
  r1 = r1
  r2 = r2
  r3 = r3
  h1 = h1
  h2 = h2
  Rank <- MCRank
  Capacity = 3
  NoId = NoId
  Process <- MCProcess
  HostOf <- MCHostOf
  Groups <- MCGroups
  Color <- MCColor
  NoColor = NoColor
  MaxOps = 3
  NumRanks = 2
  PerRank = 2
  HostPrograms <- MCPrograms
INVARIANTS
  MapsAgree
  NoAbort
  DirsMatch
  Delivered
PROPERTIES
  ChoosesLeastFreeId
  LoopEnds
  CallsReturn
