SPECIFICATION FairSpec
CONSTANTS
  MaxHandles = 4
  MaxTime = 2
  Shuffled = FALSE
PROPERTIES
  KeepsTime
  InOrder
  AllRun
