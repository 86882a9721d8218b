\* What readers see, and liveness: one reorganisation and one stop, rollup
\* heights up to 2.
CONSTANTS
  TopHeight = 3
  Block <- Tree
  num <- TreeNum
  parent <- TreeParent
  DeployHeight = 1
  MaxReorgs = 1
  MaxStops = 1
  ResumeOnCanonical = TRUE
SPECIFICATION FairSpec
INVARIANTS
  EventsTellTheChain
  TagsPointAtStoredBlocks
  ReportsAreCurrent
PROPERTIES
  FinishedBlocksStay
  CatchesUp
CHECK_DEADLOCK FALSE
