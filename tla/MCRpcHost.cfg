\* Reorganisations of anything not finalized, at any time.
CONSTANTS
  TopHeight = 5
  ForkHeight = 3
  Block <- Tree
  num <- TreeNum
  parent <- TreeParent
  DeployHeight = 1
  NoBlock = NoBlock
  Head0 = 1
  Capacity = 3
  BatchSize = 2
  EpochBlocks = 3
  MaxReorgs = 2
SPECIFICATION Spec
INVARIANTS
  TypeOK
  ViewMirrorsFeed
  FeedInHostOrderIfSpared
  IdleIsCurrent
PROPERTIES
  RevertsReachTheTip
CHECK_DEADLOCK FALSE
