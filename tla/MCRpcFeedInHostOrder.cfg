\* A reorganisation below the view's oldest block.
CONSTANTS
  TopHeight = 4
  ForkHeight = 2
  Block <- Tree
  num <- TreeNum
  parent <- TreeParent
  DeployHeight = 1
  NoBlock = NoBlock
  Head0 = 2
  Capacity = 2
  BatchSize = 1
  EpochBlocks = 3
  MaxReorgs = 1
SPECIFICATION Spec
INVARIANTS
  FeedInHostOrder
CHECK_DEADLOCK FALSE
