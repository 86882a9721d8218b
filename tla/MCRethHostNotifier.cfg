\* Two reorganisations at or after the resume height; batch settings 0 and 2.
CONSTANTS
  TopHeight = 5
  ForkHeight = 2
  Block <- Tree
  num <- TreeNum
  parent <- TreeParent
  DeployHeight = 1
  Head0 = 3
  BatchSettings = {0, 2}
  MaxReorgs = 2
  MaxQueued = 2
  ResumeOnCanonical = TRUE
SPECIFICATION FairSpec
INVARIANTS
  TypeOK
  FinishedIsFinal
PROPERTIES
  ImplementsHostFeed
  ReachesTip
CHECK_DEADLOCK FALSE
