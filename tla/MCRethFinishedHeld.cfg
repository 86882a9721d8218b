\* One reorganisation while the receiver is two notifications behind.
CONSTANTS
  TopHeight = 5
  ForkHeight = 2
  Block <- Tree
  num <- TreeNum
  parent <- TreeParent
  DeployHeight = 1
  Head0 = 3
  BatchSettings = {2}
  MaxReorgs = 1
  MaxQueued = 2
  ResumeOnCanonical = TRUE
SPECIFICATION Spec
INVARIANTS
  FinishedIsHeld
CHECK_DEADLOCK FALSE
