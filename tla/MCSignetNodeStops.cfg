\* Durability: one reorganisation and one stop, blocks below, at and above the
\* deploy height, rollup heights up to 2.
CONSTANTS
  TopHeight = 4
  Block <- Tree
  num <- TreeNum
  parent <- TreeParent
  DeployHeight = 2
  MaxReorgs = 1
  MaxStops = 1
  ResumeOnCanonical = TRUE
SPECIFICATION Spec
INVARIANTS
  TypeOK
  RollupIsLinked
  StoresAgree
  FollowsHost
  NeverFails
PROPERTIES
  ImplementsRollupChain
CHECK_DEADLOCK FALSE
