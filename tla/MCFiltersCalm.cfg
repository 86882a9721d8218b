\* No disturbance: polls between reverts, cold caught up, no failed read that
\* matters.
CONSTANTS
  TopHeight = 2
  Block <- Tree
  num <- TreeNum
  parent <- TreeParent
  DeployHeight = 1
  MaxReorgEntries = 2
  StaleSlots = 2
  MaxReorgs = 3
  Disturbances = {}
SPECIFICATION Spec
INVARIANTS
  TypeOK
  ClientHoldsChain
PROPERTIES
  PollsSeeEveryReorg
