\* A reorganisation while a poll is in flight.
CONSTANTS
  TopHeight = 2
  Block <- Tree
  num <- TreeNum
  parent <- TreeParent
  DeployHeight = 1
  MaxReorgEntries = 2
  StaleSlots = 2
  MaxReorgs = 1
  Disturbances = {"reorg_in_poll"}
SPECIFICATION Spec
INVARIANTS
  ClientHoldsChain
