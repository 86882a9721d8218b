\* A subscription, which may lag behind the channel.
CONSTANTS
  TopHeight = 2
  Block <- Tree
  num <- TreeNum
  parent <- TreeParent
  DeployHeight = 1
  Sub = {s1}
  Silent <- SilentBlocks
  ChannelCapacity = 2
  NotifCapacity = 4
  MaxEvents = 4
  MaxResponses = 1
SPECIFICATION FairSpec
INVARIANTS
  TypeOK
  SubscriberHoldsChain
  CancelledIsSilent
  EntriesHaveTasks
PROPERTIES
  CancelledIsCleaned
  BufferedIsSent
CHECK_DEADLOCK FALSE
