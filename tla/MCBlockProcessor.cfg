\* One reorganisation; three sources, one lenient, the others serve or not.
CONSTANTS
  Block <- Tree
  num <- TreeNum
  parent <- TreeParent
  DeployHeight = 1
  c = c
  e = e
  k1 = k1
  k2 = k2
  k3 = k3
  Address = {c, e}
  Deploys <- TreeDeploys
  Delegates <- TreeDelegates
  Senders <- TreeSenders
  Submission <- TreeSubmission
  Requester = {node}
  Node = node
  Key = {k1, k2, k3}
  NoKey = NoKey
  Plain = {k3}
  Garbled = {k2}
  Count <- BlobCount
  Needs <- BlobNeeds
  HasPool = TRUE
  AsyncSource = {explorer, beacon, pylon}
  Lenient = {beacon}
  FetchRetries = 3
  CacheSize = 1
  QueueSize = 1
  MaxReorgs = 2
SPECIFICATION FairSpec
INVARIANTS
  TypeOK
  StoredAsPublished
  AliasesAreTheBlocks
PROPERTIES
  AnsweredDespiteHangs
CHECK_DEADLOCK FALSE
