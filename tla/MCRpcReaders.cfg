\* Every handler against one revert; two clients at one tracing permit.
CONSTANTS
  TopHeight = 3
  Block <- Tree
  num <- TreeNum
  parent <- TreeParent
  DeployHeight = 1
  c1 = c1
  c2 = c2
  Client = {c1, c2}
  Tx <- Txs
  TxIn <- TxBlocks
  BehindMagic = {"t2"}
  MaxTracing = 1
  MaxRange = 2
  OracleBlocks = 2
  RlpHeights = {1}
  Workloads <- Loads
  MaxReorgs = 1
SPECIFICATION FairSpec
INVARIANTS
  TypeOK
  AnswersAgree
  OneReaderOneBlock
  StoredIsFound
  TracingBounded
  TipIsOfWindow
PROPERTIES
  RequestsAreAnswered
CHECK_DEADLOCK FALSE
