SPECIFICATION Spec
CONSTANTS
  n1 = n1  n2 = n2  a1 = a1  a2 = a2
  Nodes = {n1, n2}
  Origins = {a1}
  Txs <- MCTxs
  LimitCalls = FALSE
  Period = 1
  KarmaEnabled = TRUE
  CallLimit = 1
  LastHeight = 2
  MaxBlockTxs = 2
  MaxRestarts = 0
  MaxCount = 2
INVARIANT ReplicasAgree
CHECK_DEADLOCK FALSE
