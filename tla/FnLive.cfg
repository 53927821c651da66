SPECIFICATION LiveSpec
CONSTANTS
  n1 = n1
  n2 = n2
  n3 = n3
  Nodes = {n1, n2}
  ValHistory <- MCTwo
  Hashes = {h1}
  NoHash = NoHash
  NoSig = NoSig
  NoVoteSet = NoVoteSet
  NoValSet = NoValSet
  Idle = Idle
  SigningThreshold = "Maj23"
  Topology <- AllPairs
  InitialPeers <- AllPairs
  FnErrors = FALSE
  SignErrors = FALSE
  Starters = {n1, n2}
  Committers = {n1, n2}
  MaxNonce = 2
  MaxFaults = 0
  QueueCap = 1
CHECK_DEADLOCK FALSE
PROPERTIES
  AllPassFirstNonce
