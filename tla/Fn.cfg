SPECIFICATION SafetySpec
CONSTANTS
  n1 = n1  n2 = n2  n3 = n3  h1 = h1  h2 = h2
  Nodes = {n1, n2, n3}
  ValHistory <- MCAll
  Hashes = {h1, h2}
  NoHash = NoHash
  NoSig = NoSig
  NoVoteSet = NoVoteSet
  NoValSet = NoValSet
  Idle = Idle
  SigningThreshold = "Maj23"
  Topology <- AllPairs
  InitialPeers <- AllPairs
  FnErrors = TRUE
  SignErrors = TRUE
  Starters = {n1, n2}
  Committers = {n1, n2, n3}
  MaxNonce = 2
  MaxFaults = 1
  QueueCap = 1
CHECK_DEADLOCK FALSE
INVARIANTS SubmissionsAuthentic NonceJustified NoncesOrdered DisagreementNeedsEquivocation 
