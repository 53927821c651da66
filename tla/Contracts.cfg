SPECIFICATION ContractsSpec
CONSTANTS
  Accounts = {"gateway", "a", "b"}
  Gateway = "gateway"
  Spenders = {"b"}
  Genesis <- CoinGenesis
  MaxAmount = 2
  MaxBalance = 3
  MaxSelfMoved = 2
  n1 = n1
  n2 = n2
  n3 = n3
  f1 = f1
  NoFeature = NoFeature
  Idle = Idle
CHECK_DEADLOCK FALSE
INVARIANTS Conserved SpentWithinGrant TendermintInSync  PowerCapped  OwnersCharged PlasmaConsistent FeaturesConsistent MappingsPaired
PROPERTIES FeeAnnounced ImplementsCoin OriginsStable
