----------------------------- MODULE MCContracts -----------------------------
(* The contracts of the DApp chain, one of them at a time, in one run of   *)
(* TLC.                                                                    *)
EXTENDS Coin, SequencesExt

CONSTANTS
  n1, n2, n3, f1, NoFeature, Idle

VARIABLES
  part,  \* the part of the system this behaviour is about
  dpos3, now3, calls3, tendermint3, halted3, requested3, paid3, notice3,  \* DPOSv3
  dposState, candidates, voterBalance, votes, dposCoins, time,  \* DPOS
  sources, users, karmaOracle, config, upkeep, last, records, active,
  karmaCoins, karmaGranted, karmaHeight, karmaCalls, karmaHalted,  \* Karma
  plasmaCoins, accounts, pending, blocks, plasmaHeight, tally, plasmaOracle,
  events, latest, root, coinWorker, blockWorker, plasmaBatches, submissions,
  selfSent, transfers,  \* PlasmaCash
  ethBalance, ethTotalSupply, ethAllowance, ethSelfMoved, destroyed,
  ethGranted, ethSpent,  \* ETHCoin
  gw, identity, mapped, eth, gwBatches, summaries,  \* GatewayV1
  features, params, configActive, validators, build, stopped, routine,
  configCalls,  \* ChainConfig
  enabled, mapping, deployers, contracts, names, registryRecords, migrated,  \* TxOrigins
  owner, oracles, contractPending, nextID, contractMapping, asked, sent,
  changes, errors,  \* GatewayMappings
  dpos2, now2, calls2, tendermint2, halted2, requested2, paid2, notice2,
  latest2, v3  \* DPOSv2

stakingVars == <<dpos3, now3, calls3, tendermint3, halted3, requested3, paid3, notice3>>
dposVars == <<dposState, candidates, voterBalance, votes, dposCoins, time>>
karmaVars == <<sources, users, karmaOracle, config, upkeep, last, records, active,
               karmaCoins, karmaGranted, karmaHeight, karmaCalls,
               karmaHalted>>
plasmaVars == <<plasmaCoins, accounts, pending, blocks, plasmaHeight, tally, plasmaOracle,
                events, latest, root, coinWorker, blockWorker,
                plasmaBatches, submissions, selfSent, transfers>>
ethVars == <<ethBalance, ethTotalSupply, ethAllowance, ethSelfMoved, destroyed,
             ethGranted, ethSpent>>
gwVars == <<gw, identity, mapped, eth, gwBatches, summaries>>
configVars == <<features, params, configActive, validators, build, stopped, routine,
                configCalls>>
originVars == <<enabled, mapping, deployers, contracts, names, registryRecords, migrated>>
mappingVars == <<owner, oracles, contractPending, nextID, contractMapping, asked, sent,
                 changes, errors>>
staking2Vars == <<dpos2, now2, calls2, tendermint2, halted2, requested2, paid2, notice2,
                  latest2, v3>>

allVars == <<part, vars, stakingVars, dposVars, karmaVars, plasmaVars, ethVars, gwVars, configVars, originVars, mappingVars, staking2Vars>>

CoinGenesis == <<[owner |-> "a", balance |-> 2], [owner |-> "gateway", balance |-> 1]>>

\* Karma for coins and for awards; an upkeep at every block.
KarmaGenesis ==
  [sources |-> <<[name |-> "award", reward |-> 1, target |-> "DEPLOY"],
                 [name |-> "coin-deploy", reward |-> 1, target |-> "DEPLOY"]>>,
   upkeep |-> [cost |-> 2, period |-> 1], config |-> 1,
   coins |-> "u" :> 3 @@ "karma" :> 0]

\* Coins count twice, and awards no longer for deploying.
OtherSources ==
  <<[name |-> "coin-deploy", reward |-> 2, target |-> "DEPLOY"],
    [name |-> "award", reward |-> 1, target |-> "CALL"]>>

\* Coins of two accounts, and of the first dpos contract, which pays one a term
DposCoins == 1 :> 1 @@ 2 :> 2 @@ 9 :> 2

\* Two contracts of each chain, by two accounts
Creators == "f1" :> "alice" @@ "f2" :> "bob" @@ "l1" :> "alice" @@ "l2" :> "bob"

\* Two thirds, which is 66 percent rounded down
Majority == {[threshold |-> 67, confirmations |-> 1]}

\* Two tiers: the second is locked longer and counts one and a half times.
Bonus == 0 :> 2 @@ 1 :> 3

Lock == 0 :> 1 @@ 1 :> 3

\* A store of the third version with two registered candidates, of which the
\* first is the validator; delegator 3 has coins.
Params(cycle, requirement) ==
  [cycle |-> cycle, maxReward |-> 4, requirement |-> requirement, oracle |-> "oracle"]

Stat(whitelist) == [whitelist |-> whitelist, tier |-> 0, total |-> whitelist]

\* What the contract, its candidates, the delegator 3 and a newcomer 4 own
CoinsWith(n) == -1 :> n @@ 1 :> 0 @@ 2 :> 0 @@ 3 :> 2 @@ 4 :> 1

Store3(fee, requirement, delegations, coins) ==
  [delegations |-> delegations, list |-> SetToSeq(DOMAIN delegations),
   candidates |-> [c \in {1, 2} |-> [fee |-> fee, newFee |-> fee, state |-> "REGISTERED",
                                     maxReferral |-> 1]],
   statistics |-> 1 :> Stat(1) @@ 2 :> Stat(1),
   validators |-> <<[key |-> 1, power |-> 1]>>, referrers |-> <<>>, tally |-> 0,
   coins |-> CoinsWith(coins),
   params |-> Params(1, requirement), lastElection |-> 0, totalDelegations |-> 1, distributed |-> 0]

\* Two coins of delegator 3 that are bonded to candidate 1
Bonded3 == <<1, 3, 1>> :> [amount |-> 2, update |-> 0, state |-> "BONDED", tier |-> 0,
                            lock |-> 0, to |-> 0, referrer |-> "none"]

Bonded2 == <<[validator |-> 1, delegator |-> 3, amount |-> 2, update |-> 0,
              state |-> "BONDED", tier |-> 0, lock |-> 0, to |-> 0]>>

\* Four candidates with a whitelist amount each.
FourValidators ==
  [Store3(0, 1, <<>>, 0) EXCEPT
     !.candidates = [c \in 1 .. 4 |-> @[1]],
     !.statistics = 1 :> Stat(2) @@ 2 :> Stat(5) @@ 3 :> Stat(9) @@ 4 :> Stat(9)]

\* The same in the second version.
Store2(fee, requirement, delegations, coins) ==
  [delegations |-> delegations, distributions |-> <<>>,
   candidates |-> [c \in {1, 2} |-> [fee |-> fee, newFee |-> fee, counter |-> 0]],
   statistics |-> 1 :> Stat(1) @@ 2 :> Stat(1),
   validators |-> <<[key |-> 1, power |-> 1]>>, tally |-> [block |-> 0, log |-> 0],
   coins |-> CoinsWith(coins),
   params |-> Params(1, requirement), lastElection |-> 0, totalDelegations |-> 1,
   distributed |-> 0, v21 |-> FALSE, migrated |-> FALSE]

-----------------------------------------------------------------------------
\* The parts

\* Delegations to two candidates; a token counts twice.
Staking == INSTANCE DPOSv3 WITH
  dpos <- dpos3, now <- now3, calls <- calls3, tendermint <- tendermint3,
  halted <- halted3, requested <- requested3, paid <- paid3, notice <-
  notice3, ValidatorCount <- 2, PowerUnit <- 1, BasisPoints <- 2, Billionth
  <- 20, Year <- 4, BlockReward <- 1, TierBonus <- Bonus, TierLock <- Lock,
  Fees <- {}, Referrals <- {}, Oracles <- {}, Names <- {}, Requests <- <<>>,
  Cycles <- {}, Requirements <- {}, Rewards <- {}, ReferrerFee <- 1,
  Candidates <- {1, 2}, Delegators <- {3}, Amounts <- {1, 2}, Tiers <- {0},
  Genesis <- Store3(0, 1, Bonded3, 2), MaxCalls <- 3, MaxTime <- 3

\* Fees, registrations and two tiers.
Registering == INSTANCE DPOSv3 WITH
  dpos <- dpos3, now <- now3, calls <- calls3, tendermint <- tendermint3,
  halted <- halted3, requested <- requested3, paid <- paid3, notice <-
  notice3, ValidatorCount <- 2, PowerUnit <- 1, BasisPoints <- 2, Billionth
  <- 20, Year <- 4, BlockReward <- 1, TierBonus <- Bonus, TierLock <- Lock,
  Fees <- {0, 1}, Referrals <- {0, 1}, Oracles <- {}, Names <- {}, Requests
  <- <<>>, Cycles <- {}, Requirements <- {}, Rewards <- {}, ReferrerFee <-
  1, Candidates <- {1, 2}, Delegators <- {3}, Amounts <- {2}, Tiers <- {0,
  1}, Genesis <- Store3(1, 1, <<>>, 9), MaxCalls <- 2, MaxTime <- 4

\* What the oracle sets, referrers and the requests of mainnet.
Governing == INSTANCE DPOSv3 WITH
  dpos <- dpos3, now <- now3, calls <- calls3, tendermint <- tendermint3,
  halted <- halted3, requested <- requested3, paid <- paid3, notice <-
  notice3, ValidatorCount <- 2, PowerUnit <- 1, BasisPoints <- 2, Billionth
  <- 20, Year <- 4, BlockReward <- 1, TierBonus <- Bonus, TierLock <- Lock,
  Fees <- {}, Referrals <- {}, Oracles <- {"oracle", "other"}, Names <-
  {"name"}, Requests <- <<[candidate |-> 4, amount |-> 1, tier |-> 0],
  [candidate |-> 2, amount |-> 1, tier |-> 0]>>, Cycles <- {0, 2},
  Requirements <- {0}, Rewards <- {0}, ReferrerFee <- 1, Candidates <- {1,
  2, 4}, Delegators <- {3}, Amounts <- {2}, Tiers <- {0}, Genesis <-
  Store3(1, 1, <<>>, 9), MaxCalls <- 2, MaxTime <- 3

\* Four validators whose whitelist amounts change.
Capping == INSTANCE DPOSv3 WITH
  dpos <- dpos3, now <- now3, calls <- calls3, tendermint <- tendermint3,
  halted <- halted3, requested <- requested3, paid <- paid3, notice <-
  notice3, ValidatorCount <- 4, PowerUnit <- 1, BasisPoints <- 2, Billionth
  <- 20, Year <- 4, BlockReward <- 1, TierBonus <- Bonus, TierLock <- Lock,
  Fees <- {}, Referrals <- {}, Oracles <- {"oracle"}, Names <- {}, Requests
  <- <<>>, Cycles <- {}, Requirements <- {}, Rewards <- {}, ReferrerFee <-
  1, Candidates <- {1, 2, 3, 4}, Delegators <- {}, Amounts <- {1, 6, 20},
  Tiers <- {0}, Genesis <- FourValidators, MaxCalls <- 2, MaxTime <- 4

\* The second version: delegations to two candidates.
Staking2 == INSTANCE DPOSv2 WITH
  dpos <- dpos2, now <- now2, calls <- calls2, tendermint <- tendermint2,
  halted <- halted2, requested <- requested2, paid <- paid2, notice <-
  notice2, latest <- latest2, ValidatorCount <- 2, PowerUnit <- 1,
  BasisPoints <- 2, Billionth <- 20, Year <- 4, BlockReward <- 1, TierBonus
  <- Bonus, TierLock <- Lock, Fees <- {}, Oracles <- {}, TimeLocks <- <<>>,
  Cycles <- {}, Requirements <- {}, Rewards <- {}, Plasma <- <<1, 2>>,
  Doubled <- <<2, 3>>, Candidates <- {1, 2}, Delegators <- {3}, Amounts <-
  {1, 2}, Tiers <- {0}, Genesis <- Store2(0, 1, Bonded2, 2), MaxCalls <- 3,
  MaxTime <- 4

\* Its oracle, its registrations, and the migration to the third version.
Governing2 == INSTANCE DPOSv2 WITH
  dpos <- dpos2, now <- now2, calls <- calls2, tendermint <- tendermint2,
  halted <- halted2, requested <- requested2, paid <- paid2, notice <-
  notice2, latest <- latest2, ValidatorCount <- 2, PowerUnit <- 1,
  BasisPoints <- 2, Billionth <- 20, Year <- 4, BlockReward <- 1, TierBonus
  <- Bonus, TierLock <- Lock, Fees <- {0, 1}, Oracles <- {"oracle",
  "other"}, TimeLocks <- <<[block |-> 1, log |-> 1, candidate |-> 4, amount
  |-> 1, tier |-> 0, release |-> 7], [block |-> 1, log |-> 2, candidate |->
  5, amount |-> 1, tier |-> 2, release |-> 1]>>, Cycles <- {0, 2},
  Requirements <- {0}, Rewards <- {0}, Plasma <- <<1, 2>>, Doubled <- <<2,
  3>>, Candidates <- {1, 2, 4}, Delegators <- {3}, Amounts <- {1}, Tiers <-
  {0, 1}, Genesis <- Store2(1, 1, <<>>, 9), MaxCalls <- 2, MaxTime <- 3

\* The first version, with votes instead of delegations.
Voting == INSTANCE DPOS WITH
  state <- dposState, coins <- dposCoins, Accounts <- {1, 2}, Contract <- 9,
  Genesis <- {2}, Coins <- DposCoins, VoteAllocation <- 2, WitnessCount <-
  1, WitnessSalary <- 1, MinPowerFraction <- 2, Cycle <- 1, Amounts <- {-1,
  0, 2}, MaxTime <- 2

\* A user with two contracts to deploy, who may become the oracle.
Karma == INSTANCE Karma WITH
  oracle <- karmaOracle, coins <- karmaCoins, granted <- karmaGranted, height
  <- karmaHeight, calls <- karmaCalls, halted <- karmaHalted, Users <-
  {"u"}, Oracles <- {"u", "o"}, Contracts <- {"c", "d"}, Names <-
  {"coin-deploy", "award"}, Amounts <- {1, 3}, SourceLists <-
  {OtherSources}, UpkeepChoices <- {[cost |-> 1, period |-> 2], [cost |-> 0,
  period |-> 0]}, MinKarmas <- {0}, Genesis <- KarmaGenesis, MaxCalls <- 4,
  MaxHeight <- 4

\* Two coins, and one request of the oracle at a time.
PlasmaCoins == INSTANCE PlasmaCash WITH
  coins <- plasmaCoins, height <- plasmaHeight, oracle <- plasmaOracle,
  batches <- plasmaBatches, Users <- {"u", "v"}, Oracles <- {"w"}, Worker <-
  "w", Interval <- 3, MaxDeposits <- 2, MaxEvents <- 2, MaxTransfers <- 2,
  MaxInflight <- 1

\* One coin, requests that overlap and an oracle that is replaced.
Repeating == INSTANCE PlasmaCash WITH
  coins <- plasmaCoins, height <- plasmaHeight, oracle <- plasmaOracle,
  batches <- plasmaBatches, Users <- {"u", "v"}, Oracles <- {"w", "x"},
  Worker <- "w", Interval <- 3, MaxDeposits <- 1, MaxEvents <- 3,
  MaxTransfers <- 1, MaxInflight <- 2

\* An account, a contract of the EVM and the gateway.
Eth == INSTANCE ETHCoin WITH
  balance <- ethBalance, totalSupply <- ethTotalSupply, allowance <-
  ethAllowance, selfMoved <- ethSelfMoved, granted <- ethGranted, spent <-
  ethSpent, Accounts <- {"g", "a", "c"}, EvmContracts <- {"c"}, Gateway <-
  "g", Spenders <- {"a"}, MaxAmount <- 1, MaxBalance <- 2, MaxSelfMoved <-
  1, MaxSupply <- 2

\* The first gateway with ether and a unique token.
Tokens == INSTANCE GatewayV1 WITH
  batches <- gwBatches, Users <- {"u"}, EthAddrs <- {"e"}, Kind <- ("eth" :>
  "ETH" @@ "cat" :> "ERC721"), Values <- {1}, MaxEvents <- 3, MaxNonce <- 3,
  MaxInflight <- 2

\* The same with two users of a fungible token.
Sharing == INSTANCE GatewayV1 WITH
  batches <- gwBatches, Users <- {"u", "v"}, EthAddrs <- {"e", "f"}, Kind <-
  ("dai" :> "ERC20"), Values <- {1}, MaxEvents <- 3, MaxNonce <- 1,
  MaxInflight <- 1

\* A feature, and a validator that is replaced by another.
Config == INSTANCE ChainConfig WITH
  active <- configActive, calls <- configCalls, Nodes <- {n1, n2, n3},
  ValidatorSets <- {{n1, n2}, {n2, n3}}, Features <- {f1}, Builds <- {1, 2},
  ParamChoices <- Majority \cup {[threshold |-> 0, confirmations |-> 0],
  [threshold |-> 150, confirmations |-> 0]}, MaxOwnerCalls <- 3,
  MaxElections <- 1, MaxManualVotes <- 2

\* Two addresses on this chain and on another, and the mappings between them.
Identities == INSTANCE TxOrigins WITH
  records <- registryRecords, Home <- "h", Chains <- ("eth" :> "mapped"),
  Locals <- {"x", "y"}, Names <- {}, RegistryVersion <- 2, DeployerFlags <-
  {}, MaxContracts <- 0

\* One address on each, which deploys two contracts.
Deploys == INSTANCE TxOrigins WITH
  records <- registryRecords, Home <- "h", Chains <- ("eth" :> "mapped"),
  Locals <- {"x"}, Names <- {"", "bad name", "n"}, RegistryVersion <- 2,
  DeployerFlags <- {"evm"}, MaxContracts <- 2

\* The same with the first version of the registry.
Registry == INSTANCE TxOrigins WITH
  records <- registryRecords, Home <- "h", Chains <- ("eth" :> "mapped"),
  Locals <- {"x"}, Names <- {"", "bad name", "n"}, RegistryVersion <- 1,
  DeployerFlags <- {"evm"}, MaxContracts <- 2

\* Two contracts of Ethereum and two of this chain.
Contracts == INSTANCE GatewayMappings WITH
  pending <- contractPending, mapping <- contractMapping, Creator <- Creators,
  Foreign <- {"f1", "f2"}, Local <- {"l1", "l2"}, Accounts <- {"o", "p"},
  MaxMappings <- 2, MaxChanges <- 1, MaxErrors <- 1

-----------------------------------------------------------------------------
\* DPOSv3 is not looked at.
StakingOff ==
  /\ dpos3 = "off" /\ now3 = "off" /\ calls3 = "off" /\ tendermint3 = "off"
  /\ halted3 = "off" /\ requested3 = "off" /\ paid3 = "off" /\ notice3 = "off"

\* DPOS is not looked at.
DposOff ==
  /\ dposState = "off" /\ candidates = "off" /\ voterBalance = "off" /\ votes = "off"
  /\ dposCoins = "off" /\ time = "off"

\* Karma is not looked at.
KarmaOff ==
  /\ sources = "off" /\ users = "off" /\ karmaOracle = "off" /\ config = "off"
  /\ upkeep = "off" /\ last = "off" /\ records = "off" /\ active = "off"
  /\ karmaCoins = "off" /\ karmaGranted = "off" /\ karmaHeight = "off" /\ karmaCalls = "off"
  /\ karmaHalted = "off"

\* PlasmaCash is not looked at.
PlasmaOff ==
  /\ plasmaCoins = "off" /\ accounts = "off" /\ pending = "off" /\ blocks = "off"
  /\ plasmaHeight = "off" /\ tally = "off" /\ plasmaOracle = "off" /\ events = "off"
  /\ latest = "off" /\ root = "off" /\ coinWorker = "off" /\ blockWorker = "off"
  /\ plasmaBatches = "off" /\ submissions = "off" /\ selfSent = "off" /\ transfers = "off"

\* ETHCoin is not looked at.
EthOff ==
  /\ ethBalance = "off" /\ ethTotalSupply = "off" /\ ethAllowance = "off" /\ ethSelfMoved = "off"
  /\ destroyed = "off" /\ ethGranted = "off" /\ ethSpent = "off"

\* GatewayV1 is not looked at.
GwOff ==
  /\ gw = "off" /\ identity = "off" /\ mapped = "off" /\ eth = "off"
  /\ gwBatches = "off" /\ summaries = "off"

\* ChainConfig is not looked at.
ConfigOff ==
  /\ features = "off" /\ params = "off" /\ configActive = "off" /\ validators = "off"
  /\ build = "off" /\ stopped = "off" /\ routine = "off" /\ configCalls = "off"

\* TxOrigins is not looked at.
OriginOff ==
  /\ enabled = "off" /\ mapping = "off" /\ deployers = "off" /\ contracts = "off"
  /\ names = "off" /\ registryRecords = "off" /\ migrated = "off"

\* GatewayMappings is not looked at.
MappingOff ==
  /\ owner = "off" /\ oracles = "off" /\ contractPending = "off" /\ nextID = "off"
  /\ contractMapping = "off" /\ asked = "off" /\ sent = "off" /\ changes = "off"
  /\ errors = "off"

\* DPOSv2 is not looked at.
Staking2Off ==
  /\ dpos2 = "off" /\ now2 = "off" /\ calls2 = "off" /\ tendermint2 = "off"
  /\ halted2 = "off" /\ requested2 = "off" /\ paid2 = "off" /\ notice2 = "off"
  /\ latest2 = "off" /\ v3 = "off"

ContractsInit ==
  /\ Init
  /\ \/ part = "coin" /\ StakingOff /\ DposOff /\ KarmaOff /\ PlasmaOff /\
          EthOff /\ GwOff /\ ConfigOff /\ OriginOff /\ MappingOff /\ Staking2Off
     \/ part = "stake" /\ Staking!Init /\ DposOff /\ KarmaOff /\ PlasmaOff /\
          EthOff /\ GwOff /\ ConfigOff /\ OriginOff /\ MappingOff /\ Staking2Off
     \/ part = "fees" /\ Registering!Init /\ DposOff /\ KarmaOff /\ PlasmaOff
          /\ EthOff /\ GwOff /\ ConfigOff /\ OriginOff /\ MappingOff /\
          Staking2Off
     \/ part = "oracle" /\ Governing!Init /\ DposOff /\ KarmaOff /\ PlasmaOff
          /\ EthOff /\ GwOff /\ ConfigOff /\ OriginOff /\ MappingOff /\
          Staking2Off
     \/ part = "cap" /\ Capping!Init /\ DposOff /\ KarmaOff /\ PlasmaOff /\
          EthOff /\ GwOff /\ ConfigOff /\ OriginOff /\ MappingOff /\ Staking2Off
     \/ part = "stake2" /\ Staking2!Init /\ StakingOff /\ DposOff /\ KarmaOff
          /\ PlasmaOff /\ EthOff /\ GwOff /\ ConfigOff /\ OriginOff /\
          MappingOff
     \/ part = "oracle2" /\ Governing2!Init /\ StakingOff /\ DposOff /\
          KarmaOff /\ PlasmaOff /\ EthOff /\ GwOff /\ ConfigOff /\ OriginOff /\
          MappingOff
     \/ part = "votes" /\ Voting!Init /\ StakingOff /\ KarmaOff /\ PlasmaOff
          /\ EthOff /\ GwOff /\ ConfigOff /\ OriginOff /\ MappingOff /\
          Staking2Off
     \/ part = "karma" /\ Karma!Init /\ StakingOff /\ DposOff /\ PlasmaOff /\
          EthOff /\ GwOff /\ ConfigOff /\ OriginOff /\ MappingOff /\ Staking2Off
     \/ part = "plasma" /\ PlasmaCoins!Init /\ StakingOff /\ DposOff /\
          KarmaOff /\ EthOff /\ GwOff /\ ConfigOff /\ OriginOff /\ MappingOff /\
          Staking2Off
     \/ part = "repeats" /\ Repeating!Init /\ StakingOff /\ DposOff /\
          KarmaOff /\ EthOff /\ GwOff /\ ConfigOff /\ OriginOff /\ MappingOff /\
          Staking2Off
     \/ part = "eth" /\ Eth!Init /\ StakingOff /\ DposOff /\ KarmaOff /\
          PlasmaOff /\ GwOff /\ ConfigOff /\ OriginOff /\ MappingOff /\
          Staking2Off
     \/ part = "gw" /\ Tokens!Init /\ StakingOff /\ DposOff /\ KarmaOff /\
          PlasmaOff /\ EthOff /\ ConfigOff /\ OriginOff /\ MappingOff /\
          Staking2Off
     \/ part = "gwusers" /\ Sharing!Init /\ StakingOff /\ DposOff /\ KarmaOff
          /\ PlasmaOff /\ EthOff /\ ConfigOff /\ OriginOff /\ MappingOff /\
          Staking2Off
     \/ part = "config" /\ Config!Init /\ StakingOff /\ DposOff /\ KarmaOff /\
          PlasmaOff /\ EthOff /\ GwOff /\ OriginOff /\ MappingOff /\ Staking2Off
     \/ part = "origins" /\ Identities!Init /\ StakingOff /\ DposOff /\
          KarmaOff /\ PlasmaOff /\ EthOff /\ GwOff /\ ConfigOff /\ MappingOff /\
          Staking2Off
     \/ part = "deploys" /\ Deploys!Init /\ StakingOff /\ DposOff /\ KarmaOff
          /\ PlasmaOff /\ EthOff /\ GwOff /\ ConfigOff /\ MappingOff /\
          Staking2Off
     \/ part = "registry" /\ Registry!Init /\ StakingOff /\ DposOff /\
          KarmaOff /\ PlasmaOff /\ EthOff /\ GwOff /\ ConfigOff /\ MappingOff /\
          Staking2Off
     \/ part = "mappings" /\ Contracts!Init /\ StakingOff /\ DposOff /\
          KarmaOff /\ PlasmaOff /\ EthOff /\ GwOff /\ ConfigOff /\ OriginOff /\
          Staking2Off

ContractsNext ==
  \/ part = "coin" /\ Next
     /\ UNCHANGED <<part, stakingVars, dposVars, karmaVars, plasmaVars, ethVars, gwVars, configVars, originVars, mappingVars, staking2Vars>>
  \/ part = "stake" /\ Staking!Next
     /\ UNCHANGED <<part, vars, dposVars, karmaVars, plasmaVars, ethVars, gwVars, configVars, originVars, mappingVars, staking2Vars>>
  \/ part = "fees" /\ Registering!Next
     /\ UNCHANGED <<part, vars, dposVars, karmaVars, plasmaVars, ethVars, gwVars, configVars, originVars, mappingVars, staking2Vars>>
  \/ part = "oracle" /\ Governing!Next
     /\ UNCHANGED <<part, vars, dposVars, karmaVars, plasmaVars, ethVars, gwVars, configVars, originVars, mappingVars, staking2Vars>>
  \/ part = "cap" /\ Capping!Next
     /\ UNCHANGED <<part, vars, dposVars, karmaVars, plasmaVars, ethVars, gwVars, configVars, originVars, mappingVars, staking2Vars>>
  \/ part = "stake2" /\ Staking2!Next
     /\ UNCHANGED <<part, vars, stakingVars, dposVars, karmaVars, plasmaVars, ethVars, gwVars, configVars, originVars, mappingVars>>
  \/ part = "oracle2" /\ Governing2!Next
     /\ UNCHANGED <<part, vars, stakingVars, dposVars, karmaVars, plasmaVars, ethVars, gwVars, configVars, originVars, mappingVars>>
  \/ part = "votes" /\ Voting!Next
     /\ UNCHANGED <<part, vars, stakingVars, karmaVars, plasmaVars, ethVars, gwVars, configVars, originVars, mappingVars, staking2Vars>>
  \/ part = "karma" /\ Karma!Next
     /\ UNCHANGED <<part, vars, stakingVars, dposVars, plasmaVars, ethVars, gwVars, configVars, originVars, mappingVars, staking2Vars>>
  \/ part = "plasma" /\ PlasmaCoins!Next
     /\ UNCHANGED <<part, vars, stakingVars, dposVars, karmaVars, ethVars, gwVars, configVars, originVars, mappingVars, staking2Vars>>
  \/ part = "repeats" /\ Repeating!Next
     /\ UNCHANGED <<part, vars, stakingVars, dposVars, karmaVars, ethVars, gwVars, configVars, originVars, mappingVars, staking2Vars>>
  \/ part = "eth" /\ Eth!Next
     /\ UNCHANGED <<part, vars, stakingVars, dposVars, karmaVars, plasmaVars, gwVars, configVars, originVars, mappingVars, staking2Vars>>
  \/ part = "gw" /\ Tokens!Next
     /\ UNCHANGED <<part, vars, stakingVars, dposVars, karmaVars, plasmaVars, ethVars, configVars, originVars, mappingVars, staking2Vars>>
  \/ part = "gwusers" /\ Sharing!Next
     /\ UNCHANGED <<part, vars, stakingVars, dposVars, karmaVars, plasmaVars, ethVars, configVars, originVars, mappingVars, staking2Vars>>
  \/ part = "config" /\ Config!Next
     /\ UNCHANGED <<part, vars, stakingVars, dposVars, karmaVars, plasmaVars, ethVars, gwVars, originVars, mappingVars, staking2Vars>>
  \/ part = "origins" /\ Identities!Next
     /\ UNCHANGED <<part, vars, stakingVars, dposVars, karmaVars, plasmaVars, ethVars, gwVars, configVars, mappingVars, staking2Vars>>
  \/ part = "deploys" /\ Deploys!Next
     /\ UNCHANGED <<part, vars, stakingVars, dposVars, karmaVars, plasmaVars, ethVars, gwVars, configVars, mappingVars, staking2Vars>>
  \/ part = "registry" /\ Registry!Next
     /\ UNCHANGED <<part, vars, stakingVars, dposVars, karmaVars, plasmaVars, ethVars, gwVars, configVars, mappingVars, staking2Vars>>
  \/ part = "mappings" /\ Contracts!Next
     /\ UNCHANGED <<part, vars, stakingVars, dposVars, karmaVars, plasmaVars, ethVars, gwVars, configVars, originVars, staking2Vars>>

ContractsSpec == ContractsInit /\ [][ContractsNext]_allVars

-----------------------------------------------------------------------------
\* Properties

\* What the contracts keep accounts of is neither made nor lost: the balances
\* of coin.go add up to its supply, but for what accounts transferred to
\* themselves; the votes of the first dpos contract to the allocation of each
\* account; the coins of the karma contract cover the karma given for them,
\* so that WithdrawCoin can pay; and the first gateway holds on Ethereum what
\* users have on the chain, have not claimed, or have a receipt for.
Conserved ==
  /\ part = "coin" => SupplyAccounted
  /\ part = "votes" => Voting!VotesConserved
  /\ part = "karma" => Karma!CoinKarmaBacked
  /\ part = "gw" => Tokens!Backed
  /\ part = "gwusers" => Sharing!Backed

\* Upkeep of the karma contract passes no active contract over: it charges a
\* user for at least as many contracts as the user has active, although
\* deployUpkeep writes the number back that it read before it deactivated
\* contracts.
OwnersCharged == part = "karma" => Karma!OwnersCharged

\* A plasma coin is listed by one account, once, and a withdrawn one by none,
\* whatever batches are repeated or overlap; and mainnet has every plasma
\* block up to its number as the DAppChain made it, in whatever order
\* submissions arrive.
PlasmaConsistent ==
  /\ part = "plasma" => PlasmaCoins!CoinHeldOnce /\ PlasmaCoins!BlocksAgree
  /\ part = "repeats" => Repeating!CoinHeldOnce /\ Repeating!BlocksAgree

\* eth_coin.go, whose balances the EVM moves behind its back, implements
\* coin.go as long as no account transfers to itself: each of its steps is
\* one of the coin contract, or none.
ImplementsCoin ==
  /\ part = "eth" => Eth!Ledger!Init
  /\ [][part = "eth" => Eth!LedgerStep]_ethVars

\* A feature is set in the state of the chain exactly when its record is
\* ENABLED, although RemoveFeature looks at the one and EnableFeatures at the
\* other; and "panic to prevent the node from processing any further blocks
\* until it's upgraded" (EnableFeatures of the chain config manager): a node
\* that runs supports every feature the chain has activated, whoever voted
\* for it.
FeaturesConsistent == part = "config" => Config!RecordMatchesState /\ Config!RunningNodesSupport

\* An account acts for the same account of this chain for ever, whichever
\* chains are enabled and whoever adds mappings, and queries look up that
\* account: what a client has signed for with one key is never found under
\* another address.
OriginsStable == [][part = "origins" => Identities!OriginStable]_originVars

\* What stands for something of another chain does so for one thing, and the
\* other way round: an account speaks for itself and at most one other
\* account (address mapper), the two directions of the contract mapping agree
\* (gateway), in whatever order mappings are asked for, signed, authorized
\* and verified, and a name of the registry leads to one contract, whose
\* record has that name: the errors of Register that DeployTxHandler drops
\* leave no name and no record behind.
MappingsPaired ==
  /\ part = "origins" => Identities!OneIdentity
  /\ part = "mappings" => Contracts!MappingsInverse
  /\ part = "deploys" => Deploys!NamesConsistent

\* The validators of Tendermint are those of the dpos contract that have
\* power, through every election: EndBlock takes the power from those that
\* left and sends the rest.
TendermintInSync ==
  /\ part \in {"stake", "fees", "oracle"} => Staking!TendermintInSync
  /\ part \in {"stake2", "oracle2"} => Staking2!TendermintInSync

\* What a delegator was paid and what still waits in UNBONDING delegations is
\* within what they asked to get back: unbonding pays once, though the list
\* of delegations may name one twice.
PaidAsRequested ==
  /\ part = "stake" => Staking!PaidAsRequested
  /\ part = "fees" => Registering!PaidAsRequested
  /\ part = "stake2" => Staking2!PaidAsRequested
  /\ part = "oracle2" => Governing2!PaidAsRequested

\* With four validators or more none has a power above 28 percent of what the
\* election counted, and one with more behind it never has less power: what
\* applyPowerCap takes from one and spreads over the others keeps both.
PowerCapped == part = "cap" => Capping!PowerCapped

\* Every time lock of mainnet in a block the oracle will not fetch again has
\* whitelisted its candidate, whatever the order of batches and of what the
\* oracle account does itself (ProcessRequestBatch of the second version).
RequestsApplied == part = "oracle2" => Governing2!RequestsApplied

\* The migration to the third version keeps what every delegator has bonded
\* and earned: "in case of duplicates create an array to store delegation
\* index" (dposv2/dpos.go).
MigrationKeepsStake == part = "oracle2" => Governing2!MigrationKeepsStake

\* An election of the third version settles every delegation: none is left
\* BONDING, UNBONDING or REDELEGATING.
ElectionSettles == [][part = "stake" => Staking!ElectionSettles]_stakingVars

\* Delegators see a fee coming: the fee of a candidate changes at the second
\* election after ChangeFee and at no other time, in the second and in the
\* third version.
FeeAnnounced ==
  /\ [][(part \in {"stake", "fees", "oracle"}) => Staking!FeeAnnounced]_stakingVars
  /\ [][(part \in {"stake2", "oracle2"}) => Staking2!FeeAnnounced]_staking2Vars

=============================================================================
