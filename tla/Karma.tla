-------------------------------- MODULE Karma --------------------------------
(***************************************************************************)
(* The karma contract: karma users hold in named sources, coins they lock  *)
(* for it, the EVM contracts they own, and the upkeep every node charges   *)
(* them for active contracts at the start of a block.                      *)
(*                                                                         *)
(* A transaction that fails leaves no trace, so an action is a call that   *)
(* succeeds.  A panic of Upkeep is not recovered: the chain halts.         *)
(***************************************************************************)
EXTENDS Integers, FiniteSets, SequencesExt

CONSTANTS
  Users, Oracles, Contracts,
  Names,           \* sources the oracle may add karma to
  Amounts,         \* amounts of coins and karma of one call
  SourceLists,     \* what ResetSources may be called with
  UpkeepChoices,   \* parameters the oracle may set
  MinKarmas,       \* MinKarmaToDeploy the oracle may set
  Genesis,         \* sources, parameters and coins of the genesis block
  MaxCalls,        \* bound on transactions
  MaxHeight        \* bound on blocks

VARIABLES
  sources,   \* SourcesKey: names, rewards and targets, in order
  users,     \* UserStateKey: counts by source, totals and NumOwnedContracts
  oracle, config, upkeep, last,  \* parameters and LastUpkeepHeight
  records,   \* ContractRecordKey: owner and id of a deployed contract
  active,    \* ContractActiveKey: the contracts that may be called
  coins,     \* what users and the karma contract own in the coin contract
  granted,   \* history: coin-deploy karma the oracle added, without coins
  height, calls, halted

params == <<sources, oracle, config, upkeep>>
vars == <<params, users, last, records, active, coins, granted, height, calls, halted>>

Coin == "coin-deploy"

This == "karma"

NoUser == [sources |-> <<>>, deploy |-> 0, call |-> 0, owned |-> 0]

\* BigUInt is stored as the bytes of its magnitude.
Marshal(n) == IF n < 0 THEN -n ELSE n

Init ==
  /\ sources = Genesis.sources /\ upkeep = Genesis.upkeep /\ config = Genesis.config
  /\ oracle \in Oracles
  /\ users = [u \in Users |-> NoUser]
  /\ last = 0 /\ height = 1
  /\ records = <<>> /\ active = {}
  /\ coins = Genesis.coins
  /\ granted = 0 /\ calls = 0 /\ halted = FALSE

-----------------------------------------------------------------------------
\* Karma of a user

Total(list, state, target) ==
  FoldSeq(LAMBDA c, sum :
            sum + (IF c.target # target THEN 0
                   ELSE FoldSeq(LAMBDA s, n : n + (IF s.name = c.name THEN c.reward * s.count ELSE 0),
                                0, state)),
          0, list)

CalculateTotalKarma(list, u) ==
  [u EXCEPT !.deploy = Total(list, u.sources, "DEPLOY"), !.call = Total(list, u.sources, "CALL")]

CountOf(state, name) ==
  FoldSeq(LAMBDA s, n : n + (IF s.name = name THEN s.count ELSE 0), 0, state)

HasSource(state, name) == \E i \in DOMAIN state : state[i].name = name

\* The loop of AddKarma and of modifyCountForUser: add to the source, or append it.
Add(state, name, amount) ==
  IF HasSource(state, name)
    THEN [i \in DOMAIN state |-> IF state[i].name = name THEN [state[i] EXCEPT !.count = @ + amount]
                                                         ELSE state[i]]
    ELSE Append(state, [name |-> name, count |-> amount])

AddTo(u, name, amount) ==
  users' = [users EXCEPT ![u] =
              CalculateTotalKarma(sources, [@ EXCEPT !.sources = Add(@, name, amount)])]

modifyCountForUser(u, amount) ==
  /\ CountOf(users[u].sources, Coin) + amount >= 0
  /\ AddTo(u, Coin, amount)

-----------------------------------------------------------------------------
\* Transactions

Call ==
  /\ ~halted /\ calls < MaxCalls
  /\ calls' = calls + 1
  /\ UNCHANGED <<last, height, halted>>

Move(from, to, amount) ==
  /\ coins[from] >= amount
  /\ coins' = [coins EXCEPT ![from] = @ - amount, ![to] = @ + amount]

DepositCoin(u, amount) ==
  /\ Call
  /\ Move(u, This, amount)
  /\ modifyCountForUser(u, amount)
  /\ UNCHANGED <<params, records, active, granted>>

\* Mutated WithdrawCoin: the sign is not changed.
WithdrawCoinAdds(u, amount) ==
  /\ Call
  /\ Move(This, u, amount)
  /\ modifyCountForUser(u, amount)
  /\ UNCHANGED <<params, records, active, granted>>

WithdrawCoin(u, amount) ==
  /\ Call
  /\ Move(This, u, amount)
  /\ modifyCountForUser(u, -amount)
  /\ UNCHANGED <<params, records, active, granted>>

\* Calls that need a permission of the oracle
OracleCall(o) == Call /\ o = oracle /\ UNCHANGED coins

AddKarma(o, u, name, amount) ==
  /\ OracleCall(o)
  /\ AddTo(u, name, amount)
  /\ granted' = granted + (IF name = Coin THEN amount ELSE 0)
  /\ UNCHANGED <<params, records, active>>

DeleteSourcesForUser(o, u, name) ==
  /\ OracleCall(o)
  /\ users' = [users EXCEPT ![u] =
                 CalculateTotalKarma(sources,
                   [@ EXCEPT !.sources = SelectSeq(@, LAMBDA s : s.name # name)])]
  /\ UNCHANGED <<params, records, active, granted>>

\* ResetSources and updateKarmaCounts
ResetSources(o, list) ==
  /\ OracleCall(o)
  /\ sources' = list
  /\ users' = [u \in Users |-> CalculateTotalKarma(list, users[u])]
  /\ UNCHANGED <<oracle, config, upkeep, records, active, granted>>

\* Zero leaves a parameter as it is.
SetUpkeepParams(o, p) ==
  /\ OracleCall(o)
  /\ upkeep' = [cost |-> IF p.cost = 0 THEN upkeep.cost ELSE p.cost,
                period |-> IF p.period = 0 THEN upkeep.period ELSE p.period]
  /\ UNCHANGED <<sources, oracle, config, users, records, active, granted>>

SetConfig(o, min) ==
  /\ OracleCall(o)
  /\ config' = min
  /\ UNCHANGED <<sources, oracle, upkeep, users, records, active, granted>>

\* registerOracle: the permissions go to the new oracle.
UpdateOracle(o, new) ==
  /\ OracleCall(o)
  /\ oracle' = new
  /\ UNCHANGED <<sources, config, upkeep, users, records, active, granted>>

-----------------------------------------------------------------------------
\* Contracts

incrementOwnedContracts(u, amount) == users' = [users EXCEPT ![u].owned = @ + amount]

\* The karma middleware lets the oracle deploy, and a user with enough karma.
MayDeploy(u) ==
  \/ u = oracle
  \/ users[u].deploy # 0 /\ users[u].deploy >= config

\* AddOwnedContract, after an EVM contract is deployed
Deploy(u, c) ==
  /\ Call
  /\ c \notin DOMAIN records
  /\ MayDeploy(u)
  /\ records' = [d \in DOMAIN records \cup {c} |->
                   IF d = c THEN [owner |-> u, id |-> Cardinality(DOMAIN records) + 1]
                            ELSE records[d]]
  /\ active' = active \cup {c}
  /\ incrementOwnedContracts(u, 1)
  /\ UNCHANGED <<params, coins, granted>>

\* A contract that is active is left as it is, without an error.
SetActive(c) ==
  /\ Call
  /\ c \in DOMAIN records \ active
  /\ active' = active \cup {c}
  /\ incrementOwnedContracts(records[c].owner, 1)
  /\ UNCHANGED <<params, records, coins, granted>>

\* Mutated DeactivateContract: it is not asked whether the contract is active.
SetInactiveAgain(c) ==
  /\ Call
  /\ c \in DOMAIN records
  /\ active' = active \ {c}
  /\ incrementOwnedContracts(records[c].owner, -1)
  /\ UNCHANGED <<params, records, coins, granted>>

\* SetInactive and DeactivateContract, whoever calls
SetInactive(c) ==
  /\ Call
  /\ c \in active
  /\ active' = active \ {c}
  /\ incrementOwnedContracts(records[c].owner, -1)
  /\ UNCHANGED <<params, records, coins, granted>>

-----------------------------------------------------------------------------
\* Upkeep

\* sourceMap: a source that is not listed counts as the first one.
TargetOf(name) ==
  LET at == {i \in DOMAIN sources : sources[i].name = name}
  IN  sources[IF at = {} THEN 1 ELSE CHOOSE i \in at : \A j \in at : j <= i].target

\* payKarma: sources are charged in order, the coin source last.  due is what
\* the loop still has to charge, owed the BigUInt it shares with the caller, and
\* coin is FALSE if no coin source was passed.
PayKarma(cost, state) ==
  FoldLeft(LAMBDA p, s :
    IF p.done THEN [p EXCEPT !.state = Append(@, s)]
    ELSE IF s.name = Coin THEN [p EXCEPT !.state = Append(@, s), !.coin = TRUE]
    ELSE IF TargetOf(s.name) # "DEPLOY" THEN [p EXCEPT !.state = Append(@, s)]
    ELSE IF s.count > p.due
      THEN [p EXCEPT !.state = Append(@, [s EXCEPT !.count = @ - p.due]), !.due = 0, !.done = TRUE]
    ELSE [p EXCEPT !.state = Append(@, [s EXCEPT !.count = 0]),
                   !.due = @ - s.count, !.owed = @ - s.count],
    [state |-> <<>>, due |-> cost, owed |-> cost, coin |-> FALSE, done |-> FALSE], state)

Charged(p) ==
  [i \in DOMAIN p.state |->
     IF p.state[i].name = Coin THEN [p.state[i] EXCEPT !.count = Marshal(@ - p.due)]
                               ELSE p.state[i]]

UserKarma(u) ==
  FoldSeq(LAMBDA s, n : n + (IF TargetOf(s.name) = "DEPLOY" THEN s.count ELSE 0),
          0, users[u].sources)

Cost(u) == users[u].owned * upkeep.cost

Affords(u) == UserKarma(u) >= Cost(u)

Payment(u) ==
  PayKarma(IF Affords(u) THEN Cost(u) ELSE upkeep.cost * (UserKarma(u) \div upkeep.cost),
           users[u].sources)

\* What deployUpkeep stores for a user: the state it read, NumOwnedContracts
\* included, with the payment and the new total.
Kept(u, p) ==
  [users[u] EXCEPT
     !.sources = Charged(p),
     !.deploy = IF Affords(u) THEN Marshal(@ - p.owed) ELSE UserKarma(u) % upkeep.cost]

\* setInactiveContractIdOrdered: the oldest contracts go first.
Inactivated(u) ==
  LET own == {c \in active : records[c].owner = u}
      number == users[u].owned - UserKarma(u) \div upkeep.cost
  IN  IF Affords(u) THEN {}
      ELSE {c \in own : Cardinality({d \in own : records[d].id < records[c].id}) < number}

ActiveUsers == {u \in Users : users[u].owned > 0}

\* Upkeep at the start of a block; payKarma indexes the sources of a user with
\* -1 when it has passed no coin source.
Upkeep ==
  \/ /\ last = 0
     /\ last' = height
     /\ UNCHANGED <<users, active, halted>>
  \/ /\ last # 0 /\ height < last + upkeep.period
     /\ UNCHANGED <<last, users, active, halted>>
  \/ /\ last # 0 /\ height >= last + upkeep.period
     /\ \E paid \in {[u \in ActiveUsers |-> Payment(u)]} :
          IF \A u \in ActiveUsers : paid[u].coin
            THEN /\ users' = [u \in Users |-> IF u \in ActiveUsers THEN Kept(u, paid[u])
                                                                   ELSE users[u]]
                 /\ active' = active \ UNION {Inactivated(u) : u \in ActiveUsers}
                 /\ last' = height
                 /\ UNCHANGED halted
            ELSE halted' = TRUE /\ UNCHANGED <<users, active, last>>

BeginBlock ==
  /\ ~halted /\ height < MaxHeight
  /\ height' = height + 1
  /\ Upkeep
  /\ UNCHANGED <<params, records, coins, granted, calls>>

Next ==
  \/ \E u \in Users :
       \/ \E n \in Amounts : DepositCoin(u, n) \/ WithdrawCoin(u, n)
       \/ \E c \in Contracts : Deploy(u, c)
       \/ \E o \in Oracles, name \in Names :
            \/ \E n \in Amounts : AddKarma(o, u, name, n)
            \/ DeleteSourcesForUser(o, u, name)
  \/ \E c \in Contracts : SetActive(c) \/ SetInactive(c)
  \/ \E o \in Oracles :
       \/ \E list \in SourceLists : ResetSources(o, list)
       \/ \E p \in UpkeepChoices : SetUpkeepParams(o, p)
       \/ \E min \in MinKarmas : SetConfig(o, min)
       \/ \E new \in Oracles : UpdateOracle(o, new)
  \/ BeginBlock

-----------------------------------------------------------------------------
\* Properties

CoinKarma == FoldFunctionOnSet(LAMBDA u, sum : sum + CountOf(u.sources, Coin), 0, users, Users)

\* WithdrawCoin can pay out: the coins of the contract cover what all users hold
\* in the coin source, but for what the oracle gave them, after any deposits,
\* withdrawals and upkeeps.
CoinKarmaBacked == coins[This] + granted >= CoinKarma

\* Upkeep passes no active contract over: the number of contracts it charges a
\* user for is at least the number the user has active, although deployUpkeep
\* writes the number back that it read before it deactivated contracts.
OwnersCharged ==
  \A u \in Users : users[u].owned >= Cardinality({c \in active : records[c].owner = u})

=============================================================================
