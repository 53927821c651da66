------------------------------- MODULE DPOSv2 -------------------------------
(* The second version of the staking contract, its manager, its mainnet     *)
(* oracle and the migration to the third version.                           *)
(*                                                                          *)
(* Addresses are numbers with the order of their bytes, and the key of a    *)
(* candidate is its address.  A delegator has one delegation per validator, *)
(* in a sorted list.  Nothing calls slash, so every slash percentage is 0   *)
(* and the distribution total of a validator is 0 between elections.        *)
EXTENDS Integers, SequencesExt

CONSTANTS
  Candidates, Delegators,           \* addresses
  Plasma, Doubled,                  \* plasmaValidators, and the doubled delegation
  Genesis,                          \* the store of the contract to start from
  Amounts, Tiers, Fees,             \* what requests may ask for
  ValidatorCount, PowerUnit,        \* Params.ValidatorCount, powerCorrection
  BasisPoints, Billionth, Year, BlockReward,
  TierBonus, TierLock,              \* TierBonusMap and TierLocktimeMap
  Cycles, Requirements, Rewards, Oracles,  \* what oracles may set
  TimeLocks,                        \* the token time locks of mainnet, by position
  MaxCalls, MaxTime                 \* bounds

VARIABLES
  dpos,       \* the store of the contract and the coins it deals with
  now,        \* the time of the block
  calls,      \* the number of transactions so far
  tendermint, \* the validator set of Tendermint, a function to powers
  halted,     \* EndBlock failed and the nodes stopped
  requested,  \* what each account asked to get back, and what was paid
  paid,
  notice,     \* the elections since a candidate set its fee
  latest,     \* the last mainnet block
  v3          \* the delegations of the migrated contract, <<>> before

vars == <<dpos, now, calls, tendermint, halted, requested, paid, notice, latest, v3>>

Limbo == 0

Contract == -1

Holders == Candidates \cup Delegators

-----------------------------------------------------------------------------
\* Storage

saveDelegationList(list) ==
  SortSeq(list, LAMBDA x, y : \/ x.validator < y.validator
                              \/ x.validator = y.validator /\ x.delegator < y.delegator)

\* The position of the first delegation of d to v, or 0
Get(list, v, d) ==
  LET found == {i \in DOMAIN list : list[i].validator = v /\ list[i].delegator = d}
  IN  IF found = {} THEN 0 ELSE Min(found)

\* Set keeps the tier of a delegation that exists.
Set(list, x) ==
  LET i == Get(list, x.validator, x.delegator) IN
  IF i = 0 THEN Append(list, x)
  ELSE [list EXCEPT ![i].amount = x.amount, ![i].update = x.update,
                    ![i].lock = x.lock, ![i].state = x.state]

Set2(list, x) ==
  LET i == Get(list, x.validator, x.delegator) IN
  IF i = 0 THEN Append(list, x) ELSE [Set(list, x) EXCEPT ![i].tier = x.tier]

Delegation(v, d, amount, update, tier, lock) ==
  [validator |-> v, delegator |-> d, amount |-> amount, update |-> update,
   tier |-> tier, lock |-> lock, state |-> "BONDING", to |-> Limbo]

GetCandidate(s, a) == a \in DOMAIN s.candidates

GetStatistic(s, a) == a \in DOMAIN s.statistics

IncreaseDistribution(dist, a, n) == (a :> n + (IF a \in DOMAIN dist THEN dist[a] ELSE 0)) @@ dist

-----------------------------------------------------------------------------
\* Fractions; granular says that DPOSVersion2_1 is enabled

CalculatePreciseFraction(frac, total, granular) ==
  (total * frac) \div (IF granular THEN Billionth ELSE BasisPoints)

CalculateFraction(frac, total, granular) ==
  CalculatePreciseFraction(IF granular THEN frac * (Billionth \div BasisPoints) ELSE frac,
                           total, granular)

calculateShare(part, total, rewards, granular) ==
  LET denom == IF granular THEN Billionth ELSE BasisPoints IN
  CalculatePreciseFraction(IF total = 0 THEN 0 ELSE (part * denom) \div total, rewards, granular)

calculateTierLocktime(s, tier) ==
  IF ~s.v21 /\ tier = 0 /\ s.params.cycle < TierLock[tier] THEN s.params.cycle ELSE TierLock[tier]

calculateWeightedDelegationAmount(x, granular) ==
  CalculateFraction(TierBonus[x.tier], x.amount, granular)

\* Any lock time that is no tier counts as tier 0; before 2.1 there is no bonus.
calculateWeightedWhitelistAmount(s, stat) ==
  IF s.v21 THEN CalculateFraction(TierBonus[IF stat.tier \in Tiers THEN stat.tier ELSE 0],
                                  stat.whitelist, TRUE)
           ELSE stat.whitelist

rewardValidator(s, stat) ==
  LET reward == CalculateFraction(BlockReward, stat.total, s.v21)
      yearly == CalculateFraction(BlockReward, s.totalDelegations, s.v21)
      scaled == IF yearly > s.params.maxReward
                THEN (reward * s.params.maxReward) \div yearly ELSE reward
  IN  (scaled * (IF s.params.cycle = 0 THEN 2 ELSE s.params.cycle)) \div Year

-----------------------------------------------------------------------------
\* Elections

\* One validator: its fee, the reward of its whitelist amount, and what is left
\* for its delegators
RewardOne(acc, v) ==
  LET s     == acc.s
      stat  == s.statistics[v]
      total == rewardValidator(s, stat)
      fee   == CalculateFraction(s.candidates[v].fee, total, s.v21)
      white == calculateShare(calculateWeightedWhitelistAmount(s, stat), stat.total, total - fee, s.v21)
      own   == IncreaseDistribution(s.distributions, v, fee)
  IN  IF ~GetCandidate(s, v) THEN acc
      ELSE IF ~GetStatistic(s, v) THEN [acc EXCEPT !.rewards = (v :> 0) @@ @, !.former = (v :> 0) @@ @]
      ELSE [s       |-> [s EXCEPT !.distributed = @ + total,
                                  !.distributions = IF stat.whitelist = 0 THEN own
                                                    ELSE IncreaseDistribution(own, v, white)],
            rewards |-> (v :> total - fee) @@ acc.rewards,
            former  |-> (v :> stat.total) @@ acc.former]

rewardAndSlash(s) ==
  FoldLeft(LAMBDA acc, v : RewardOne(acc, v.key),
           [s |-> s, rewards |-> <<>>, former |-> <<>>], s.validators)

\* One turn of the loop over the delegations
Distribute(acc, x, rewards, former, granular) ==
  LET share == IF x.validator # Limbo /\ x.validator \in DOMAIN rewards
               THEN IncreaseDistribution(acc.dist, x.delegator,
                      calculateShare(calculateWeightedDelegationAmount(x, granular),
                                     former[x.validator], rewards[x.validator], granular))
               ELSE acc.dist
      out   == IF x.state = "UNBONDING" THEN x.update ELSE 0
      y     == [x EXCEPT !.amount = CASE x.state = "BONDING" -> @ + x.update
                                      [] x.state = "UNBONDING" -> @ - x.update
                                      [] OTHER -> @,
                         !.validator = IF x.state = "REDELEGATING" THEN x.to ELSE @,
                         !.update = 0, !.state = "BONDED"]
      add   == calculateWeightedDelegationAmount(y, granular)
  IN  IF ~acc.ok THEN acc
      ELSE IF acc.coins[Contract] < out THEN [acc EXCEPT !.ok = FALSE]
      ELSE [ok     |-> TRUE,
            dist   |-> share,
            coins  |-> [acc.coins EXCEPT ![Contract] = @ - out, ![x.delegator] = @ + out],
            list   |-> Append(acc.list, y),
            totals |-> IF y.validator = Limbo THEN acc.totals
                       ELSE (y.validator :> add + (IF y.validator \in DOMAIN acc.totals
                                                   THEN acc.totals[y.validator] ELSE 0)) @@ acc.totals]

distributeDelegatorRewards(s, rewards, former) ==
  LET listed == {a \in DOMAIN s.statistics : s.statistics[a].whitelist # 0}
      totals == [a \in listed |-> calculateWeightedWhitelistAmount(s, s.statistics[a])]
  IN  FoldLeft(LAMBDA acc, x : Distribute(acc, x, rewards, former, s.v21),
               [ok |-> TRUE, dist |-> s.distributions, coins |-> s.coins, list |-> <<>>,
                totals |-> totals], s.delegations)

\* byDelegationTotal, up to the number of validators
Results(totals) ==
  LET Before(a, b) == totals[a] > totals[b] \/ (totals[a] = totals[b] /\ a > b)
      sorted == SortSeq(SetToSeq(DOMAIN totals), Before)
  IN  SubSeq(sorted, 1, Min({ValidatorCount, Len(sorted)}))

\* Mutated UpdateFees: the delay is one election.
UpdateFeesEarly(s) ==
  [s EXCEPT !.candidates = [a \in DOMAIN @ |->
     IF @[a].fee = @[a].newFee THEN @[a]
     ELSE [@[a] EXCEPT !.counter = @ + 1, !.fee = s.candidates[a].newFee]]]

\* A new fee holds from the second election after it was set.
UpdateFees(s) ==
  [s EXCEPT !.candidates = [a \in DOMAIN @ |->
     IF @[a].fee = @[a].newFee THEN @[a]
     ELSE [@[a] EXCEPT !.counter = @ + 1,
                       !.fee = IF s.candidates[a].counter + 1 = 2 THEN s.candidates[a].newFee ELSE @]]]

Due(s) == s.params.cycle <= now - s.lastElection /\ DOMAIN s.candidates # {}

\* The totals of the elected candidates go to their statistics and the state.
SaveElection(s, d, elected) ==
  LET stats == [a \in Range(elected) |->
                  IF GetStatistic(s, a) THEN [s.statistics[a] EXCEPT !.total = d.totals[a]]
                  ELSE [whitelist |-> 0, tier |-> 0, total |-> d.totals[a]]]
      vals  == [i \in DOMAIN elected |->
                  [key |-> elected[i], power |-> d.totals[elected[i]] \div PowerUnit]]
  IN  [s EXCEPT !.delegations = saveDelegationList(d.list),
                !.distributions = d.dist,
                !.coins = d.coins,
                !.statistics = stats @@ @,
                !.validators = SortSeq(vals, LAMBDA x, y : x.key < y.key),
                !.lastElection = now,
                !.totalDelegations = FoldLeft(LAMBDA sum, a : sum + d.totals[a], 0, elected)]

ElectFrom(s, d) ==
  [ok |-> d.ok,
   s  |-> SaveElection(s, d, SelectSeq(Results(d.totals), LAMBDA a : GetCandidate(s, a)))]

ElectRewarded(r) == ElectFrom(r.s, distributeDelegatorRewards(r.s, r.rewards, r.former))

\* Elect, when it is due; ok is FALSE when a payment failed.
Elect(s) ==
  IF s.delegations = <<>> /\ DOMAIN s.statistics = {} THEN [ok |-> TRUE, s |-> UpdateFees(s)]
  ELSE ElectRewarded(rewardAndSlash(UpdateFees(s)))

-----------------------------------------------------------------------------
\* Transactions; all of them fail once the contract has been migrated

Migrated == dpos.migrated

Call(s) ==
  /\ ~halted /\ ~Migrated /\ calls < MaxCalls
  /\ dpos' = s /\ calls' = calls + 1
  /\ UNCHANGED <<now, tendermint, halted, latest, v3>>

Pay(s, d, amount) == [s EXCEPT !.coins[d] = @ - amount, !.coins[Contract] = @ + amount]

\* What Delegate and Delegate2 share: a delegation to v that is not bonded must
\* wait, and the later lock of the two tiers holds.
DelegateWith(d, v, amount, tier, second) ==
  LET i      == Get(dpos.delegations, v, d)
      prior  == dpos.delegations[i]
      higher == IF i = 0 THEN tier ELSE Max({tier, prior.tier})
      x      == Delegation(v, d, IF i = 0 THEN 0 ELSE prior.amount, amount,
                           IF second THEN higher ELSE tier, now + calculateTierLocktime(dpos, higher))
      list   == IF second THEN Set2(dpos.delegations, x) ELSE Set(dpos.delegations, x)
  IN  /\ GetCandidate(dpos, v)
      /\ dpos.coins[d] >= amount
      /\ i # 0 => prior.state = "BONDED"
      /\ Call([Pay(dpos, d, amount) EXCEPT !.delegations = saveDelegationList(list)])
      /\ UNCHANGED <<requested, paid, notice>>

Delegate(d, v, amount, tier) == DelegateWith(d, v, amount, tier, FALSE)

\* The second keeps the higher tier for good.
Delegate2(d, v, amount, tier) == DelegateWith(d, v, amount, tier, TRUE)

\* An amount of 0 asks for all of it.  Part of a delegation is unbonded from the
\* former validator and set for the new one.
Redelegate(d, from, to, amount) ==
  LET i     == Get(dpos.delegations, from, d)
      prior == dpos.delegations[i]
      full  == [dpos.delegations EXCEPT ![i].to = to, ![i].state = "REDELEGATING"]
      left  == [dpos.delegations EXCEPT ![i].state = "UNBONDING", ![i].update = amount]
      part  == Set(left, Delegation(to, d, 0, amount, prior.tier, prior.lock))
  IN  /\ from # to /\ i # 0
      /\ to # Limbo => GetCandidate(dpos, to)
      /\ \/ /\ amount \in {0, prior.amount}
            /\ Call([dpos EXCEPT !.delegations = saveDelegationList(full)])
            /\ UNCHANGED requested
         \/ /\ amount > 0 /\ amount < prior.amount
            /\ Call([dpos EXCEPT !.delegations = saveDelegationList(part)])
            /\ requested' = [requested EXCEPT ![d] = @ + amount]
      /\ UNCHANGED <<paid, notice>>

\* Mutated Unbond: a delegation that is already being unbonded may be unbonded.
UnbondAgain(d, v, amount) ==
  LET i == Get(dpos.delegations, v, d)
      prior == dpos.delegations[i]
  IN  /\ i # 0
      /\ prior.lock <= now
      /\ Call([dpos EXCEPT !.delegations = Append(@,
                 [prior EXCEPT !.state = "UNBONDING", !.update = amount, !.amount = amount])])
      /\ UNCHANGED <<requested, paid, notice>>

Unbond(d, v, amount) ==
  LET i == Get(dpos.delegations, v, d)
      prior == dpos.delegations[i]
  IN  /\ i # 0
      /\ prior.amount >= amount /\ prior.lock <= now /\ prior.state = "BONDED"
      /\ Call([dpos EXCEPT !.delegations =
                 saveDelegationList([@ EXCEPT ![i].state = "UNBONDING", ![i].update = amount])])
      /\ requested' = [requested EXCEPT ![d] = @ + amount]
      /\ UNCHANGED <<paid, notice>>

\* Without a whitelist amount the candidate locks the registration requirement.
Register(c, fee, newFee, tier) ==
  LET requirement == dpos.params.requirement
      free == requirement = 0 \/ (GetStatistic(dpos, c) /\ dpos.statistics[c].whitelist # 0)
      x    == Delegation(c, c, 0, requirement, tier, now + calculateTierLocktime(dpos, tier))
      s    == IF free THEN dpos
              ELSE [Pay(dpos, c, requirement) EXCEPT !.delegations = saveDelegationList(Set(@, x))]
      cand == [fee |-> fee, newFee |-> newFee, counter |-> 0]
  IN  /\ ~GetCandidate(dpos, c)
      /\ free \/ dpos.coins[c] >= requirement
      /\ Call([s EXCEPT !.candidates = (c :> cand) @@ @])
      /\ notice' = [notice EXCEPT ![c] = 0]
      /\ UNCHANGED <<requested, paid>>

\* The first leaves the new fee at 0.
RegisterCandidate(c, fee, tier) == Register(c, fee, 0, tier)

RegisterCandidate2(c, fee, tier) == Register(c, fee, fee, tier)

ChangeFee(c, fee) ==
  /\ GetCandidate(dpos, c)
  /\ Call([dpos EXCEPT !.candidates[c].newFee = fee, !.candidates[c].counter = 0])
  /\ notice' = [notice EXCEPT ![c] = 0]
  /\ UNCHANGED <<requested, paid>>

\* Without a statistic slashValidatorDelegations panics and the call fails.
UnregisterCandidate(c) ==
  LET i    == Get(dpos.delegations, c, c)
      own  == dpos.delegations[i]
      list == IF i = 0 THEN dpos.delegations
              ELSE [dpos.delegations EXCEPT ![i].state = "UNBONDING", ![i].update = own.amount]
  IN  /\ GetCandidate(dpos, c) /\ GetStatistic(dpos, c)
      /\ i # 0 => own.lock <= now /\ own.state = "BONDED"
      /\ Call([dpos EXCEPT !.delegations = saveDelegationList(list),
                           !.candidates = Restrict(@, DOMAIN @ \ {c})])
      /\ requested' = [requested EXCEPT ![c] = @ + (IF i = 0 THEN 0 ELSE own.amount)]
      /\ UNCHANGED <<paid, notice>>

ClaimDistribution(a) ==
  /\ a \in DOMAIN dpos.distributions
  /\ LET n == dpos.distributions[a] IN
     /\ dpos.coins[Contract] >= n
     /\ Call([dpos EXCEPT !.coins[Contract] = @ - n, !.coins[a] = @ + n, !.distributions[a] = 0])
     /\ requested' = [requested EXCEPT ![a] = @ + n]
     /\ paid' = [paid EXCEPT ![a] = @ + n]
  /\ UNCHANGED notice

-----------------------------------------------------------------------------
\* The oracle

OracleCall(o, s) ==
  /\ o = dpos.params.oracle
  /\ Call(s)
  /\ UNCHANGED <<requested, paid, notice>>

addCandidateToStatisticList(s, a, amount, tier) ==
  [s EXCEPT !.statistics = (a :> [whitelist |-> amount, tier |-> tier, total |-> 0]) @@ @]

WhitelistCandidate(o, a, amount, tier) ==
  /\ ~GetStatistic(dpos, a)
  /\ OracleCall(o, addCandidateToStatisticList(dpos, a, amount, tier))

RemoveWhitelistedCandidate(o, a) ==
  /\ GetStatistic(dpos, a)
  /\ OracleCall(o, [dpos EXCEPT !.statistics[a].whitelist = 0, !.statistics[a].tier = 0])

ChangeWhitelistAmount(o, a, amount) ==
  /\ GetStatistic(dpos, a)
  /\ OracleCall(o, [dpos EXCEPT !.statistics[a].whitelist = amount])

ChangeWhitelistLockTimeTier(o, a, tier) ==
  /\ GetStatistic(dpos, a)
  /\ OracleCall(o, [dpos EXCEPT !.statistics[a].tier = tier])

SetElectionCycle(o, n) == OracleCall(o, [dpos EXCEPT !.params.cycle = n])

SetMaxYearlyReward(o, n) == OracleCall(o, [dpos EXCEPT !.params.maxReward = n])

SetRegistrationRequirement(o, n) == OracleCall(o, [dpos EXCEPT !.params.requirement = n])

\* The number of validators asked for is not stored.
SetValidatorCount(o) == OracleCall(o, dpos)

SetOracleAddress(o, a) == OracleCall(o, [dpos EXCEPT !.params.oracle = a])

\* Mutated isRequestAlreadySeen: the block alone is compared.
BlockAlreadySeen(m, tally) == m.block <= tally.block

\* A position on mainnet is a block, and a log in it.
isRequestAlreadySeen(m, tally) ==
  IF m.block # tally.block THEN m.block <= tally.block ELSE m.log <= tally.log

\* FetchRequestBatch: the time locks after the last block of the tally
FetchRequestBatch(tally) ==
  SelectSeq(TimeLocks, LAMBDA e : e.block > tally.block /\ e.block <= latest)

\* The amount an event whitelists has the bonus of its duration; its lock time
\* is the release time, which is no tier.
RequestOf(e) ==
  [candidate |-> e.candidate,
   amount    |-> CalculateFraction(IF e.tier \in Tiers THEN TierBonus[e.tier] ELSE 0, e.amount, TRUE),
   tier      |-> e.release]

\* ProcessRequestBatch: a batch whose last request was seen is refused, and a
\* request that cannot be applied fails the batch as a whole.
ProcessRequestBatch(o, batch) ==
  LET Process(acc, e) ==
        LET r == RequestOf(e) IN
        IF ~acc.ok \/ isRequestAlreadySeen(e, acc.s.tally) THEN acc
        ELSE [ok |-> ~GetStatistic(acc.s, r.candidate),
              s  |-> [addCandidateToStatisticList(acc.s, r.candidate, r.amount, r.tier)
                        EXCEPT !.tally = [block |-> e.block, log |-> e.log]]]
      done == FoldLeft(Process, [ok |-> TRUE, s |-> dpos], batch)
  IN  /\ batch # <<>>
      /\ ~isRequestAlreadySeen(Last(batch), dpos.tally)
      /\ done.ok
      /\ OracleCall(o, done.s)

\* The oracle's process: the tally is read, events are fetched, the batch is sent.
process(o) == ProcessRequestBatch(o, FetchRequestBatch(dpos.tally))

-----------------------------------------------------------------------------
\* Migration

adjustValidatorIfInPlasmaValidators(v) == IF v \in Range(Plasma) THEN Plasma[1] ELSE v

adjustDoubledDelegationAmount(x) ==
  IF <<x.validator, x.delegator>> = Doubled THEN x.amount \div 2 ELSE x.amount

\* Dump: the key and amount of each delegation of the third version.  The index
\* counts the delegations before it with the same validator and delegator.
Dump(s) ==
  LET list == s.delegations
      Index(i) == 1 + Cardinality({j \in 1 .. i - 1 : /\ list[j].validator = list[i].validator
                                                      /\ list[j].delegator = list[i].delegator})
      rewards == SetToSeq({<<<<Limbo, a, 0>>, s.distributions[a]>> : a \in DOMAIN s.distributions})
  IN  rewards \o [i \in DOMAIN list |->
        <<<<adjustValidatorIfInPlasmaValidators(list[i].validator), list[i].delegator, Index(i)>>,
          adjustDoubledDelegationAmount(list[i])>>]

\* Initialize stores them by key.
Initialize(dump) == FoldLeft(LAMBDA acc, x : (x[1] :> x[2]) @@ acc, <<>>, dump)

\* The migration runs once, for the oracle, and disables this contract.
DPOSv3Migration(o) ==
  /\ o = dpos.params.oracle
  /\ ~halted /\ ~Migrated
  /\ v3' = Initialize(Dump(dpos))
  /\ dpos' = [dpos EXCEPT !.migrated = TRUE]
  /\ UNCHANGED <<now, calls, tendermint, halted, requested, paid, notice, latest>>

-----------------------------------------------------------------------------
\* The manager, and the world outside

MissingValidators(former, current) ==
  SelectSeq(former, LAMBDA v : v.key \notin {w.key : w \in Range(current)})

\* Mutated ValidatorUpdates: validators that left are not mentioned.
UpdatesOfCurrent(former, current) == current

ValidatorUpdates(former, current) ==
  LET left == MissingValidators(former, current) IN
  [i \in DOMAIN left |-> [left[i] EXCEPT !.power = 0]] \o current

\* What Tendermint does with the updates: a validator of power 0 is not one.
Applied(set, updates) ==
  LET Apply(acc, u) == IF u.power = 0 THEN Restrict(acc, DOMAIN acc \ {u.key})
                       ELSE (u.key :> u.power) @@ acc
  IN  FoldLeft(Apply, set, updates)

\* EndBlock, and the time of the next block.  A failing election is a panic, and
\* Tendermint stops when it is left without validators.
EndBlock ==
  /\ ~halted /\ ~Migrated /\ now < MaxTime
  /\ now' = now + 1
  /\ \E r \in {IF Due(dpos) THEN Elect(dpos) ELSE [ok |-> TRUE, s |-> dpos]} :
       \/ /\ r.ok
          /\ dpos' = r.s
          /\ tendermint' = Applied(tendermint, ValidatorUpdates(dpos.validators, r.s.validators))
          /\ halted' = (tendermint' = <<>>)
          /\ paid' = [a \in Holders |-> paid[a] + r.s.coins[a] - dpos.coins[a]]
          /\ notice' = [c \in Candidates |-> IF Due(dpos) THEN notice[c] + 1 ELSE notice[c]]
       \/ /\ ~r.ok
          /\ halted' = TRUE /\ UNCHANGED <<dpos, tendermint, paid, notice>>
  /\ UNCHANGED <<calls, requested, latest, v3>>

\* The feature DPOSVersion2_1 is enabled.
EnableV21 ==
  /\ ~halted /\ ~dpos.v21
  /\ dpos' = [dpos EXCEPT !.v21 = TRUE]
  /\ UNCHANGED <<now, calls, tendermint, halted, requested, paid, notice, latest, v3>>

MineMainnet ==
  /\ latest < Max({0} \cup {e.block : e \in Range(TimeLocks)})
  /\ latest' = latest + 1
  /\ UNCHANGED <<dpos, now, calls, tendermint, halted, requested, paid, notice, v3>>

Init ==
  /\ dpos = Genesis
  /\ now = 1
  /\ calls = 0
  /\ tendermint = [v \in {x.key : x \in Range(Genesis.validators)} |->
                    (CHOOSE x \in Range(Genesis.validators) : x.key = v).power]
  /\ halted = FALSE
  /\ requested = [a \in Holders |-> 0]
  /\ paid = [a \in Holders |-> 0]
  /\ notice = [c \in Candidates |-> 0]
  /\ latest = 0
  /\ v3 = <<>>

OracleNext ==
  \E o \in Oracles :
    \/ \E a \in Candidates, n \in Amounts, tier \in Tiers : WhitelistCandidate(o, a, n, tier)
    \/ \E a \in Candidates, n \in Amounts : ChangeWhitelistAmount(o, a, n)
    \/ \E a \in Candidates, tier \in Tiers : ChangeWhitelistLockTimeTier(o, a, tier)
    \/ \E a \in Candidates : RemoveWhitelistedCandidate(o, a)
    \/ \E n \in Cycles : SetElectionCycle(o, n)
    \/ \E n \in Rewards : SetMaxYearlyReward(o, n)
    \/ \E n \in Requirements : SetRegistrationRequirement(o, n) \/ SetValidatorCount(o)
    \/ \E a \in Oracles : SetOracleAddress(o, a)
    \/ process(o)
    \/ DPOSv3Migration(o)

Next ==
  \/ \E d \in Delegators, v \in Candidates, n \in Amounts, tier \in Tiers :
       Delegate(d, v, n, tier) \/ Delegate2(d, v, n, tier)
  \/ \E x \in Range(dpos.delegations), n \in Amounts \cup {0} :
       \/ Unbond(x.delegator, x.validator, n)
       \/ \E to \in Candidates \cup {Limbo} : Redelegate(x.delegator, x.validator, to, n)
  \/ \E c \in Candidates :
       \/ UnregisterCandidate(c)
       \/ \E fee \in Fees : ChangeFee(c, fee)
       \/ \E fee \in Fees, tier \in Tiers :
            RegisterCandidate(c, fee, tier) \/ RegisterCandidate2(c, fee, tier)
  \/ \E a \in Holders : ClaimDistribution(a)
  \/ OracleNext
  \/ EnableV21
  \/ MineMainnet
  \/ EndBlock

-----------------------------------------------------------------------------
\* Properties

\* The validators of Tendermint are those of the contract that have power.
TendermintInSync ==
  LET has == {v \in Range(dpos.validators) : v.power > 0} IN
  tendermint = [a \in {v.key : v \in has} |-> (CHOOSE v \in has : v.key = a).power]

\* What an account was paid and what still waits in UNBONDING delegations is
\* within what it asked for, though a delegation to the same validator may be in
\* the list twice after a redelegation.
PaidAsRequested ==
  \A a \in Holders :
    paid[a] + FoldLeft(LAMBDA sum, x : IF x.delegator = a /\ x.state = "UNBONDING"
                                       THEN sum + x.update ELSE sum, 0, dpos.delegations)
      <= requested[a]

\* The fee of a candidate changes only at the second election after it was set.
FeeAnnounced ==
  \A c \in DOMAIN dpos.candidates \cap DOMAIN dpos'.candidates :
    dpos'.candidates[c].fee # dpos.candidates[c].fee => notice'[c] = 2

\* Whatever the order of blocks, batches and the oracle's own whitelisting, every
\* time lock in a block the oracle will not fetch again has whitelisted its
\* candidate.
RequestsApplied ==
  \A e \in Range(TimeLocks) : e.block <= dpos.tally.block => GetStatistic(dpos, e.candidate)

\* The migration keeps what every delegator has bonded and earned.
MigrationKeepsStake ==
  v3 # <<>> =>
    \A a \in Holders :
      FoldSet(LAMBDA k, sum : sum + v3[k], 0, {k \in DOMAIN v3 : k[2] = a})
        = FoldLeft(LAMBDA sum, x : IF x.delegator = a THEN sum + adjustDoubledDelegationAmount(x)
                                   ELSE sum, 0, dpos.delegations)
          + (IF a \in DOMAIN dpos.distributions THEN dpos.distributions[a] ELSE 0)

=============================================================================
