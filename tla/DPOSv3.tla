------------------------------- MODULE DPOSv3 -------------------------------
(* The third version of the staking contract and the manager that tells    *)
(* Tendermint who its validators are.                                       *)
(*                                                                          *)
(* Addresses are numbers, so that they have the order of their bytes; the   *)
(* public key of a candidate is its address.  Amounts are small: fractions  *)
(* are computed as in the code, with units of their own.  Nothing in this   *)
(* version calls slash, so every slash percentage is 0.                     *)
EXTENDS Integers, SequencesExt

CONSTANTS
  Candidates,     \* addresses that may register
  Delegators,     \* addresses that may delegate
  Genesis,        \* the store of the contract to start from
  Amounts, Tiers, Fees, Referrals,  \* what requests may ask for
  ValidatorCount, \* Params.ValidatorCount
  PowerUnit,      \* powerCorrection
  BasisPoints, Billionth, Year,     \* the units of fractions and of the year
  BlockReward, ReferrerFee,         \* in basis points
  TierBonus, TierLock,              \* TierBonusMap and TierLocktimeMap
  Cycles, Requirements, Rewards, Oracles, Names,  \* what oracles may set
  Requests,       \* the whitelist requests made on mainnet, in their order there
  MaxCalls, MaxTime \* bounds

VARIABLES
  dpos,       \* the store of the contract and the coins it deals with
  now,        \* the time of the block
  calls,      \* the number of transactions so far
  tendermint, \* the validator set of Tendermint, a function to powers
  halted,     \* EndBlock failed and the nodes stopped
  requested,  \* what each delegator asked to get back, and what was paid
  paid,
  notice      \* the elections since a candidate announced its new fee

vars == <<dpos, now, calls, tendermint, halted, requested, paid, notice>>

Limbo == 0

\* The contract's own account.
Contract == -1

NoReferrer == "none"

Holders == Candidates \cup Delegators

-----------------------------------------------------------------------------
\* Storage

\* The key of a delegation; the list of delegations is sorted by it.
Key(index, validator, delegator) == <<validator, delegator, index>>

Less(k, l) ==
  \/ k[1] < l[1]
  \/ k[1] = l[1] /\ k[2] < l[2]
  \/ k[1] = l[1] /\ k[2] = l[2] /\ k[3] < l[3]

saveDelegationList(list) == SortSeq(list, Less)

Has(s, k) == k \in DOMAIN s.delegations

GetNextDelegationIndex(s, v, d) ==
  Min({i \in 1 .. Cardinality(DOMAIN s.delegations) + 1 : ~Has(s, Key(i, v, d))})

SetDelegation(s, k, delegation) ==
  [s EXCEPT !.list = IF Has(s, k) THEN @ ELSE saveDelegationList(Append(@, k)),
            !.delegations = (k :> delegation) @@ @]

\* Mutated DeleteDelegation: the record stays.
DeleteFromList(s, k) ==
  LET same == {i \in DOMAIN s.list : s.list[i][1] = k[1] /\ s.list[i][2] = k[2]} IN
  [s EXCEPT !.list = IF same = {} THEN @ ELSE RemoveAt(@, Min(same))]

\* The list loses the first entry of this validator and delegator, whatever its
\* index; the record goes under its own key.
DeleteDelegation(s, k) ==
  LET same == {i \in DOMAIN s.list : s.list[i][1] = k[1] /\ s.list[i][2] = k[2]} IN
  [s EXCEPT !.list = IF same = {} THEN @ ELSE RemoveAt(@, Min(same)),
            !.delegations = Restrict(@, DOMAIN @ \ {k})]

\* A delegation without referrer that is not being redelegated.
Delegation(amount, update, state, tier, lock) ==
  [amount |-> amount, update |-> update, state |-> state, tier |-> tier, lock |-> lock,
   to |-> Limbo, referrer |-> NoReferrer]

IncreaseRewardDelegation(s, v, d, increase) ==
  LET k == Key(0, v, d) IN
  SetDelegation(s, k, IF Has(s, k) THEN [s.delegations[k] EXCEPT !.amount = @ + increase]
                                   ELSE Delegation(increase, 0, "BONDED", 0, 0))

GetCandidate(s, a) == a \in DOMAIN s.candidates

\* candidates.Set of a new candidate
SetCandidate(s, a, fee, maxReferral) ==
  [s EXCEPT !.candidates =
     (a :> [fee |-> fee, newFee |-> fee, state |-> "REGISTERED", maxReferral |-> maxReferral]) @@ @]

GetStatistic(s, a) == a \in DOMAIN s.statistics

SetStatistic(s, a, statistic) == [s EXCEPT !.statistics = (a :> statistic) @@ @]

\* Mutated updateCandidateList: the fee changes at the first election.
updateCandidateListAtOnce(s) ==
  LET Updated(c) == CASE c.state \in {"ABOUT_TO_CHANGE_FEE", "CHANGING_FEE"} ->
                           [c EXCEPT !.fee = c.newFee, !.state = "REGISTERED"]
                      [] OTHER -> c
      staying == {a \in DOMAIN s.candidates : s.candidates[a].state # "UNREGISTERING"}
  IN  [s EXCEPT !.candidates = [a \in staying |-> Updated(s.candidates[a])]]

updateCandidateList(s) ==
  LET Updated(c) == CASE c.state = "ABOUT_TO_CHANGE_FEE" -> [c EXCEPT !.state = "CHANGING_FEE"]
                      [] c.state = "CHANGING_FEE" ->
                           [c EXCEPT !.fee = c.newFee, !.state = "REGISTERED"]
                      [] OTHER -> c
      staying == {a \in DOMAIN s.candidates : s.candidates[a].state # "UNREGISTERING"}
  IN  [s EXCEPT !.candidates = [a \in staying |-> Updated(s.candidates[a])]]

-----------------------------------------------------------------------------
\* Fractions

CalculatePreciseFraction(frac, total) == (total * frac) \div Billionth

CalculateFraction(frac, total) ==
  CalculatePreciseFraction(frac * (Billionth \div BasisPoints), total)

calculateShare(part, total, rewards) ==
  CalculatePreciseFraction(IF total = 0 THEN 0 ELSE (part * Billionth) \div total, rewards)

\* calculateWeightedDelegationAmount and calculateWeightedWhitelistAmount
Weighted(amount, tier) == CalculateFraction(TierBonus[tier], amount)

calculateRewards(s, total) ==
  LET reward == CalculateFraction(BlockReward, total)
      yearly == CalculateFraction(BlockReward, s.totalDelegations)
      scaled == IF yearly > s.params.maxReward
                THEN (reward * s.params.maxReward) \div yearly ELSE reward
      cycle  == IF s.params.cycle = 0 THEN 2 ELSE s.params.cycle
  IN  (scaled * cycle) \div Year

-----------------------------------------------------------------------------
\* Elections

\* The delegations of the list that have a record and go to v.
DelegationsTo(s, v) == SelectSeq(s.list, LAMBDA k : Has(s, k) /\ k[1] = v)

\* The referrers of v's delegations are rewarded; share is what is left of the
\* validator's own share.
RewardReferrers(s, v, share) ==
  LET Reward(acc, k) ==
        LET d == s.delegations[k]
            n == CalculateFraction(ReferrerFee,
                   CalculateFraction(s.candidates[v].fee, calculateRewards(s, d.amount)))
        IN  IF d.referrer \notin DOMAIN s.referrers THEN acc
            ELSE [s |-> IncreaseRewardDelegation(acc.s, Limbo, s.referrers[d.referrer], n),
                  share |-> acc.share - n]
  IN  FoldLeft(Reward, [s |-> s, share |-> share], DelegationsTo(s, v))

\* The validator gets the share ref leaves it and, for its whitelist amount, a
\* part of what its delegators share.
RewardOwner(ref, v, stat, total) ==
  LET own == IncreaseRewardDelegation(ref.s, v, v, ref.share) IN
  IF stat.whitelist = 0 THEN own
  ELSE IncreaseRewardDelegation(own, v, v,
         calculateShare(Weighted(stat.whitelist, stat.tier), stat.total, total - ref.share))

\* The store, and what is left for the delegators of v
RewardedBy(ref, acc, v, stat, total) ==
  [s       |-> [RewardOwner(ref, v, stat, total) EXCEPT !.distributed = @ + total],
   rewards |-> (v :> total - ref.share) @@ acc.rewards,
   former  |-> (v :> stat.total) @@ acc.former]

\* What rewardAndSlash does for one validator; rewards is what its delegators
\* will share.
RewardValidator(acc, v) ==
  LET total == calculateRewards(acc.s, acc.s.statistics[v].total)
      fee   == CalculateFraction(acc.s.candidates[v].fee, total)
  IN  IF ~GetCandidate(acc.s, v) THEN acc
      ELSE IF ~GetStatistic(acc.s, v)
           THEN [acc EXCEPT !.rewards = (v :> 0) @@ @, !.former = (v :> 0) @@ @]
      ELSE RewardedBy(RewardReferrers(acc.s, v, fee), acc, v, acc.s.statistics[v], total)

\* One turn of the loop of distributeDelegatorRewards: the delegator's share,
\* then what the state of the delegation asks for, then the new totals.
Settle(acc, k, rewards, former, time) ==
  LET s    == acc.s
      d    == s.delegations[k]
      v    == k[1]
      paid0 == IF v # Limbo /\ v \in DOMAIN rewards
               THEN IncreaseRewardDelegation(s, v, k[2],
                      calculateShare(Weighted(d.amount, d.tier), former[v], rewards[v]))
               ELSE s
      amount == CASE d.state = "BONDING" -> d.amount + d.update
                  [] d.state = "UNBONDING" -> d.amount - d.update
                  [] OTHER -> d.amount
      out   == IF d.state = "UNBONDING" THEN d.update ELSE 0
      given == [paid0 EXCEPT !.coins[Contract] = @ - out, !.coins[k[2]] = @ + out]
      moved == IF d.state = "REDELEGATING" THEN DeleteDelegation(given, k) ELSE given
      to    == IF d.state = "REDELEGATING" THEN Key(k[3], d.to, k[2]) ELSE k
      tier  == IF d.lock < time THEN 0 ELSE d.tier
      next  == IF d.state = "UNBONDING" /\ amount = 0 THEN DeleteDelegation(moved, k)
               ELSE SetDelegation(moved, to,
                      [d EXCEPT !.amount = amount, !.update = 0, !.state = "BONDED", !.tier = tier])
      add   == Weighted(amount, tier)
  IN  IF ~acc.ok \/ ~Has(s, k) THEN acc
      ELSE IF s.coins[Contract] < out THEN [acc EXCEPT !.ok = FALSE]
      ELSE [ok     |-> TRUE,
            s      |-> next,
            totals |-> IF to[1] = Limbo THEN acc.totals
                       ELSE (to[1] :> add + (IF to[1] \in DOMAIN acc.totals THEN acc.totals[to[1]] ELSE 0))
                              @@ acc.totals]

\* The totals start with the whitelist amounts of the candidates.
WhitelistTotals(s) ==
  LET listed == {a \in DOMAIN s.candidates : GetStatistic(s, a) /\ s.statistics[a].whitelist # 0}
  IN  [a \in listed |-> Weighted(s.statistics[a].whitelist, s.statistics[a].tier)]

distributeDelegatorRewards(r, time) ==
  FoldLeft(LAMBDA acc, k : Settle(acc, k, r.rewards, r.former, time),
           [ok |-> TRUE, s |-> r.s, totals |-> WhitelistTotals(r.s)], r.s.list)

rewardAndSlash(s) ==
  FoldLeft(LAMBDA acc, v : RewardValidator(acc, v.key),
           [s |-> s, rewards |-> <<>>, former |-> <<>>], s.validators)

\* delegationResults, sorted by byDelegationTotal, up to the number of validators
Results(totals) ==
  LET Before(a, b) == totals[a] > totals[b] \/ (totals[a] = totals[b] /\ a > b)
      sorted == SortSeq(SetToSeq(DOMAIN totals), Before)
  IN  SubSeq(sorted, 1, Min({ValidatorCount, Len(sorted)}))

PowerSum(vals) == FoldLeft(LAMBDA sum, v : sum + v.power, 0, vals)

\* Mutated applyPowerCap: everybody may be boosted above the cap.
applyPowerCapUnbounded(vals) ==
  LET cap   == (28 * PowerSum(vals)) \div 100
      over  == SelectSeq(vals, LAMBDA v : v.power > cap)
      boost == (PowerSum(over) - cap * Len(over)) \div (Len(vals) - Len(over))
  IN  IF Len(vals) < 4 \/ over = <<>> THEN vals
      ELSE [i \in DOMAIN vals |->
             [vals[i] EXCEPT !.power = IF @ >= cap THEN cap ELSE @ + boost]]

applyPowerCap(vals) ==
  LET cap   == (28 * PowerSum(vals)) \div 100
      over  == SelectSeq(vals, LAMBDA v : v.power > cap)
      boost == (PowerSum(over) - cap * Len(over)) \div (Len(vals) - Len(over))
  IN  IF Len(vals) < 4 \/ over = <<>> THEN vals
      ELSE [i \in DOMAIN vals |->
             [vals[i] EXCEPT !.power = IF @ >= cap THEN cap ELSE Min({cap, @ + boost})]]

sortValidators(vals) == SortSeq(vals, LAMBDA v, w : v.key < w.key)

Due(s, time) == s.params.cycle <= time - s.lastElection

\* The candidates elected, and the total of each in their statistics
Elected(r) ==
  SelectSeq(Results(r.totals), LAMBDA a : GetCandidate(r.s, a) /\ r.totals[a] > 0)

Counted(r, elected) ==
  LET Stat(t, a) == SetStatistic(t, a,
                      IF GetStatistic(t, a) THEN [t.statistics[a] EXCEPT !.total = r.totals[a]]
                      ELSE [whitelist |-> 0, tier |-> 0, total |-> r.totals[a]])
  IN  FoldLeft(Stat, r.s, elected)

\* The state, with what was distributed, is saved only with a new set.
SaveElection(s, r, elected, time) ==
  LET vals  == [i \in DOMAIN elected |->
                 [key |-> elected[i], power |-> r.totals[elected[i]] \div PowerUnit]]
      total == FoldLeft(LAMBDA sum, a : sum + r.totals[a], 0, elected)
  IN  IF total > 0
      THEN [Counted(r, elected) EXCEPT !.validators = sortValidators(applyPowerCap(vals)),
                                       !.lastElection = time, !.totalDelegations = total]
      ELSE [Counted(r, elected) EXCEPT !.distributed = s.distributed]

\* Elect, when it is due: the new store, or a failure
ElectFrom(s, r, time) ==
  [ok |-> r.ok, s |-> updateCandidateList(SaveElection(s, r, Elected(r), time))]

Elect(s, time) == ElectFrom(s, distributeDelegatorRewards(rewardAndSlash(s), time), time)

-----------------------------------------------------------------------------
\* Transactions, each of which fails, without effect, unless its guard holds

Call(s) ==
  /\ ~halted /\ calls < MaxCalls
  /\ dpos' = s /\ calls' = calls + 1
  /\ UNCHANGED <<now, tendermint, halted, paid>>

\* A referrer must be known, and the candidate must allow its fee.
ReferrerAllowed(c, name) ==
  \/ name = NoReferrer
  \/ /\ name \in DOMAIN dpos.referrers
     /\ dpos.candidates[c].maxReferral >= ReferrerFee

Delegate(d, v, amount, tier, name) ==
  /\ GetCandidate(dpos, v) /\ ReferrerAllowed(v, name)
  /\ dpos.coins[d] >= amount
  /\ LET given == [dpos EXCEPT !.coins[d] = @ - amount, !.coins[Contract] = @ + amount]
     IN  Call(SetDelegation(given, Key(GetNextDelegationIndex(dpos, v, d), v, d),
                [Delegation(0, amount, "BONDING", tier, now + TierLock[tier])
                   EXCEPT !.referrer = name]))
  /\ UNCHANGED <<requested, notice>>

\* The lock time of the prior delegation is kept: the one computed for a higher
\* tier is a variable of the inner block.
Redelegate(d, from, index, to, amount, newTier, name) ==
  LET k     == Key(index, from, d)
      prior == dpos.delegations[k]
      tier  == Max({newTier, prior.tier})
      full  == [prior EXCEPT !.to = to, !.state = "REDELEGATING", !.tier = tier, !.referrer = name]
      part  == SetDelegation(dpos, Key(GetNextDelegationIndex(dpos, to, d), to, d),
                 [Delegation(0, amount, "BONDING", tier, prior.lock) EXCEPT !.referrer = name])
  IN  /\ from # to /\ Has(dpos, k)
      /\ to # Limbo => GetCandidate(dpos, to) /\ ReferrerAllowed(to, name)
      /\ \/ /\ amount \in {0, prior.amount}    \* no amount asks for all of it
            /\ Call(SetDelegation(dpos, k, full)) /\ UNCHANGED requested
         \/ /\ amount > 0 /\ amount < prior.amount
            /\ Call(SetDelegation(part, k, [prior EXCEPT !.state = "UNBONDING", !.update = amount]))
            /\ requested' = [requested EXCEPT ![d] = @ + amount]
      /\ UNCHANGED notice

\* The delegations that are bonded and unlocked become one; left counts the others.
consolidateDelegations(s, v, d) ==
  LET matching == SelectSeq(DelegationsTo(s, v), LAMBDA k : k[2] = d)
      Free(k)  == s.delegations[k].lock <= now /\ s.delegations[k].state = "BONDED"
      free     == SelectSeq(matching, Free)
      total    == FoldLeft(LAMBDA sum, k : sum + s.delegations[k].amount, 0, free)
      deleted  == FoldLeft(DeleteDelegation, s, free)
  IN  [left |-> Len(matching) - Len(free),
       s    |-> SetDelegation(deleted, Key(GetNextDelegationIndex(deleted, v, d), v, d),
                              Delegation(total, 0, "BONDED", 0, 0))]

ConsolidateDelegations(d, v) ==
  /\ v = Limbo \/ GetCandidate(dpos, v)
  /\ Call(consolidateDelegations(dpos, v, d).s)
  /\ UNCHANGED <<requested, notice>>

Unbond(d, v, index, amount) ==
  LET k       == Key(index, v, d)
      prior   == dpos.delegations[k]
      update  == IF amount = 0 THEN prior.amount ELSE amount
      instant == dpos.params.cycle = 0 /\ prior.tier = 0
  IN  /\ Has(dpos, k)
      /\ prior.amount >= amount
      /\ prior.lock <= now \/ instant
      /\ prior.state = "BONDED"
      /\ Call(SetDelegation(dpos, k, [prior EXCEPT !.state = "UNBONDING", !.update = update]))
      /\ requested' = [requested EXCEPT ![d] = @ + update]
      /\ UNCHANGED notice

\* Without a whitelist amount a candidate deposits the requirement.
RegisterCandidate(c, fee, maxReferral, tier) ==
  LET requirement == dpos.params.requirement
      free == requirement = 0 \/ (GetStatistic(dpos, c) /\ dpos.statistics[c].whitelist # 0)
      given == [dpos EXCEPT !.coins[c] = @ - requirement, !.coins[Contract] = @ + requirement]
      deposited == SetDelegation(given, Key(1, c, c),
                     Delegation(0, requirement, "BONDING", tier, now + TierLock[tier]))
  IN  /\ ~GetCandidate(dpos, c)
      /\ free \/ dpos.coins[c] >= requirement
      /\ Call(SetCandidate(IF free THEN dpos ELSE deposited, c, fee, maxReferral))
      /\ UNCHANGED <<requested, notice>>

ChangeFee(c, fee) ==
  /\ GetCandidate(dpos, c) /\ dpos.candidates[c].state = "REGISTERED"
  /\ Call([dpos EXCEPT !.candidates[c].newFee = fee, !.candidates[c].state = "ABOUT_TO_CHANGE_FEE"])
  /\ notice' = [notice EXCEPT ![c] = 0]
  /\ UNCHANGED requested

UpdateCandidateInfo(c, maxReferral) ==
  /\ GetCandidate(dpos, c)
  /\ Call([dpos EXCEPT !.candidates[c].maxReferral = maxReferral])
  /\ UNCHANGED <<requested, notice>>

\* slashValidatorDelegations, which is called last, changes nothing when the
\* slash percentage is 0.
UnregisterCandidate(c) ==
  LET own == Key(1, c, c) IN
  /\ GetCandidate(dpos, c) /\ dpos.candidates[c].state = "REGISTERED"
  /\ GetStatistic(dpos, c)
  /\ \E merged \in {consolidateDelegations(dpos, c, c)} :
     \E s \in {[merged.s EXCEPT !.candidates[c].state = "UNREGISTERING"]} :
       /\ merged.left = 0
       /\ IF Has(s, own) /\ s.delegations[own].amount # 0
          THEN /\ s.delegations[own].lock <= now /\ s.delegations[own].state = "BONDED"
               /\ Call(SetDelegation(s, own, [s.delegations[own] EXCEPT
                                                !.state = "UNBONDING", !.update = s.delegations[own].amount]))
               /\ requested' = [requested EXCEPT ![c] = @ + s.delegations[own].amount]
          ELSE Call(s) /\ UNCHANGED requested
  /\ UNCHANGED notice

-----------------------------------------------------------------------------
\* The oracle's transactions

OracleCall(o, s) ==
  /\ o = dpos.params.oracle
  /\ Call(s)
  /\ UNCHANGED <<requested, notice>>

addCandidateToStatisticList(s, a, amount, tier) ==
  SetStatistic(s, a, [whitelist |-> amount, tier |-> tier, total |-> 0])

WhitelistCandidate(o, a, amount, tier) ==
  /\ ~GetStatistic(dpos, a)
  /\ OracleCall(o, addCandidateToStatisticList(dpos, a, amount, tier))

RemoveWhitelistedCandidate(o, a) ==
  /\ GetStatistic(dpos, a)
  /\ OracleCall(o, [dpos EXCEPT !.statistics[a].whitelist = 0])

ChangeWhitelistInfo(o, a, amount, tier) ==
  /\ GetStatistic(dpos, a)
  /\ OracleCall(o, [dpos EXCEPT !.statistics[a].whitelist = amount, !.statistics[a].tier = tier])

RegisterReferrer(o, name, a) ==
  OracleCall(o, [dpos EXCEPT !.referrers = (name :> a) @@ @])

\* The oracle sends the requests i to j of mainnet; what the tally has seen is
\* skipped, and one request that cannot be applied fails the whole batch.
ProcessRequestBatch(o, i, j) ==
  LET Process(acc, n) ==
        LET r == Requests[n] IN
        IF n <= acc.s.tally \/ ~acc.ok THEN acc
        ELSE [ok |-> ~GetStatistic(acc.s, r.candidate),
              s  |-> [addCandidateToStatisticList(acc.s, r.candidate, r.amount, r.tier)
                        EXCEPT !.tally = n]]
      done == FoldLeft(Process, [ok |-> TRUE, s |-> dpos], [n \in 1 .. j - i + 1 |-> i + n - 1])
  IN  /\ j > dpos.tally
      /\ done.ok
      /\ OracleCall(o, done.s)

SetElectionCycle(o, n) == OracleCall(o, [dpos EXCEPT !.params.cycle = n])

SetMaxYearlyReward(o, n) == OracleCall(o, [dpos EXCEPT !.params.maxReward = n])

SetRegistrationRequirement(o, n) == OracleCall(o, [dpos EXCEPT !.params.requirement = n])

\* The number of validators asked for is not stored.
SetValidatorCount(o) == OracleCall(o, dpos)

SetOracleAddress(o, a) == OracleCall(o, [dpos EXCEPT !.params.oracle = a])

-----------------------------------------------------------------------------
\* The manager

MissingValidators(former, current) ==
  LET Walk[j \in 1 .. Len(former) + 1, i \in 1 .. Len(current) + 1] ==
        IF j > Len(former) THEN <<>>
        ELSE IF i > Len(current) THEN SubSeq(former, j, Len(former))
        ELSE IF former[j].key < current[i].key THEN <<former[j]>> \o Walk[j + 1, i]
        ELSE IF former[j].key = current[i].key THEN Walk[j + 1, i + 1]
        ELSE Walk[j, i + 1]
  IN  Walk[1, 1]

\* Mutated ValidatorUpdates: validators that left are not mentioned.
UpdatesOfCurrent(former, current) == current

\* The updates EndBlock returns: those that left, with power 0, and everybody else
ValidatorUpdates(former, current) ==
  LET left == MissingValidators(former, current) IN
  [i \in DOMAIN left |-> [left[i] EXCEPT !.power = 0]] \o current

\* What Tendermint does with the updates: a validator of power 0 is not one.
Applied(set, updates) ==
  LET Apply(acc, u) == IF u.power = 0 THEN Restrict(acc, DOMAIN acc \ {u.key})
                       ELSE (u.key :> u.power) @@ acc
  IN  FoldLeft(Apply, set, updates)

\* EndBlock, and the time of the next block.  A failing election is a panic.
EndBlock ==
  /\ ~halted /\ now < MaxTime
  /\ now' = now + 1
  /\ \E r \in {IF Due(dpos, now) THEN Elect(dpos, now) ELSE [ok |-> TRUE, s |-> dpos]} :
       \/ /\ r.ok
          /\ dpos' = r.s
          /\ tendermint' = Applied(tendermint, ValidatorUpdates(dpos.validators, r.s.validators))
          /\ paid' = [a \in Holders |-> paid[a] + r.s.coins[a] - dpos.coins[a]]
          /\ notice' = [c \in Candidates |-> IF Due(dpos, now) THEN notice[c] + 1 ELSE notice[c]]
          /\ UNCHANGED halted
       \/ /\ ~r.ok
          /\ halted' = TRUE /\ UNCHANGED <<dpos, tendermint, paid, notice>>
  /\ UNCHANGED <<calls, requested>>

Init ==
  /\ dpos = Genesis
  /\ now = 1
  /\ calls = 0
  /\ tendermint = [v \in {x.key : x \in Range(Genesis.validators)} |->
                    (CHOOSE x \in Range(Genesis.validators) : x.key = v).power]
  /\ halted = FALSE
  /\ requested = [a \in Holders |-> 0]
  /\ paid = [a \in Holders |-> 0]
  /\ notice = [c \in Candidates |-> 0]

OracleNext ==
  \E o \in Oracles :
    \/ \E a \in Candidates, n \in Amounts, tier \in Tiers :
         WhitelistCandidate(o, a, n, tier) \/ ChangeWhitelistInfo(o, a, n, tier)
    \/ \E a \in Candidates : RemoveWhitelistedCandidate(o, a)
    \/ \E name \in Names, a \in Delegators : RegisterReferrer(o, name, a)
    \/ \E i, j \in DOMAIN Requests : i <= j /\ ProcessRequestBatch(o, i, j)
    \/ \E n \in Cycles : SetElectionCycle(o, n)
    \/ \E n \in Rewards : SetMaxYearlyReward(o, n)
    \/ \E n \in Requirements : SetRegistrationRequirement(o, n) \/ SetValidatorCount(o)
    \/ \E a \in Oracles : SetOracleAddress(o, a)

Next ==
  \/ \E k \in DOMAIN dpos.delegations, amount \in Amounts \cup {0} :
       \/ Unbond(k[2], k[1], k[3], amount)
       \/ \E to \in Candidates \cup {Limbo}, tier \in Tiers, name \in Names \cup {NoReferrer} :
            Redelegate(k[2], k[1], k[3], to, amount, tier, name)
  \/ \E d \in Delegators, v \in Candidates, amount \in Amounts, tier \in Tiers,
        name \in Names \cup {NoReferrer} : Delegate(d, v, amount, tier, name)
  \/ \E d \in Delegators, v \in Candidates \cup {Limbo} : ConsolidateDelegations(d, v)
  \/ \E c \in Candidates :
       \/ UnregisterCandidate(c)
       \/ \E fee \in Fees : ChangeFee(c, fee)
       \/ \E most \in Referrals : UpdateCandidateInfo(c, most)
       \/ \E fee \in Fees, most \in Referrals, tier \in Tiers : RegisterCandidate(c, fee, most, tier)
  \/ OracleNext
  \/ EndBlock

Spec == Init /\ [][Next]_vars

-----------------------------------------------------------------------------
\* Properties

\* The validators of Tendermint are those of the contract that have power, and
\* there is always one: the zero-power updates and the full list of EndBlock
\* keep the two together through every election.
TendermintInSync ==
  /\ DOMAIN tendermint # {}
  /\ tendermint = LET has == SelectSeq(dpos.validators, LAMBDA v : v.power > 0)
                  IN  [a \in {v.key : v \in Range(has)} |->
                         (CHOOSE v \in Range(has) : v.key = a).power]

\* What a delegator asked to get back is paid at most once, though the list of
\* delegations may name one several times: what was paid and what still waits
\* in UNBONDING delegations is within what was asked for.
PaidAsRequested ==
  \A a \in Holders :
    LET waiting == {k \in DOMAIN dpos.delegations : k[2] = a /\ dpos.delegations[k].state = "UNBONDING"}
    IN  paid[a] + FoldSet(LAMBDA k, sum : sum + dpos.delegations[k].update, 0, waiting) <= requested[a]

\* Delegators see a fee coming: the fee of a candidate changes at the second
\* election after ChangeFee and at no other time.
FeeAnnounced ==
  \A c \in DOMAIN dpos.candidates \cap DOMAIN dpos'.candidates :
    dpos'.candidates[c].fee # dpos.candidates[c].fee => notice'[c] = 2

\* An election settles every delegation: none is left BONDING, UNBONDING or
\* REDELEGATING by distributeDelegatorRewards.
ElectionSettles ==
  (now' > now /\ ~halted' /\ Due(dpos, now)) =>
    \A k \in DOMAIN dpos'.delegations : dpos'.delegations[k].state = "BONDED"

\* With four validators or more none has a power above 28% of what the election
\* counted, and a validator with more behind it never has less power: the boost
\* applyPowerCap spreads keeps both.
PowerCapped ==
  LET Total(v) == dpos.statistics[v.key].total \div PowerUnit
      sum == FoldLeft(LAMBDA n, v : n + Total(v), 0, dpos.validators)
  IN  Len(dpos.validators) >= 4 =>
        /\ \A v \in Range(dpos.validators) : v.power <= (28 * sum) \div 100
        /\ \A v, w \in Range(dpos.validators) : Total(v) <= Total(w) => v.power <= w.power

=============================================================================
