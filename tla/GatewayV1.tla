------------------------------ MODULE GatewayV1 ------------------------------
(***************************************************************************)
(* The first version of the Transfer Gateway                               *)
(* (src/builtin/plugins/gateway/v1/gateway.go), which blocks of that time  *)
(* are replayed with, for several tokens at once.                          *)
(*                                                                         *)
(* Unlike the later version it counts withdrawals in the account of the    *)
(* user, when the receipt is made, and finds the user of a withdrawal by   *)
(* the identity mapping.  A value is the id of an ERC721 token and an      *)
(* amount of any other; a signature is the receipt it was made for.        *)
(* Oracles send the events of the blocks after the last one the contract   *)
(* knew when they asked; batches and confirmations in flight are executed  *)
(* in any order.                                                           *)
(***************************************************************************)
EXTENDS Integers, Sequences, FiniteSets, SequencesExt, FiniteSetsExt, TLC

CONSTANTS
  Users, EthAddrs,
  Kind,             \* the kind of each token: "ETH", "ERC20" or "ERC721"
  Values,           \* token ids and amounts
  MaxEvents,        \* bound on the events of Ethereum
  MaxNonce,         \* bound on the withdrawals of a user
  MaxInflight       \* bound on the batches in flight

VARIABLES gw, identity, mapped, eth, batches, summaries

vars == <<gw, identity, mapped, eth, batches, summaries>>

Tokens == DOMAIN Kind

TheGateway == "gateway"

NoUser == "nobody"

Item(t, v) == <<t, IF Kind[t] = "ERC721" THEN v ELSE 0>>

Amount(t, v) == IF Kind[t] = "ERC721" THEN 1 ELSE v

Items == {Item(t, v) : t \in Tokens, v \in Values}

Init ==
  /\ gw = [last        |-> 0,
           withdrawers |-> <<>>,
           account     |-> [u \in Users |-> [receipt |-> <<>>, sig |-> <<>>, nonce |-> 0]],
           unclaimed   |-> [e \in EthAddrs |-> [t \in Tokens |-> <<>>]],
           depositors  |-> [t \in Tokens |-> {}],
           pending     |-> {},
           bal         |-> [i \in Items |-> [h \in Users \cup {TheGateway} |-> 0]]]
  /\ identity = [e \in EthAddrs |-> NoUser]
  /\ mapped = {}
  /\ eth = [events |-> <<>>, height |-> 0, nonce |-> [e \in EthAddrs |-> 0],
            locked |-> [i \in Items |-> 0]]
  /\ batches = {}
  /\ summaries = {}

-----------------------------------------------------------------------------
\* Deposits

Resolved(t) == Kind[t] = "ETH" \/ t \in mapped

\* What is minted before the transfer: the whole amount when it is not there.
ToMint(bal, t, v) ==
  LET row == bal[Item(t, v)] IN
  IF Kind[t] = "ERC721" THEN (IF \E h \in DOMAIN row : row[h] > 0 THEN 0 ELSE 1)
  ELSE IF row[TheGateway] < v THEN v ELSE 0

\* The ledger, and whether the deposit reached the user.  Calls into the EVM
\* may fail; what they minted before stays.
transferTokenDeposit(bal, e, t, v, outcome) ==
  LET u      == identity[e]
      i      == Item(t, v)
      n      == Amount(t, v)
      mint   == ToMint(bal, t, v)
      minted == [bal EXCEPT ![i][TheGateway] = @ + mint]
      fails  == IF Kind[t] = "ETH" THEN "ok" ELSE outcome
  IN  CASE u = NoUser \/ ~Resolved(t) -> [bal |-> bal, ok |-> FALSE]
        [] mint > 0 /\ fails = "mint" -> [bal |-> bal, ok |-> FALSE]
        [] fails = "transfer" \/ minted[i][TheGateway] < n -> [bal |-> minted, ok |-> FALSE]
        [] OTHER -> [bal |-> [minted EXCEPT ![i] = [@ EXCEPT ![TheGateway] = @ - n, ![u] = @ + n]],
                     ok  |-> TRUE]

\* Ids are listed, amounts add up.
storeUnclaimedToken(g, e, t, v) ==
  LET old == g.unclaimed[e][t] IN
  [g EXCEPT !.unclaimed[e][t] = IF Kind[t] = "ERC721" \/ old = <<>> THEN Append(@, v)
                                ELSE <<old[1] + v>>,
            !.depositors[t] = @ \cup {e}]

reclaimDepositorTokensForContract(g, e, t, outcome) ==
  LET Give(acc, v) ==
        LET r == transferTokenDeposit(acc.bal, e, t, v, outcome) IN
        [bal |-> r.bal, failed |-> IF r.ok THEN acc.failed ELSE Append(acc.failed, v)]
      all == FoldLeft(Give, [bal |-> g.bal, failed |-> <<>>], g.unclaimed[e][t])
  IN  [g EXCEPT !.bal = all.bal,
                !.unclaimed[e][t] = all.failed,
                !.depositors[t] = IF all.failed = <<>> THEN @ \ {e} ELSE @]

\* All tokens of a depositor, by the depositor or by the gateway's owner.
ReclaimDepositorTokens(e, outcome) ==
  /\ \E t \in Tokens : gw.unclaimed[e][t] # <<>>
  /\ gw' = FoldSet(LAMBDA t, g : reclaimDepositorTokensForContract(g, e, t, outcome), gw,
                   {t \in Tokens : gw.unclaimed[e][t] # <<>>})
  /\ UNCHANGED <<identity, mapped, eth, batches, summaries>>

\* All depositors of a token, by the creator of its contract or by the owner.
ReclaimContractTokens(t, outcome) ==
  /\ t \in mapped
  /\ gw.depositors[t] # {}
  /\ gw' = FoldSet(LAMBDA e, g : reclaimDepositorTokensForContract(g, e, t, outcome), gw,
                   gw.depositors[t])
  /\ UNCHANGED <<identity, mapped, eth, batches, summaries>>

-----------------------------------------------------------------------------
\* Withdrawals

addTokenWithdrawer(ws, u) == Append(ws, u)

\* What the three kinds of withdrawal share, once the token was handed over.
Withdraw(u, t, v) ==
  LET to  == {e \in EthAddrs : identity[e] = u}
      i   == Item(t, v)
      n   == Amount(t, v)
      acc == gw.account[u]
      receipt == [owner |-> CHOOSE e \in to : TRUE, token |-> t, value |-> v, nonce |-> acc.nonce]
  IN  /\ acc.receipt = <<>> /\ acc.nonce < MaxNonce
      /\ to # {}
      /\ gw.bal[i][u] >= n
      /\ u \notin Range(gw.withdrawers)
      /\ gw' = [gw EXCEPT !.bal[i] = [@ EXCEPT ![u] = @ - n, ![TheGateway] = @ + n],
                          !.account[u] = [receipt |-> <<receipt>>, sig |-> <<>>, nonce |-> @.nonce + 1],
                          !.withdrawers = addTokenWithdrawer(@, u)]
      /\ UNCHANGED <<identity, mapped, eth, batches, summaries>>

WithdrawERC721(u, t, v) == Kind[t] = "ERC721" /\ t \in mapped /\ Withdraw(u, t, v)

WithdrawERC20(u, t, v) == Kind[t] = "ERC20" /\ t \in mapped /\ Withdraw(u, t, v)

WithdrawETH(u, t, v) == Kind[t] = "ETH" /\ Withdraw(u, t, v)

\* An oracle reads what is to be signed; the call fails for all when a listed
\* user has no receipt.
PendingWithdrawals ==
  LET listed == Range(gw.withdrawers)
      new    == {<<u, gw.account[u].receipt[1]>> : u \in {w \in listed : gw.account[w].sig = <<>>}}
  IN  /\ \A u \in listed : gw.account[u].receipt # <<>>
      /\ ~(new \subseteq summaries)
      /\ summaries' = summaries \cup new
      /\ UNCHANGED <<gw, identity, mapped, eth, batches>>

\* The request names the user only, so it signs whatever receipt there is.
ConfirmWithdrawalReceipt(s) ==
  LET acc == gw.account[s[1]] IN
  /\ summaries' = summaries \ {s}
  /\ gw' = IF acc.receipt = <<>> \/ acc.sig # <<>> THEN gw
           ELSE [gw EXCEPT !.account[s[1]].sig = <<s[2]>>]
  /\ UNCHANGED <<identity, mapped, eth, batches>>

\* The last withdrawer takes the place of the one removed.
removeTokenWithdrawer(ws, u) ==
  LET i == CHOOSE j \in DOMAIN ws : ws[j] = u IN
  SubSeq([ws EXCEPT ![i] = ws[Len(ws)]], 1, Len(ws) - 1)

HasPending(g, e) == identity[e] # NoUser /\ g.account[identity[e]].receipt # <<>>

\* Mutated completeTokenWithdraw: the withdrawal is counted once more.
completeTokenWithdrawCounts(g, e) ==
  LET u == identity[e] IN
  [g EXCEPT !.account[u] = [receipt |-> <<>>, sig |-> <<>>, nonce |-> @.nonce + 1],
            !.withdrawers = IF u \in Range(@) THEN removeTokenWithdrawer(@, u) ELSE @]

\* The receipt is removed whatever it is for.
completeTokenWithdraw(g, e) ==
  LET u == identity[e] IN
  [g EXCEPT !.account[u].receipt = <<>>, !.account[u].sig = <<>>,
            !.withdrawers = IF u \in Range(@) THEN removeTokenWithdrawer(@, u) ELSE @]

-----------------------------------------------------------------------------
\* Batches of events

Deposited(g, ev, outcome) ==
  LET r == transferTokenDeposit(g.bal, ev.owner, ev.token, ev.value, outcome)
      h == [g EXCEPT !.bal = r.bal]
  IN  IF r.ok THEN h ELSE storeUnclaimedToken(h, ev.owner, ev.token, ev.value)

\* One event: the contract, and the last block that counts as processed.
ProcessEvent(acc, ev, outcome) ==
  IF ev.block <= gw.last THEN acc
  ELSE IF ev.type = "deposit" THEN [g |-> Deposited(acc.g, ev, outcome), last |-> ev.block]
  ELSE IF ~HasPending(acc.g, ev.owner) THEN acc
  ELSE [g    |-> completeTokenWithdraw(acc.g, ev.owner),
        last |-> IF identity[ev.owner] \in Range(acc.g.withdrawers) THEN ev.block ELSE acc.last]

\* The events of one type and kind of token in blocks b[1] to b[2].
Logs(type, kinds, b) ==
  SelectSeq(eth.events, LAMBDA ev : /\ ev.type = type /\ Kind[ev.token] \in kinds
                                    /\ ev.block \in b[1] .. b[2])

fetchERC721Deposits(b) == Logs("deposit", {"ERC721"}, b)

fetchERC20Deposits(b) == Logs("deposit", {"ERC20"}, b)

fetchETHDeposits(b) == Logs("deposit", {"ETH"}, b)

fetchTokenWithdrawals(b) == Logs("withdrawal", {"ETH", "ERC20", "ERC721"}, b)

\* By block, and by transaction within a block.
sortMainnetEvents(events) ==
  SortSeq(events, LAMBDA x, y : x.block < y.block \/ (x.block = y.block /\ x.tx < y.tx))

\* fetchEvents of the oracle: one query for each kind, and then a sort.
fetchEvents(b) ==
  sortMainnetEvents(fetchERC721Deposits(b) \o fetchERC20Deposits(b) \o fetchETHDeposits(b)
                    \o fetchTokenWithdrawals(b))

\* A batch with nothing new fails.
ProcessEventBatch(b, outcome) ==
  LET all == FoldLeft(LAMBDA acc, ev : ProcessEvent(acc, ev, outcome),
                      [g |-> gw, last |-> 0], fetchEvents(b))
  IN  /\ batches' = batches \ {b}
      /\ gw' = IF all.last = 0 THEN gw ELSE [all.g EXCEPT !.last = all.last]
      /\ UNCHANGED <<identity, mapped, eth, summaries>>

\* An oracle asks for the last block the contract has processed, and fetches those
\* after it.
pollMainnet ==
  /\ gw.last < eth.height
  /\ Cardinality(batches) < MaxInflight
  /\ <<gw.last + 1, eth.height>> \notin batches
  /\ batches' = batches \cup {<<gw.last + 1, eth.height>>}
  /\ UNCHANGED <<gw, identity, mapped, eth, summaries>>

-----------------------------------------------------------------------------
\* The address mapper, contract mappings and Ethereum

AddIdentityMapping(e, u) ==
  /\ identity[e] = NoUser /\ u \notin Range(identity)
  /\ identity' = [identity EXCEPT ![e] = u]
  /\ UNCHANGED <<gw, mapped, eth, batches, summaries>>

\* By the creator of the contract on the chain.
AddContractMapping(t) ==
  /\ ~Resolved(t) /\ t \notin gw.pending
  /\ gw' = [gw EXCEPT !.pending = @ \cup {t}]
  /\ UNCHANGED <<identity, mapped, eth, batches, summaries>>

\* An oracle names the creator of the contract on Ethereum, which is that of the
\* mapping or is not; the mapping is pending no more in either case.
VerifyContractCreators(t, same) ==
  /\ t \in gw.pending
  /\ gw' = [gw EXCEPT !.pending = @ \ {t}]
  /\ mapped' = IF same THEN mapped \cup {t} ELSE mapped
  /\ UNCHANGED <<identity, eth, batches, summaries>>

Emit(type, e, t, v) ==
  [type |-> type, owner |-> e, token |-> t, value |-> v,
   block |-> eth.height + 1, tx |-> Len(eth.events) + 1]

EthDeposit(e, t, v) ==
  /\ Len(eth.events) < MaxEvents
  /\ Kind[t] = "ERC721" => eth.locked[Item(t, v)] = 0
  /\ eth' = [eth EXCEPT !.events = Append(@, Emit("deposit", e, t, v)),
                        !.locked[Item(t, v)] = @ + Amount(t, v)]
  /\ UNCHANGED <<gw, identity, mapped, batches, summaries>>

\* The owner of a signed receipt withdraws what was signed.
EthWithdraw(r) ==
  /\ Len(eth.events) < MaxEvents
  /\ r.nonce = eth.nonce[r.owner]
  /\ eth.locked[Item(r.token, r.value)] >= Amount(r.token, r.value)
  /\ eth' = [eth EXCEPT !.events = Append(@, Emit("withdrawal", r.owner, r.token, r.value)),
                        !.nonce[r.owner] = @ + 1,
                        !.locked[Item(r.token, r.value)] = @ - Amount(r.token, r.value)]
  /\ UNCHANGED <<gw, identity, mapped, batches, summaries>>

EthMine ==
  /\ eth.events # <<>> /\ Last(eth.events).block > eth.height
  /\ eth' = [eth EXCEPT !.height = @ + 1]
  /\ UNCHANGED <<gw, identity, mapped, batches, summaries>>

Outcomes == {"ok", "mint", "transfer"}

Next ==
  \/ \E e \in EthAddrs, u \in Users : AddIdentityMapping(e, u)
  \/ \E t \in Tokens : AddContractMapping(t)
  \/ \E t \in Tokens, same \in BOOLEAN : VerifyContractCreators(t, same)
  \/ \E e \in EthAddrs, t \in Tokens, v \in Values : EthDeposit(e, t, v)
  \/ \E u \in Users : gw.account[u].sig # <<>> /\ EthWithdraw(gw.account[u].sig[1])
  \/ EthMine
  \/ pollMainnet
  \/ \E b \in batches, outcome \in Outcomes : ProcessEventBatch(b, outcome)
  \/ \E u \in Users, t \in Tokens, v \in Values :
       WithdrawERC721(u, t, v) \/ WithdrawERC20(u, t, v) \/ WithdrawETH(u, t, v)
  \/ PendingWithdrawals
  \/ \E s \in summaries : ConfirmWithdrawalReceipt(s)
  \/ \E e \in EthAddrs, outcome \in Outcomes : ReclaimDepositorTokens(e, outcome)
  \/ \E t \in Tokens, outcome \in Outcomes : ReclaimContractTokens(t, outcome)

-----------------------------------------------------------------------------
\* Properties

\* What item i amounts to in the values vs of token t
Worth(i, t, vs) ==
  FoldLeft(LAMBDA n, v : IF Item(t, v) = i THEN n + Amount(t, v) ELSE n, 0, vs)

\* What the gateway holds on Ethereum is what users hold on the chain, what
\* waits to be claimed, the deposits the contract has not processed, and what
\* receipts with the next nonce of their owner are good for, whichever batches
\* overlap and calls fail.
Backed ==
  \A i \in Items :
    eth.locked[i] =
      MapThenSumSet(LAMBDA u : gw.bal[i][u], Users)
      + MapThenSumSet(LAMBDA e : Worth(i, i[1], gw.unclaimed[e][i[1]]), EthAddrs)
      + FoldLeft(LAMBDA n, ev : IF ev.type = "deposit" /\ ev.block > gw.last /\ Item(ev.token, ev.value) = i
                                THEN n + Amount(ev.token, ev.value) ELSE n, 0, eth.events)
      + MapThenSumSet(LAMBDA u : LET r == gw.account[u].receipt IN
                                 IF r # <<>> /\ r[1].nonce = eth.nonce[r[1].owner]
                                 THEN Worth(i, r[1].token, <<r[1].value>>) ELSE 0, Users)

=============================================================================
