---------------------------- MODULE GatewayBridge ----------------------------
(***************************************************************************)
(* The bridge the Transfer Gateway contract, the gateway oracles           *)
(* (src/gateway/oracle.go), the address mapper                             *)
(* (src/builtin/plugins/address_mapper) and the gateway contract on        *)
(* Ethereum make together.                                                 *)
(*                                                                         *)
(* An oracle alternates between pollMainnet and pollDAppChain.  A          *)
(* transaction it sends is in flight until a block executes it; the oracle *)
(* waits for the result, or gives up on it while it is still in flight.    *)
(* All transactions of an oracle in flight carry the next nonce, so one    *)
(* that succeeds invalidates the others.                                   *)
(***************************************************************************)
EXTENDS TransferGateway

CONSTANTS
  Oracles,
  Blacklist,        \* withdrawerBlacklist of every oracle
  Confirmations,    \* numMainnetBlockConfirmations
  Amounts,          \* amounts deposited and withdrawn
  SharedTx,         \* may one Ethereum transaction make several deposits?
  ResetAllowed,     \* is the contract the UnsafeGateway?
  MaxEvents,        \* bound on the events of Ethereum
  MaxNonce,         \* bound on the withdrawals to an address
  MaxFaults,        \* bound on RPC errors, timeouts and restarts
  NoExec

ASSUME AmountsAssumption == Amounts \subseteq Nat

VARIABLES
  gw,         \* the contract's committed state
  exec,       \* the batch transaction being executed, on a copy of gw
  identity,   \* AddressMapper: the user an Ethereum address is mapped to
  mapped,     \* is the token's contract mapping confirmed?
  eth,        \* Ethereum: events, last mined block, the gateway's nonces and funds
  orc,        \* the oracles
  txs,        \* the transactions each oracle has in flight
  applied,    \* history: how often each event was applied
  faults      \* number of RPC errors, timeouts and restarts so far

vars == <<gw, exec, identity, mapped, eth, orc, txs, applied, faults>>

chainVars == <<gw, exec, applied>>

Events ==
  [type : {"deposit", "withdrawal"}, block : Nat, tx : Nat, owner : EthAddrs,
   id : TokenIDs, amount : Nat]

Summaries == [owner : Users, hash : Hashes]

InitOracle == [pc |-> "mainnet", start |-> 0, latest |-> 0, queue |-> <<>>, pool |-> {}]

Init ==
  /\ gw = InitGateway
  /\ exec = NoExec
  /\ identity = [e \in EthAddrs |-> NoUser]
  /\ mapped = FALSE
  /\ eth = [events |-> <<>>, height |-> 1,
            nonce |-> [e \in EthAddrs |-> 0], locked |-> [id \in TokenIDs |-> 0]]
  /\ orc = [o \in Oracles |-> InitOracle]
  /\ txs = [o \in Oracles |-> {}]
  /\ applied = [i \in 1 .. MaxEvents |-> 0]
  /\ faults = 0

\* A transaction executes on its own.
Idle == exec = NoExec

-----------------------------------------------------------------------------
\* Ethereum (external): events become visible when their block is mined.

LastTx == IF eth.events = <<>> THEN 0 ELSE eth.events[Len(eth.events)].tx

OpenBlock == {i \in DOMAIN eth.events : eth.events[i].block > eth.height}

NewEvent(type, tx, e, id, n) ==
  [type |-> type, block |-> eth.height + 1, tx |-> tx, owner |-> e, id |-> id, amount |-> n]

\* An ERC721 token can be deposited by whoever holds it.
EthDeposit(e, id, n, tx) ==
  /\ Idle /\ Len(eth.events) < MaxEvents
  /\ Kind = "ERC721" => n = 1 /\ eth.locked[id] = 0
  /\ tx = LastTx => SharedTx /\ OpenBlock # {}
  /\ eth' = [eth EXCEPT !.events = Append(@, NewEvent("deposit", tx, e, id, n)),
                        !.locked[id] = @ + n]
  /\ UNCHANGED <<chainVars, identity, mapped, orc, txs, faults>>

\* The owner e withdraws what sig was signed for.
EthWithdraw(e, sig) ==
  /\ Idle /\ Len(eth.events) < MaxEvents
  /\ sig.to = e /\ sig.nonce = eth.nonce[e]
  /\ eth.locked[sig.id] >= sig.amount
  /\ eth' = [eth EXCEPT !.events = Append(@, NewEvent("withdrawal", LastTx + 1, e,
                                                      sig.id, sig.amount)),
                        !.nonce[e] = @ + 1,
                        !.locked[sig.id] = @ - sig.amount]
  /\ UNCHANGED <<chainVars, identity, mapped, orc, txs, faults>>

\* A block with the open events, or one that confirms earlier ones.
EthMine ==
  /\ Idle
  /\ \E i \in DOMAIN eth.events : eth.events[i].block + Confirmations > eth.height
  /\ eth' = [eth EXCEPT !.height = @ + 1]
  /\ UNCHANGED <<chainVars, identity, mapped, orc, txs, faults>>

-----------------------------------------------------------------------------
\* Transactions of users and of the gateway's owner

\* AddIdentityMapping: neither address may be mapped already.
AddIdentityMapping(u, e) ==
  /\ Idle
  /\ identity[e] = NoUser
  /\ \A f \in EthAddrs : identity[f] # u
  /\ identity' = [identity EXCEPT ![e] = u]
  /\ UNCHANGED <<chainVars, mapped, eth, orc, txs, faults>>

\* AddAuthorizedContractMapping, or a mapping confirmed by the oracles.
AddContractMapping ==
  /\ Idle /\ HasContract /\ ~mapped
  /\ mapped' = TRUE
  /\ UNCHANGED <<chainVars, identity, eth, orc, txs, faults>>

\* A recipient may be named, so it need not be the user's own address.
Withdraw(u, e, id, n) ==
  /\ Idle
  /\ gw.foreign[e].nonce < MaxNonce
  /\ CanWithdraw(gw, u, e, mapped, id, n)
  /\ gw' = Withdrawn(gw, u, e, id, n)
  /\ UNCHANGED <<exec, identity, mapped, eth, orc, txs, applied, faults>>

WithdrawToken(u, e, id, n) == HasContract /\ Withdraw(u, e, id, n)

WithdrawETH(u, e, id, n) == Kind = "ETH" /\ Withdraw(u, e, id, n)

WithdrawDiademCoin(u, e, id, n) == Kind = "DiademCoin" /\ Withdraw(u, e, id, n)

\* ReclaimDepositorTokens, by the depositor or by the gateway's owner.
ReclaimDepositorTokens(e, outcome) ==
  /\ Idle
  /\ e \in gw.depositors
  /\ gw' = WithClaims(gw, Reclaimed(Claims(gw), e, identity[e], mapped, outcome))
  /\ UNCHANGED <<exec, identity, mapped, eth, orc, txs, applied, faults>>

\* ReclaimContractTokens goes through all depositors.
ReclaimContractTokens(outcome) ==
  /\ Idle /\ HasContract /\ mapped
  /\ LET Step(e, c) == Reclaimed(c, e, identity[e], mapped, outcome[e])
     IN gw' = WithClaims(gw, FoldSet(Step, Claims(gw), gw.depositors))
  /\ UNCHANGED <<exec, identity, mapped, eth, orc, txs, applied, faults>>

\* UnsafeGateway.ResetMainnetBlock
ResetMainnetBlock(n) ==
  /\ Idle /\ ResetAllowed /\ faults < MaxFaults
  /\ gw' = [gw EXCEPT !.last = n]
  /\ faults' = faults + 1
  /\ UNCHANGED <<exec, identity, mapped, eth, orc, txs, applied>>

-----------------------------------------------------------------------------
\* The oracles

Send(o, req) == txs' = [txs EXCEPT ![o] = @ \cup {[req |-> req, awaited |-> TRUE]}]

\* The indices of the events fetchEvents returns; they come sorted by block.
FetchEvents(first, latest) ==
  {i \in DOMAIN eth.events : eth.events[i].block \in first .. latest}

StartBlock(o) == IF orc[o].start > gw.last + 1 THEN orc[o].start ELSE gw.last + 1

\* pollMainnet up to the call of ProcessEventBatch.  What it reads of the two
\* chains is as old as the batch is once it executes, so it reads them at once.
pollMainnet(o) ==
  LET latest == eth.height - Confirmations
      found  == FetchEvents(StartBlock(o), latest)
      moveOn == [orc EXCEPT ![o].pc = "dappchain"]
  IN /\ Idle /\ orc[o].pc = "mainnet"
     /\ \/ /\ latest <= 0 \/ latest < StartBlock(o)
           /\ orc' = moveOn
           /\ UNCHANGED txs
        \/ /\ latest > 0 /\ latest >= StartBlock(o) /\ found = {}
           /\ orc' = [moveOn EXCEPT ![o].start = latest + 1]
           /\ UNCHANGED txs
        \/ /\ latest > 0 /\ latest >= StartBlock(o) /\ found # {}
           /\ Send(o, [type |-> "batch", events |-> found])
           /\ orc' = [orc EXCEPT ![o].pc = "batch", ![o].latest = latest]
     /\ UNCHANGED <<chainVars, identity, mapped, eth, faults>>

\* signPendingWithdrawals up to the first signature: hashes already in the
\* pool are dropped, the others put there.
signPendingWithdrawals(o) ==
  LET all   == PendingWithdrawals(gw)
      fresh == SelectSeq(all, LAMBDA s : s.hash \notin orc[o].pool)
      queue == SelectSeq(fresh, LAMBDA s : s.owner \notin Blacklist)
      pool  == orc[o].pool \cup {all[i].hash : i \in DOMAIN all}
  IN /\ Idle /\ orc[o].pc = "dappchain"
     /\ orc' = IF PendingWithdrawalsFails(gw)
                 THEN [orc EXCEPT ![o].pc = "mainnet"]
                 ELSE [orc EXCEPT ![o].pc = IF queue = <<>> THEN "mainnet" ELSE "sign",
                                  ![o].queue = queue, ![o].pool = pool]
     /\ UNCHANGED <<chainVars, identity, mapped, eth, txs, faults>>

\* The next summary is signed and sent.
SendConfirmation(o) ==
  /\ Idle /\ orc[o].pc = "sign"
  /\ Send(o, [type |-> "confirm", owner |-> Head(orc[o].queue).owner,
              sig |-> Head(orc[o].queue).hash])
  /\ orc' = [orc EXCEPT ![o].pc = "confirm", ![o].queue = Tail(@)]
  /\ UNCHANGED <<chainVars, identity, mapped, eth, faults>>

\* Mutated AfterResult: the start block moves on whatever the result is.
AfterResultMovesOn(r, result) ==
  CASE r.pc = "batch" -> [r EXCEPT !.pc = "dappchain", !.start = r.latest + 1]
    [] r.pc = "confirm" /\ result \in {"ok", "signed"} /\ r.queue # <<>> ->
         [r EXCEPT !.pc = "sign"]
    [] OTHER -> [r EXCEPT !.pc = "mainnet", !.queue = <<>>]

\* What the oracle makes of the result of the transaction it waits for:
\* an error other than "already signed" ends signPendingWithdrawals.
AfterResult(r, result) ==
  CASE r.pc = "batch" ->
         [r EXCEPT !.pc = "dappchain",
                   !.start = IF result = "ok" THEN r.latest + 1 ELSE @]
    [] r.pc = "confirm" /\ result \in {"ok", "signed"} /\ r.queue # <<>> ->
         [r EXCEPT !.pc = "sign"]
    [] OTHER -> [r EXCEPT !.pc = "mainnet", !.queue = <<>>]

\* The oracle's next RPC call fails, or the signing of a hash does.
RpcError(o) ==
  /\ Idle /\ faults < MaxFaults
  /\ orc[o].pc \in {"mainnet", "dappchain", "sign"}
  /\ orc' = [orc EXCEPT ![o].pc = IF @ = "mainnet" THEN "dappchain" ELSE "mainnet",
                        ![o].queue = <<>>]
  /\ faults' = faults + 1
  /\ UNCHANGED <<chainVars, identity, mapped, eth, txs>>

GivenUp(S) == {[req |-> t.req, awaited |-> FALSE] : t \in S}

\* The call times out and the transaction stays in flight.
Timeout(o) ==
  /\ Idle /\ faults < MaxFaults
  /\ orc[o].pc \in {"batch", "confirm"}
  /\ orc' = [orc EXCEPT ![o] = AfterResult(@, "timeout")]
  /\ txs' = [txs EXCEPT ![o] = GivenUp(@)]
  /\ faults' = faults + 1
  /\ UNCHANGED <<chainVars, identity, mapped, eth>>

\* The process of the oracle restarts.
Restart(o) ==
  /\ Idle /\ faults < MaxFaults
  /\ orc' = [orc EXCEPT ![o] = InitOracle]
  /\ txs' = [txs EXCEPT ![o] = GivenUp(@)]
  /\ faults' = faults + 1
  /\ UNCHANGED <<chainVars, identity, mapped, eth>>

\* Mutated CleanPool: the pool is never emptied.
CleanPoolKeeps(o) ==
  /\ Idle /\ orc[o].pool # {}
  /\ UNCHANGED vars

\* The cleanup routine of recentHashPool.
CleanPool(o) ==
  /\ Idle /\ orc[o].pool # {}
  /\ orc' = [orc EXCEPT ![o].pool = {}]
  /\ UNCHANGED <<chainVars, identity, mapped, eth, txs, faults>>

-----------------------------------------------------------------------------
\* Execution of the oracles' transactions

\* Mutated Done: the nonces of transactions are not compared.
DoneWithoutNonce(o, t, result) ==
  /\ txs' = [txs EXCEPT ![o] = @ \ {t}]
  /\ orc' = IF t.awaited THEN [orc EXCEPT ![o] = AfterResult(@, result)] ELSE orc

\* One transaction of o is done: a success uses up the nonce of the others.
Done(o, t, result) ==
  LET left   == IF result = "ok" THEN {} ELSE txs[o] \ {t}
      failed == \E s \in txs[o] \ left : s # t /\ s.awaited
  IN /\ txs' = [txs EXCEPT ![o] = left]
     /\ orc' = CASE t.awaited -> [orc EXCEPT ![o] = AfterResult(@, result)]
                 [] failed    -> [orc EXCEPT ![o] = AfterResult(@, "nonce")]
                 [] OTHER     -> orc

\* ConfirmWithdrawalReceipt
Confirm(o, t) ==
  LET result == ConfirmOutcome(gw, t.req.owner) IN
  /\ Idle /\ t \in txs[o] /\ t.req.type = "confirm"
  /\ gw' = IF result = "ok" THEN Confirmed(gw, t.req.owner, t.req.sig) ELSE gw
  /\ Done(o, t, result)
  /\ UNCHANGED <<exec, identity, mapped, eth, applied, faults>>

\* ProcessEventBatch loads the state ...
BeginBatch(o, t) ==
  /\ Idle /\ t \in txs[o] /\ t.req.type = "batch"
  /\ exec' = [oracle |-> o, tx |-> t, left |-> t.req.events, g |-> gw,
              lastEthBlock |-> 0, applied |-> applied]
  /\ UNCHANGED <<gw, identity, mapped, eth, orc, txs, applied, faults>>

\* Mutated BlockProcessed: off by one.
BlockProcessedBefore(ev) == ev.block < exec.g.last

\* Blocks that have already been processed are skipped.
BlockProcessed(ev) == ev.block <= exec.g.last

\* ... goes through the events ...  They are sorted, so the check of their
\* order never fails.
BatchEvent(outcome) ==
  /\ ~Idle
  /\ \E i \in exec.left :
       LET ev == eth.events[i]
           applies == ~BlockProcessed(ev) /\ Applies(exec.g, ev)
       IN /\ \A j \in exec.left : i <= j
          /\ exec' =
               [oracle |-> exec.oracle, tx |-> exec.tx, left |-> exec.left \ {i},
                g |-> IF applies THEN Applied(exec.g, ev, identity[ev.owner], mapped, outcome)
                      ELSE exec.g,
                lastEthBlock |-> IF applies /\ Counts(exec.g, ev) THEN ev.block
                                 ELSE exec.lastEthBlock,
                applied |-> IF applies THEN [exec.applied EXCEPT ![i] = @ + 1]
                            ELSE exec.applied]
  /\ UNCHANGED <<gw, identity, mapped, eth, orc, txs, applied, faults>>

\* ... and commits, unless there was nothing new in it.
EndBatch ==
  /\ ~Idle /\ exec.left = {}
  /\ IF exec.lastEthBlock = 0
       THEN UNCHANGED <<gw, applied>>
       ELSE gw' = [exec.g EXCEPT !.last = exec.lastEthBlock] /\ applied' = exec.applied
  /\ Done(exec.oracle, exec.tx, IF exec.lastEthBlock = 0 THEN "error" ELSE "ok")
  /\ exec' = NoExec
  /\ UNCHANGED <<identity, mapped, eth, faults>>

-----------------------------------------------------------------------------

Next ==
  \/ \E e \in EthAddrs, id \in TokenIDs, n \in Amounts, tx \in {LastTx, LastTx + 1} :
       EthDeposit(e, id, n, tx)
  \/ \E e \in EthAddrs, u \in Users : gw.sig[u] # NoSig /\ EthWithdraw(e, gw.sig[u])
  \/ EthMine
  \/ \E u \in Users, e \in EthAddrs :
       \/ AddIdentityMapping(u, e)
       \/ \E id \in TokenIDs, n \in Amounts :
            \/ WithdrawToken(u, e, id, n)
            \/ WithdrawETH(u, e, id, n)
            \/ WithdrawDiademCoin(u, e, id, n)
  \/ AddContractMapping
  \/ \E e \in EthAddrs, outcome \in Outcomes : ReclaimDepositorTokens(e, outcome)
  \/ \E outcome \in [gw.depositors -> Outcomes] : ReclaimContractTokens(outcome)
  \/ \E n \in 0 .. MaxEvents : ResetMainnetBlock(n)
  \/ \E o \in Oracles :
       \/ pollMainnet(o)
       \/ signPendingWithdrawals(o)
       \/ SendConfirmation(o)
       \/ RpcError(o)
       \/ Timeout(o)
       \/ Restart(o)
       \/ CleanPool(o)
       \/ \E t \in txs[o] : Confirm(o, t) \/ BeginBatch(o, t)
  \/ \E outcome \in Outcomes : BatchEvent(outcome)
  \/ EndBatch

Spec == Init /\ [][Next]_vars

\* Ethereum goes on, oracles keep polling, and what they send is executed.
Fairness ==
  /\ WF_vars(EthMine)
  /\ \A o \in Oracles :
       /\ WF_vars(pollMainnet(o))
       /\ WF_vars(signPendingWithdrawals(o))
       /\ WF_vars(SendConfirmation(o))
       /\ WF_vars(CleanPool(o))
       /\ WF_vars(\E t \in txs[o] : Confirm(o, t) \/ BeginBatch(o, t))
  /\ WF_vars(\E outcome \in Outcomes : BatchEvent(outcome))
  /\ WF_vars(EndBatch)

-----------------------------------------------------------------------------
\* Properties

OracleStates ==
  [pc : {"mainnet", "batch", "dappchain", "sign", "confirm"}, start : Nat, latest : Nat,
   queue : Seq(Summaries), pool : SUBSET Hashes]

\* Type correctness of the whole bridge.
TypeOK ==
  /\ gw \in GatewayStates
  /\ exec # NoExec => exec.g \in GatewayStates /\ exec.left \subseteq DOMAIN eth.events
  /\ identity \in [EthAddrs -> Users \cup {NoUser}]
  /\ mapped \in BOOLEAN
  /\ eth.events \in Seq(Events) /\ eth.height \in Nat
  /\ eth.nonce \in [EthAddrs -> Nat] /\ eth.locked \in [TokenIDs -> Nat]
  /\ orc \in [Oracles -> OracleStates]
  /\ applied \in [1 .. MaxEvents -> Nat]
  /\ faults \in 0 .. MaxFaults

\* The records of the withdrawals agree: the list of withdrawers names, once
\* each, the users with a receipt; a receipt and the foreign account it goes to
\* point at each other and have the same nonce.
Linked(g) ==
  /\ \A i, j \in DOMAIN g.withdrawers : g.withdrawers[i] = g.withdrawers[j] => i = j
  /\ \A u \in Users : (g.receipt[u] # NoReceipt) <=> u \in Range(g.withdrawers)
  /\ \A u \in Users, e \in EthAddrs :
       (g.foreign[e].withdrawer = u) <=> (g.receipt[u] # NoReceipt /\ g.receipt[u].to = e)
  /\ \A u \in Users :
       g.receipt[u] # NoReceipt => g.receipt[u].nonce = g.foreign[g.receipt[u].to].nonce

\* WithdrawToken, WithdrawETH, WithdrawDiademCoin and completeTokenWithdraw
\* update three records each, and they agree after every transaction and every
\* event of a batch, so PendingWithdrawals never fails for everybody because of
\* one withdrawer without a receipt.
WithdrawalsLinked == Linked(gw) /\ (exec # NoExec => Linked(exec.g))

\* The sum of f over the elements of S.
SumOver(S, f(_)) == FoldSet(LAMBDA x, sum : f(x) + sum, 0, S)

\* What of token id is still on its way into the ledger.
Incoming(id) ==
  LET Undelivered(i) == IF /\ eth.events[i].type = "deposit" /\ eth.events[i].id = id
                           /\ applied[i] = 0
                        THEN eth.events[i].amount ELSE 0
      Kept(e) == LET Of(i) == IF gw.unclaimed[e][i].id = id
                              THEN gw.unclaimed[e][i].amount ELSE 0
                 IN SumOver(DOMAIN gw.unclaimed[e], Of)
  IN SumOver(DOMAIN eth.events, Undelivered) + SumOver(EthAddrs, Kept)

\* What of token id has left the ledger and not yet been taken on Ethereum.
Outgoing(id) ==
  LET Owed(u) == LET r == gw.receipt[u] IN
                 IF r # NoReceipt /\ r.id = id /\ eth.nonce[r.to] = r.nonce
                 THEN r.amount ELSE 0
  IN SumOver(Users, Owed)

\* What the gateway holds on Ethereum is what users hold here, plus what is on
\* its way in or out: however oracles time out, restart and send again, no
\* deposit is lost or credited twice and no withdrawal paid twice.
Backed ==
  \A id \in TokenIDs :
    LET Held(u) == gw.bal[id][u] IN
    eth.locked[id] = SumOver(Users, Held) + Incoming(id) + Outgoing(id)

\* An event is applied at most once, whichever batches it is part of and, with
\* transaction hashes checked, wherever the last block is set back to.
AppliedOnce == \A i \in 1 .. MaxEvents : applied[i] <= 1

\* "The receipt can be used to reclaim ownership of the token through the
\* Mainnet Gateway": the signature stored with it is one for this receipt.
SignatureMatchesReceipt ==
  \A u \in Users : gw.receipt[u] # NoReceipt =>
    gw.sig[u] \in {NoSig, HashOf(gw.receipt[u])}

\* No oracle starts past a deposit that has not been applied, however batches
\* of several oracles overlap, fail or time out: it would never be fetched again.
NothingSkipped ==
  \A o \in Oracles, i \in DOMAIN eth.events :
    eth.events[i].type = "deposit" /\ applied[i] = 0 =>
      eth.events[i].block >= StartBlock(o)

\* Timeouts, errors and restarts delay a deposit but do not stop it.
DepositsApplied ==
  \A i \in 1 .. MaxEvents :
    (i \in DOMAIN eth.events /\ eth.events[i].type = "deposit") ~> (applied[i] > 0)

\* A receipt is signed in the end, even when the confirmation of its signature
\* was lost after its hash entered the pool of recent hashes.
WithdrawalsSigned ==
  \A u \in Users \ Blacklist :
    (gw.receipt[u] # NoReceipt) ~> (gw.receipt[u] = NoReceipt \/ gw.sig[u] # NoSig)

=============================================================================
