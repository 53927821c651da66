----------------------------- MODULE PlasmaCash -----------------------------
(***************************************************************************)
(* Plasma Cash: the contract that holds the coins deposited on mainnet and *)
(* collects transfers into plasma blocks, the oracle that brings events of *)
(* mainnet to the contract and plasma blocks to mainnet, and the root      *)
(* contract on mainnet as far as the oracle can tell.                      *)
(*                                                                         *)
(* A plasma block stands for its merkle root.  Transactions of the oracle  *)
(* that time out may still be executed later, on either chain.             *)
(***************************************************************************)
EXTENDS Integers, Sequences, FiniteSets, SequencesExt

CONSTANTS
  Users, Oracles,
  Worker,       \* the address the oracle process signs with
  Interval,     \* PlasmaBlockInterval, and the 1000 of SubmitBlockToMainnet
  MaxDeposits,  \* bound on deposits, below Interval as on mainnet
  MaxEvents,    \* bound on events of mainnet
  MaxTransfers, \* bound on transfers
  MaxInflight   \* bound on transactions of the oracle that are not executed yet

VARIABLES
  coins, accounts,        \* states of coins, and how often an account lists each slot
  pending, blocks, height,
  tally, oracle,
  events, latest,         \* events of mainnet, the ones past latest not mined yet
  root,                   \* the contract on mainnet: exits, block number, roots
  coinWorker, blockWorker,
  batches, submissions,   \* transactions to the DAppChain and to mainnet
  selfSent, transfers     \* history: coins sent to their sender, and the number of transfers

dapp == <<coins, accounts, pending, blocks, height, tally, oracle>>
mainnet == <<events, latest, root>>
vars == <<dapp, mainnet, coinWorker, blockWorker, batches, submissions, selfSent, transfers>>

Slots == 1 .. MaxDeposits

AtRest == [at |-> "idle"]

Init ==
  /\ coins = <<>>
  /\ accounts = [u \in Users |-> [s \in Slots |-> 0]]
  /\ pending = {} /\ blocks = <<>> /\ height = 0
  /\ tally = [block |-> 0, log |-> 0]
  /\ oracle = Worker
  /\ events = <<>> /\ latest = 0
  /\ root = [current |-> 0, roots |-> <<>>, deposits |-> 0,
             exits |-> [s \in Slots |-> "none"], owners |-> [s \in Slots |-> {}]]
  /\ coinWorker = AtRest /\ blockWorker = AtRest
  /\ batches = {} /\ submissions = {}
  /\ selfSent = {} /\ transfers = 0

-----------------------------------------------------------------------------
\* The root contract on mainnet, with the events the oracle fetches

Emit(e) ==
  /\ Len(events) < MaxEvents
  /\ events' = Append(events, [block |-> latest + 1,
                               log |-> Len(SelectSeq(events, LAMBDA x : x.block > latest)) + 1] @@ e)

Deposit(u) ==
  /\ root.deposits < MaxDeposits
  /\ \E s \in {root.deposits + 1}, n \in {root.current + 1} :
       /\ Emit([kind |-> "deposit", slot |-> s, owner |-> u, number |-> n])
       /\ root' = [root EXCEPT !.deposits = s, !.current = n, !.owners[s] = {u}]
  /\ UNCHANGED <<dapp, latest, coinWorker, blockWorker, batches, submissions, selfSent, transfers>>

\* An exit is started by an owner the contract has proof of; it is challenged,
\* or the coin is withdrawn.
Exit(s, u) ==
  /\ root.exits[s] = "none" /\ u \in root.owners[s]
  /\ Emit([kind |-> "exit", slot |-> s, owner |-> u])
  /\ root' = [root EXCEPT !.exits[s] = u]
  /\ UNCHANGED <<dapp, latest, coinWorker, blockWorker, batches, submissions, selfSent, transfers>>

Challenged(s) ==
  /\ root.exits[s] \in Users
  /\ Emit([kind |-> "reset", slot |-> s, owner |-> root.exits[s]])
  /\ root' = [root EXCEPT !.exits[s] = "none"]
  /\ UNCHANGED <<dapp, latest, coinWorker, blockWorker, batches, submissions, selfSent, transfers>>

Withdraw(s) ==
  /\ root.exits[s] \in Users
  /\ Emit([kind |-> "withdraw", slot |-> s, owner |-> root.exits[s]])
  /\ root' = [root EXCEPT !.exits[s] = "withdrawn"]
  /\ UNCHANGED <<dapp, latest, coinWorker, blockWorker, batches, submissions, selfSent, transfers>>

Mine ==
  /\ \E e \in ToSet(events) : e.block > latest
  /\ latest' = latest + 1
  /\ UNCHANGED <<dapp, events, root, coinWorker, blockWorker, batches, submissions,
                 selfSent, transfers>>

\* SubmitPlasmaBlock is executed: the number has to be past the last one.
SubmitBlock(x) ==
  /\ x \in submissions
  /\ submissions' = submissions \ {x}
  /\ root' = IF x.number <= root.current THEN root
             ELSE [root EXCEPT !.current = x.number,
                               !.roots = [n \in DOMAIN @ \cup {x.number} |->
                                            IF n = x.number THEN x.txs ELSE @[n]],
                               !.owners = [s \in Slots |-> @[s] \cup
                                             {t.owner : t \in {y \in x.txs : y.slot = s}}]]
  /\ UNCHANGED <<dapp, events, latest, coinWorker, blockWorker, batches, selfSent, transfers>>

-----------------------------------------------------------------------------
\* The contract

\* Mutated round: a multiple is taken as it is.
RoundUp(num) == IF num = 0 THEN Interval ELSE ((num + Interval - 1) \div Interval) * Interval

\* round: always the next multiple of the interval
Round(num) == (num \div Interval + 1) * Interval

NextHeight == Round(height)

\* SubmitBlockToMainnet, which the block worker calls when transactions are pending
SubmitBlockToMainnet ==
  /\ oracle = Worker /\ pending # {}
  /\ height' = NextHeight
  /\ blocks' = [n \in DOMAIN blocks \cup {NextHeight} |->
                  IF n = NextHeight THEN pending ELSE blocks[n]]
  /\ pending' = {}
  /\ UNCHANGED <<coins, accounts, tally, oracle, mainnet, coinWorker, blockWorker, batches,
                 submissions, selfSent, transfers>>

\* Mutated transferCoin: the slot stays with the sender.
transferCoinKeeps(s, from, to) == accounts' = [accounts EXCEPT ![to][s] = @ + 1]

\* transferCoin loads the accounts of sender and receiver, and saves the receiver
\* last: to oneself, the slot is appended and not removed.
transferCoin(s, from, to) ==
  accounts' = IF from = to THEN [accounts EXCEPT ![to][s] = @ + 1]
              ELSE [accounts EXCEPT ![from][s] = @ - 1, ![to][s] = @ + 1]

PlasmaTxRequest(s, from, to) ==
  /\ transfers < MaxTransfers
  /\ transfers' = transfers + 1
  /\ \A t \in pending : t.slot # s
  /\ s \in DOMAIN coins /\ coins[s] = "DEPOSITED"
  /\ accounts[from][s] > 0
  /\ transferCoin(s, from, to)
  /\ pending' = pending \cup {[slot |-> s, owner |-> to]}
  /\ selfSent' = IF from = to THEN selfSent \cup {s} ELSE selfSent
  /\ UNCHANGED <<coins, blocks, height, tally, oracle, mainnet, coinWorker, blockWorker,
                 batches, submissions>>

UpdateOracle(new) ==
  /\ new # oracle
  /\ oracle' = new
  /\ UNCHANGED <<coins, accounts, pending, blocks, height, tally, mainnet, coinWorker,
                 blockWorker, batches, submissions, selfSent, transfers>>

\* Mutated isRequestAlreadySeen: the last event is not counted as seen.
SeenBefore(e, t) == e.block < t.block \/ (e.block = t.block /\ e.log < t.log)

isRequestAlreadySeen(e, t) == e.block < t.block \/ (e.block = t.block /\ e.log <= t.log)

\* The state of a request batch while it is processed
Batch == [ok |-> TRUE, coins |-> coins, accounts |-> accounts, blocks |-> blocks,
          height |-> height, tally |-> tally]

CoinIn(b, s, state) == s \in DOMAIN b.coins /\ b.coins[s] = state

depositRequest(b, e) ==
  [b EXCEPT !.blocks = (e.number :> {[slot |-> e.slot, owner |-> e.owner]}) @@ @,
            !.coins = (e.slot :> "DEPOSITED") @@ @,
            !.accounts[e.owner][e.slot] = @ + 1,
            !.height = IF e.number > @ THEN e.number ELSE @]

coinReset(b, e) ==
  IF CoinIn(b, e.slot, "EXITING") THEN [b EXCEPT !.coins[e.slot] = "DEPOSITED"]
                                  ELSE [b EXCEPT !.ok = FALSE]

exitCoin(b, e) ==
  IF CoinIn(b, e.slot, "DEPOSITED") THEN [b EXCEPT !.coins[e.slot] = "EXITING"]
                                    ELSE [b EXCEPT !.ok = FALSE]

withdrawCoin(b, e) ==
  IF e.slot \in DOMAIN b.coins /\ b.accounts[e.owner][e.slot] > 0
    THEN [b EXCEPT !.accounts[e.owner][e.slot] = @ - 1,
                   !.coins = [s \in DOMAIN @ \ {e.slot} |-> @[s]]]
    ELSE [b EXCEPT !.ok = FALSE]

Request(b, e) ==
  CASE e.kind = "deposit" -> depositRequest(b, e)
    [] e.kind = "reset" -> coinReset(b, e)
    [] e.kind = "exit" -> exitCoin(b, e)
    [] e.kind = "withdraw" -> withdrawCoin(b, e)

\* The loop: a request that fails fails the batch, and the transaction.
Processed(requests) ==
  FoldLeft(LAMBDA b, e :
             IF ~b.ok \/ isRequestAlreadySeen(e, b.tally) THEN b
             ELSE [Request(b, e) EXCEPT !.tally = [block |-> e.block, log |-> e.log]],
           Batch, requests)

\* A batch of the oracle is executed.
ProcessRequestBatch(requests) ==
  /\ requests \in batches
  /\ batches' = batches \ {requests}
  /\ \E b \in {Processed(requests)} :
       IF oracle = Worker /\ b.ok
         THEN /\ coins' = b.coins /\ accounts' = b.accounts /\ blocks' = b.blocks
              /\ height' = b.height /\ tally' = b.tally
         ELSE UNCHANGED <<coins, accounts, blocks, height, tally>>
  /\ UNCHANGED <<pending, oracle, mainnet, coinWorker, blockWorker, submissions, selfSent, transfers>>

-----------------------------------------------------------------------------
\* The oracle

\* sendCoinEventsToDAppChain reads the tally ...
ReadTally ==
  /\ coinWorker = AtRest
  /\ coinWorker' = [at |-> "fetch", start |-> IF tally.block = 0 THEN 0 ELSE tally.block + 1]
  /\ UNCHANGED <<dapp, mainnet, blockWorker, batches, submissions, selfSent, transfers>>

\* ... and sends all events of later blocks in their order, or there are none.
SendEvents ==
  /\ coinWorker.at = "fetch"
  /\ \E found \in {SelectSeq(events, LAMBDA e : coinWorker.start <= e.block /\ e.block <= latest)} :
       /\ found # <<>> => Cardinality(batches) < MaxInflight
       /\ batches' = IF found = <<>> THEN batches ELSE batches \cup {found}
  /\ coinWorker' = AtRest
  /\ UNCHANGED <<dapp, mainnet, blockWorker, submissions, selfSent, transfers>>

nextPlasmaBlockNum(current) == (current \div Interval + 1) * Interval

\* syncPlasmaBlocksWithEthereum reads the number of mainnet ...
ReadEthBlockNum ==
  /\ blockWorker = AtRest
  /\ blockWorker' = [at |-> "read", number |-> nextPlasmaBlockNum(root.current)]
  /\ UNCHANGED <<dapp, mainnet, coinWorker, batches, submissions, selfSent, transfers>>

\* ... and the block after it, if the DAppChain has one ...
ReadPlasmaBlock ==
  /\ blockWorker.at = "read"
  /\ blockWorker' = IF blockWorker.number <= height /\ blockWorker.number \in DOMAIN blocks
                      THEN [at |-> "submit", number |-> blockWorker.number,
                            txs |-> blocks[blockWorker.number]]
                      ELSE AtRest
  /\ UNCHANGED <<dapp, mainnet, coinWorker, batches, submissions, selfSent, transfers>>

\* ... and submitPlasmaBlockToEthereum sends it unless it is there by now.
SubmitPlasmaBlock ==
  /\ blockWorker.at = "submit"
  /\ submissions' = IF blockWorker.number <= root.current THEN submissions
                    ELSE submissions \cup {[number |-> blockWorker.number, txs |-> blockWorker.txs]}
  /\ blockWorker' = AtRest
  /\ UNCHANGED <<dapp, mainnet, coinWorker, batches, selfSent, transfers>>

\* A transaction of the oracle is never executed.
Lost ==
  /\ \/ \E b \in batches : batches' = batches \ {b} /\ UNCHANGED submissions
     \/ \E x \in submissions : submissions' = submissions \ {x} /\ UNCHANGED batches
  /\ UNCHANGED <<dapp, mainnet, coinWorker, blockWorker, selfSent, transfers>>

Next ==
  \/ \E u \in Users : Deposit(u)
  \/ \E s \in Slots :
       \/ \E u \in Users : Exit(s, u)
       \/ Challenged(s) \/ Withdraw(s)
       \/ \E from, to \in Users : PlasmaTxRequest(s, from, to)
  \/ Mine \/ SubmitBlockToMainnet
  \/ \E new \in Oracles : UpdateOracle(new)
  \/ \E b \in batches : ProcessRequestBatch(b)
  \/ \E x \in submissions : SubmitBlock(x)
  \/ ReadTally \/ SendEvents \/ ReadEthBlockNum \/ ReadPlasmaBlock \/ SubmitPlasmaBlock \/ Lost

-----------------------------------------------------------------------------
\* Properties

Held(s) == FoldFunctionOnSet(LAMBDA a, n : n + a[s], 0, accounts, Users)

\* A coin of the contract is listed by one account, once, and a withdrawn coin by
\* none, although batches of the oracle are repeated and overlap, and coins move
\* while events of mainnet are on their way.  Left out are coins that were sent
\* to their own sender, which transferCoin lists twice.
CoinHeldOnce ==
  \A s \in Slots \ selfSent : Held(s) = IF s \in DOMAIN coins THEN 1 ELSE 0

\* Mainnet has every plasma block of the DAppChain up to its current number, with
\* the transactions the DAppChain has for it: none is skipped, replaced or
\* submitted under the number of another, in whatever order submissions arrive.
BlocksAgree ==
  \A k \in 1 .. root.current \div Interval :
    LET n == k * Interval
    IN  n \in DOMAIN root.roots /\ n \in DOMAIN blocks /\ root.roots[n] = blocks[n]

=============================================================================
