-------------------------------- MODULE MCApp --------------------------------
(* The application of a node, one part of it at a time, in one run of TLC: *)
(* the transactions of a chain with one setting of the middlewares each, the*)
(* state of the EVM and its receipts, and what clients query.              *)
EXTENDS Integers, Sequences, FiniteSets, TLC

CONSTANTS
  n1, n2, a1, a2

VARIABLES
  part,  \* the part of the system this behaviour is about
  chain, saved, state, height, next, nonceCache, lastHeight, called, throttle,
  placed, restarts,  \* Application
  evmDB, evmSaved, app, inBlock, evmCrashes,  \* EVMStore
  receiptsBlocks, receiptsSaved, receiptsApp, phase, pos, receiptsTx,
  handlers, provider, db, query, halted, receiptsCrashes, queries,  \* TxReceipts
  queryHeight, queryCache, polls, lastPoll, timestamps, queryCalls,
  queryCrashes, reported, seen, partial  \* EthPolls

txVars == <<chain, saved, state, height, next, nonceCache, lastHeight, called, throttle,
            placed, restarts>>
evmVars == <<evmDB, evmSaved, app, inBlock, evmCrashes>>
receiptVars == <<receiptsBlocks, receiptsSaved, receiptsApp, phase, pos, receiptsTx,
                 handlers, provider, db, query, halted, receiptsCrashes,
                 queries>>
queryVars == <<queryHeight, queryCache, polls, lastPoll, timestamps, queryCalls,
               queryCrashes, reported, seen, partial>>

allVars == <<part, txVars, evmVars, receiptVars, queryVars>>

\* One account that sends two transactions, the first with a call that fails in
\* a block only.
OneAccount == {[origin |-> a1, nonce |-> 1, outcome |-> "ok"],
               [origin |-> a1, nonce |-> 1, outcome |-> "evmfails"],
               [origin |-> a1, nonce |-> 2, outcome |-> "ok"]}

\* Two accounts; the second transaction of the first may be one that fails.
TwoAccounts == {[origin |-> a1, nonce |-> 1, outcome |-> "ok"],
                [origin |-> a1, nonce |-> 2, outcome |-> "ok"],
                [origin |-> a1, nonce |-> 2, outcome |-> "fails"],
                [origin |-> a2, nonce |-> 1, outcome |-> "ok"]}

\* Calls of the EVM that succeed, fail, and are made by a Go contract
Calls == {[kind |-> "evm", id |-> 1], [kind |-> "reverts", id |-> 2], [kind |-> "nested", id |-> 3]}

\* Four blocks, of which the first has no transaction of the EVM.
Evm(logs) == [evm |-> TRUE, logs |-> logs]

Go == [evm |-> FALSE, logs |-> <<>>]

Blocks == << <<Go>>, <<Evm(<<"s">>), Evm(<<"s", "t">>)>>, <<Go, Evm(<<"t">>)>>, <<Evm(<<"s">>)>> >>

Filters == {[from |-> "earliest", to |-> "latest", topics |-> {"s"}],
            [from |-> "latest", to |-> "pending", topics |-> {}]}

-----------------------------------------------------------------------------
\* The parts

\* One node, and two accounts whose transactions arrive in any order.
Nonces == INSTANCE Application WITH
  Nodes <- {n1}, Origins <- {a1, a2}, Txs <- TwoAccounts, LimitCalls <- FALSE,
  Period <- 1, KarmaEnabled <- FALSE, CallLimit <- 1, LastHeight <- 2,
  MaxBlockTxs <- 2, MaxRestarts <- 1, MaxCount <- 1

\* Two nodes with the call limit on.
Replicas == INSTANCE Application WITH
  Nodes <- {n1, n2}, Origins <- {a1}, Txs <- {tx \in OneAccount : tx.outcome =
  "ok"}, LimitCalls <- TRUE, Period <- 1, KarmaEnabled <- FALSE, CallLimit
  <- 1, LastHeight <- 2, MaxBlockTxs <- 2, MaxRestarts <- 1, MaxCount <- 1

\* One node that lets an account place one call in two blocks.
Limits == INSTANCE Application WITH
  Nodes <- {n1}, Origins <- {a1}, Txs <- {tx \in OneAccount : tx.outcome =
  "ok"}, LimitCalls <- TRUE, Period <- 2, KarmaEnabled <- FALSE, CallLimit
  <- 1, LastHeight <- 3, MaxBlockTxs <- 1, MaxRestarts <- 1, MaxCount <- 1

\* One node with the karma limiter on.
Karma == INSTANCE Application WITH
  Nodes <- {n1}, Origins <- {a1, a2}, Txs <- TwoAccounts, LimitCalls <- FALSE,
  Period <- 1, KarmaEnabled <- TRUE, CallLimit <- 1, LastHeight <- 2,
  MaxBlockTxs <- 1, MaxRestarts <- 1, MaxCount <- 2

\* The state of the EVM, which moves to its own database at the second block.
State == INSTANCE EVMStore WITH
  saved <- evmSaved, crashes <- evmCrashes, Keys <- {"x", "y"}, Values <- {0,
  1}, EnableAt <- 2, MaxHeight <- 3, MaxCrashes <- 1

\* Receipts, which move to theirs at the second block.
Receipts == INSTANCE TxReceipts WITH
  blocks <- receiptsBlocks, saved <- receiptsSaved, app <- receiptsApp, tx <-
  receiptsTx, crashes <- receiptsCrashes, Txs <- Calls, EnableAt <- 2,
  MaxDbSize <- 2, MaxBlockTxs <- 2, MaxHeight <- 3, MaxCrashes <- 1,
  MaxQueries <- 1

\* Queries and one filter, with a cache of two entries.
Cached == INSTANCE EthPolls WITH
  height <- queryHeight, cache <- queryCache, calls <- queryCalls, crashes <-
  queryCrashes, Ids <- {"p"}, Chain <- Blocks, Filters <- Filters,
  BlockTimeout <- 1, Limit <- 2, CacheSize <- 2, MaxCrashes <- 0

\* Two filters and no cache.
Polls == INSTANCE EthPolls WITH
  height <- queryHeight, cache <- queryCache, calls <- queryCalls, crashes <-
  queryCrashes, Ids <- {"p", "q"}, Chain <- SubSeq(Blocks, 1, 3), Filters <-
  {[from |-> "earliest", to |-> "latest", topics |-> {}]}, BlockTimeout <-
  1, Limit <- 2, CacheSize <- 0, MaxCrashes <- 1

-----------------------------------------------------------------------------
\* Application is not looked at.
TxOff ==
  /\ chain = "off" /\ saved = "off" /\ state = "off" /\ height = "off"
  /\ next = "off" /\ nonceCache = "off" /\ lastHeight = "off" /\ called = "off"
  /\ throttle = "off" /\ placed = "off" /\ restarts = "off"

\* EVMStore is not looked at.
EvmOff ==
  /\ evmDB = "off" /\ evmSaved = "off" /\ app = "off" /\ inBlock = "off"
  /\ evmCrashes = "off"

\* TxReceipts is not looked at.
ReceiptOff ==
  /\ receiptsBlocks = "off" /\ receiptsSaved = "off" /\ receiptsApp = "off" /\ phase = "off"
  /\ pos = "off" /\ receiptsTx = "off" /\ handlers = "off" /\ provider = "off"
  /\ db = "off" /\ query = "off" /\ halted = "off" /\ receiptsCrashes = "off"
  /\ queries = "off"

\* EthPolls is not looked at.
QueryOff ==
  /\ queryHeight = "off" /\ queryCache = "off" /\ polls = "off" /\ lastPoll = "off"
  /\ timestamps = "off" /\ queryCalls = "off" /\ queryCrashes = "off" /\ reported = "off"
  /\ seen = "off" /\ partial = "off"

AppInit ==
  \/ part = "nonces" /\ Nonces!Init /\ EvmOff /\ ReceiptOff /\ QueryOff
  \/ part = "replicas" /\ Replicas!Init /\ EvmOff /\ ReceiptOff /\ QueryOff
  \/ part = "limits" /\ Limits!Init /\ EvmOff /\ ReceiptOff /\ QueryOff
  \/ part = "karma" /\ Karma!Init /\ EvmOff /\ ReceiptOff /\ QueryOff
  \/ part = "evm" /\ State!Init /\ TxOff /\ ReceiptOff /\ QueryOff
  \/ part = "receipts" /\ Receipts!Init /\ TxOff /\ EvmOff /\ QueryOff
  \/ part = "cached" /\ Cached!Init /\ TxOff /\ EvmOff /\ ReceiptOff
  \/ part = "polls" /\ Polls!Init /\ TxOff /\ EvmOff /\ ReceiptOff

AppNext ==
  \/ part = "nonces" /\ Nonces!Next
     /\ UNCHANGED <<part, evmVars, receiptVars, queryVars>>
  \/ part = "replicas" /\ Replicas!Next
     /\ UNCHANGED <<part, evmVars, receiptVars, queryVars>>
  \/ part = "limits" /\ Limits!Next
     /\ UNCHANGED <<part, evmVars, receiptVars, queryVars>>
  \/ part = "karma" /\ Karma!Next
     /\ UNCHANGED <<part, evmVars, receiptVars, queryVars>>
  \/ part = "evm" /\ State!Next
     /\ UNCHANGED <<part, txVars, receiptVars, queryVars>>
  \/ part = "receipts" /\ Receipts!Next
     /\ UNCHANGED <<part, txVars, evmVars, queryVars>>
  \/ part = "cached" /\ Cached!Next
     /\ UNCHANGED <<part, txVars, evmVars, receiptVars>>
  \/ part = "polls" /\ Polls!Next
     /\ UNCHANGED <<part, txVars, evmVars, receiptVars>>

AppSpec == AppInit /\ [][AppNext]_allVars

-----------------------------------------------------------------------------
\* Properties

\* The transactions of an account are executed in the order of their nonces,
\* each of them once, and the stored nonce is their number: whatever a block
\* repeats or reorders, however CheckTx and restarts meet DeliverTx, and
\* whatever the karma limiter drops. CheckTx lets none pass that was
\* executed, and no more calls than the limit allows in any Period blocks.
ExecutedInOrder ==
  /\ part \in {"nonces", "karma"} => Nonces!ExecutedInOrder
  /\ part = "replicas" => Replicas!ExecutedInOrder
  /\ part = "nonces" => Nonces!NonceCacheAhead
  /\ part = "limits" => Limits!CallsSpaced

\* Nodes that have executed the same blocks have the same state, whatever
\* their clients sent to CheckTx and whenever they were restarted.
ReplicasAgree == part = "replicas" => Replicas!ReplicasAgree

\* Every node of the trie whose root the application state names is in the
\* database that loomevm.go reads with this state, before and after the
\* switch to evm.db, whatever of a block was lost, dropped or only checked.
NodesPresent == part = "evm" => State!NodesPresent

\* The hash list of a saved block names the calls of the EVM that succeeded
\* in it, in their order, though queries replace handlers meanwhile; and
\* GetReceipt finds the receipt of each, in the LevelDB until MaxDbSize
\* others have come, though blocks are executed again after a crash.
ReceiptsComplete == part = "receipts" => Receipts!BlockHashesComplete /\ Receipts!ReceiptsKept

\* "Get the logs since last poll": a filter reports nothing twice and
\* everything up to the block it has read, but for what the code passes over,
\* and is kept while it is polled, however polls, blocks and prunes overlap.
PollsReport ==
  /\ part = "cached" => Cached!ReportedOnce /\ Cached!LivePollsKept
  /\ part = "polls" => Polls!ReportedOnce /\ Polls!LivePollsKept

\* Blocks are found by number and by hash, and are the chain's, and the
\* transactions of a block are those found by their index in it, whatever the
\* cache of the block store holds and wherever its ranges end.
QueriesTrue ==
  /\ part = "cached" => Cached!QueriesTrue
  /\ part = "polls" => Polls!QueriesTrue

=============================================================================
