----------------------------- MODULE TxReceipts -----------------------------
(***************************************************************************)
(* The receipts of EVM transactions (src/receipts): the handler that keeps *)
(* those of the block being executed, the two stores they go to when it    *)
(* ends (the application state, and a LevelDB that holds the latest ones   *)
(* as a linked list), and the provider that picks a handler by the feature *)
(* "receipts:v2", for the executor (src/app.go) and for queries, which are *)
(* answered at the same time from the last state saved.                    *)
(*                                                                         *)
(* The LevelDB is committed in EndBlock, before the application state is   *)
(* saved, so a node that stops between the two executes a block again      *)
(* whose receipts it already has.                                          *)
(***************************************************************************)
EXTENDS Integers, SequencesExt, FiniteSets

CONSTANTS
  Txs,            \* transactions: [kind, id]
  EnableAt,       \* the block that enables the feature
  MaxDbSize,      \* EVMPersistentTxReceiptsMax
  MaxBlockTxs, MaxHeight, MaxCrashes, MaxQueries   \* bounds

\* "evm": a call of the EVM that succeeds; "reverts": one that does not;
\* "nested": a Go contract that calls the EVM
Kinds == {"evm", "reverts", "nested"}

VARIABLES
  blocks,         \* the blocks Tendermint has decided
  saved, app,     \* application states: [height, v2, hashes, receipts]
  phase,          \* "idle", "txs" (between BeginBlock and EndBlock) or "ended"
  pos,            \* how many transactions of the block were executed
  tx,             \* processTx: [stage, store], the handler it has resolved
  handlers,       \* the handlers this process has made: [v, cache, current]
  provider,       \* h.handler, an index of handlers, or 0
  db,             \* the LevelDB: [items, head, tail, size]
  query,          \* a query: <<>>, or the feature flag of its state
  halted,         \* the process has panicked
  crashes, queries

vars == <<blocks, saved, app, phase, pos, tx, handlers, provider, db, query, halted,
          crashes, queries>>

appVars == <<blocks, saved, app>>
blockVars == <<phase, pos>>
handlerVars == <<handlers, provider>>
boundVars == <<crashes, queries>>

NoHash == <<>>
NoTx == [stage |-> "none", store |-> 0]

Init ==
  /\ blocks = <<>>
  /\ saved = [height |-> 0, v2 |-> FALSE, hashes |-> <<>>, receipts |-> {}]
  /\ app = saved
  /\ phase = "idle" /\ pos = 0 /\ tx = NoTx
  /\ handlers = <<>> /\ provider = 0
  /\ db = [items |-> <<>>, head |-> NoHash, tail |-> NoHash, size |-> 0]
  /\ query = <<>> /\ halted = FALSE
  /\ crashes = 0 /\ queries = 0

-----------------------------------------------------------------------------
\* The provider

\* resolve: the last handler if it has the version, else a new one.  The old one
\* is not closed, so the LevelDB can be opened once in the life of a process.
CanOpen(v2) == ~v2 \/ \A i \in DOMAIN handlers : ~handlers[i].v2

Reused(v2) == provider # 0 /\ handlers[provider].v2 = v2

Resolvable(v2) == Reused(v2) \/ CanOpen(v2)

Resolved(v2) == IF Reused(v2) THEN provider ELSE Len(handlers) + 1

NewHandler(v2) == [v2 |-> v2, cache |-> <<>>, current |-> NoHash]

HandlersWith(v2) == IF Reused(v2) THEN handlers ELSE Append(handlers, NewHandler(v2))

\* GetReceipt, GetTxByHash, ... of the query server: take a state ...
TakeSnapshot ==
  /\ query = <<>> /\ queries < MaxQueries
  /\ query' = <<saved.v2>>
  /\ queries' = queries + 1
  /\ UNCHANGED <<appVars, blockVars, tx, handlerVars, db, halted, crashes>>

\* ... and resolve the handler for it, whatever has happened since.
ReaderAt ==
  /\ query # <<>>
  /\ IF Resolvable(query[1])
     THEN handlers' = HandlersWith(query[1]) /\ provider' = Resolved(query[1])
     ELSE UNCHANGED handlerVars
  /\ query' = <<>>
  /\ UNCHANGED <<appVars, blockVars, tx, db, halted, boundVars>>

-----------------------------------------------------------------------------
\* Transactions

\* EnableFeatures is part of BeginBlock.  A block that was executed before the
\* node stopped is executed again.
BeginBlock(block) ==
  LET h == saved.height + 1
  IN /\ phase = "idle" /\ ~halted /\ h <= MaxHeight
     /\ h <= Len(blocks) => block = blocks[h]
     /\ blocks' = IF h <= Len(blocks) THEN blocks ELSE Append(blocks, block)
     /\ app' = [saved EXCEPT !.height = h, !.v2 = @ \/ h = EnableAt,
                             !.hashes = Append(@, <<>>)]
     /\ phase' = "txs" /\ pos' = 0
     /\ UNCHANGED <<saved, tx, handlerVars, db, query, halted, boundVars>>

\* processTx resolves the handler it commits receipts with ...
StartTx ==
  /\ phase = "txs" /\ ~halted /\ tx = NoTx /\ pos < Len(blocks[app.height])
  /\ IF Resolvable(app.v2)
     THEN /\ handlers' = HandlersWith(app.v2) /\ provider' = Resolved(app.v2)
          /\ tx' = [stage |-> "vm", store |-> Resolved(app.v2)]
          /\ halted' = FALSE
     ELSE halted' = TRUE /\ UNCHANGED <<handlerVars, tx>>
  /\ UNCHANGED <<appVars, blockVars, db, query, boundVars>>

\* The hash of a receipt is that of what is in it: in the first version calls of a
\* block that do the same have the same hash ...
DepreciatedWriteReceipt(h, p) == <<h, blocks[h][p].id, 0>>

\* ... in the second they differ by the nonce of the caller.
WriteReceipt(h, p) == <<h, blocks[h][p].id, p>>

Hash(h, p, v2) == IF v2 THEN WriteReceipt(h, p) ELSE DepreciatedWriteReceipt(h, p)

EndTx == pos' = pos + 1 /\ tx' = NoTx

\* ... then the VM resolves the one it writes them with, and runs.  Without it
\* the transaction fails, as it does when the EVM returns an error.
RunTx ==
  LET kind == blocks[app.height][pos + 1].kind
      receipt == Hash(app.height, pos + 1, app.v2)
  IN /\ tx.stage = "vm" /\ ~halted
     /\ \/ /\ ~Resolvable(app.v2)
           /\ handlers' = [handlers EXCEPT ![tx.store].current = NoHash]
           /\ UNCHANGED provider
           /\ EndTx
        \/ /\ Resolvable(app.v2)
           /\ \E hs \in {[HandlersWith(app.v2) EXCEPT ![Resolved(app.v2)].current = receipt]} :
                handlers' = IF kind = "reverts" THEN [hs EXCEPT ![tx.store].current = NoHash]
                            ELSE hs
           /\ provider' = Resolved(app.v2)
           /\ IF kind = "evm" THEN tx' = [tx EXCEPT !.stage = "done"] /\ pos' = pos ELSE EndTx
     /\ UNCHANGED <<appVars, phase, db, query, halted, boundVars>>

\* Mutated CommitCurrentReceipt: the receipt stays the current one.
CommitCurrentReceiptTwice(handler) ==
  IF handler.current = NoHash THEN handler
  ELSE [handler EXCEPT !.cache = @ \o <<handler.current, handler.current>>, !.current = NoHash]

CommitCurrentReceipt(handler) ==
  IF handler.current = NoHash THEN handler
  ELSE [handler EXCEPT !.cache = Append(@, handler.current), !.current = NoHash]

\* A call of the EVM that succeeded: its event is sent with the receipt of the
\* handler that is current then, and the receipt is committed.
FinishTx ==
  /\ tx.stage = "done" /\ ~halted
  /\ \E hs \in {IF Resolvable(app.v2) THEN HandlersWith(app.v2) ELSE handlers} :
       handlers' = [hs EXCEPT ![tx.store] = CommitCurrentReceipt(@)]
  /\ provider' = IF Resolvable(app.v2) THEN Resolved(app.v2) ELSE provider
  /\ EndTx
  /\ UNCHANGED <<appVars, phase, db, query, halted, boundVars>>

-----------------------------------------------------------------------------
\* The LevelDB: items[hash] is the hash of the receipt that came next

\* Mutated Put: an item that is replaced is counted again.
PutCounted(list, hash, next) ==
  [list EXCEPT !.items = (hash :> next) @@ @, !.size = @ + 1]

Put(list, hash, next) ==
  [list EXCEPT !.items = (hash :> next) @@ @,
               !.size = IF hash \in DOMAIN list.items THEN @ ELSE @ + 1]

\* One receipt: the tail is made to point to it, and it is the tail.
Link(list, hash) ==
  IF list.head = NoHash THEN [list EXCEPT !.head = hash, !.tail = hash]
  ELSE [Put(list, list.tail, hash) EXCEPT !.tail = hash]

\* getDBParams
Params(list) == IF list.size = 0 THEN [list EXCEPT !.head = NoHash, !.tail = NoHash] ELSE list

Readable(list) == list.size > 0 => list.head # NoHash /\ list.tail \in DOMAIN list.items

\* One step of removeOldEntries; it stops at the end of the list.
RemoveHead(list) ==
  IF list.head \notin DOMAIN list.items THEN [list EXCEPT !.head = NoHash]
  ELSE [items |-> [h \in DOMAIN list.items \ {list.head} |-> list.items[h]],
        head |-> list.items[list.head], tail |-> list.tail, size |-> list.size - 1]

removeOldEntries(list) ==
  FoldLeft(LAMBDA l, i : RemoveHead(l), list,
           [i \in 1 .. (IF list.size > MaxDbSize THEN list.size - MaxDbSize ELSE 0) |-> i])

AppendTxHashList(state, receipts) ==
  [state EXCEPT !.hashes[state.height] = @ \o receipts]

\* CommitBlock of StateDBReceipts
CommittedToState(receipts) ==
  /\ app' = [AppendTxHashList(app, receipts) EXCEPT !.receipts = @ \cup Range(receipts)]
  /\ UNCHANGED db

\* CommitBlock of LevelDbReceipts
Committed(receipts) ==
  \E linked \in {FoldLeft(Link, Params(db), receipts)} :
  \E list \in {removeOldEntries(Put(linked, linked.tail, NoHash))} :
    IF Readable(db) /\ list.size <= MaxDbSize
    THEN db' = list /\ app' = AppendTxHashList(app, receipts)
    ELSE UNCHANGED <<db, app>>

\* EndBlock and CommitBlock of the handler, which drops what it has cached
\* whether or not the store has returned an error.
EndBlock ==
  /\ phase = "txs" /\ ~halted /\ tx = NoTx /\ pos = Len(blocks[app.height])
  /\ IF ~Resolvable(app.v2) THEN halted' = TRUE /\ UNCHANGED <<app, db, handlerVars, phase>>
     ELSE \E hs \in {HandlersWith(app.v2)}, i \in {Resolved(app.v2)} :
            /\ IF hs[i].cache = <<>> THEN UNCHANGED <<db, app>>
               ELSE IF app.v2 THEN Committed(hs[i].cache)
               ELSE CommittedToState(hs[i].cache)
            /\ handlers' = [hs EXCEPT ![i].cache = <<>>]
            /\ provider' = i
            /\ phase' = "ended" /\ halted' = FALSE
  /\ UNCHANGED <<blocks, saved, pos, tx, query, boundVars>>

\* SaveVersion
Commit ==
  /\ phase = "ended"
  /\ saved' = app /\ phase' = "idle"
  /\ UNCHANGED <<blocks, app, pos, tx, handlerVars, db, query, halted, boundVars>>

\* The node is stopped, or started again after a panic.
Crash ==
  /\ crashes < MaxCrashes
  /\ crashes' = crashes + 1
  /\ app' = saved /\ phase' = "idle" /\ pos' = 0 /\ tx' = NoTx
  /\ handlers' = <<>> /\ provider' = 0 /\ query' = <<>> /\ halted' = FALSE
  /\ UNCHANGED <<blocks, saved, db, queries>>

Next ==
  \/ \E n \in 0 .. MaxBlockTxs : \E block \in [1 .. n -> Txs] : BeginBlock(block)
  \/ StartTx \/ RunTx \/ FinishTx \/ EndBlock \/ Commit
  \/ TakeSnapshot \/ ReaderAt
  \/ Crash

Spec == Init /\ [][Next]_vars

-----------------------------------------------------------------------------
\* Properties

IsV2(h) == h >= EnableAt

\* The hashes of the calls of the EVM that succeed in a block
HashesOf(h) ==
  LET evm == SelectSeq([p \in DOMAIN blocks[h] |-> p], LAMBDA p : blocks[h][p].kind = "evm")
  IN [i \in DOMAIN evm |-> Hash(h, evm[i], IsV2(h))]

\* The hash list of every block that is saved names the calls of the EVM that
\* succeeded in it, in their order, as on every other node: a handler that a
\* query has replaced while a block is executed (provider.go) never makes the
\* node save a block without its receipts, nor with those of another.
BlockHashesComplete ==
  \A h \in 1 .. saved.height : saved.hashes[h] = HashesOf(h)

\* The receipts of the second version from block h, place i on
Since(h, i) ==
  LET after == UNION {{<<k, j>> : j \in DOMAIN HashesOf(k)} : k \in h .. Len(blocks)}
  IN {p \in after : p[1] > h \/ p[2] >= i}

\* GetReceipt finds the receipt of every transaction of a saved block: those of
\* the first version in the application state, those of the second in the
\* LevelDB until MaxDbSize others have come.  Neither the block that is executed
\* again after leveldb.go has committed its receipts, nor the removal of old
\* ones, breaks the list or its count.
ReceiptsKept ==
  /\ \A h \in 1 .. saved.height : \A i \in DOMAIN saved.hashes[h] :
       IF ~IsV2(h) THEN saved.hashes[h][i] \in saved.receipts
       ELSE Cardinality(Since(h, i)) <= MaxDbSize => saved.hashes[h][i] \in DOMAIN db.items
  /\ db.size = Cardinality(DOMAIN db.items)

=============================================================================
