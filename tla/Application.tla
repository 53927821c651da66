----------------------------- MODULE Application -----------------------------
(***************************************************************************)
(* The transactions of a chain on its nodes: Tendermint decides on blocks, *)
(* and calls BeginBlock, DeliverTx and Commit of the Application of every  *)
(* node for each of them, and CheckTx in between for the transactions that *)
(* clients send to that node.  The calls of a node are serialized.         *)
(*                                                                         *)
(* The state of the app is the nonce of every account and the sequence of  *)
(* transactions executed; what contracts store is a function of the latter.*)
(***************************************************************************)
EXTENDS Integers, Sequences, FiniteSets

CONSTANTS
  Nodes, Origins,  \* nodes, accounts
  Txs,             \* transactions: origin, nonce, and what becomes of the call
  LimitCalls,      \* TxLimiter.LimitCalls
  Period,          \* TxLimiter.CallSessionDuration
  KarmaEnabled,    \* Karma.Enabled
  CallLimit,       \* Karma.MaxCallCount and the karma of an account
  LastHeight,      \* bound on the number of blocks
  MaxBlockTxs,     \* bound on the transactions of a block
  MaxRestarts,     \* bound on restarts, of all nodes
  MaxCount         \* bound on the calls counted by a limiter

\* "ok", "fails": a Go contract that returns no error, or one.  "evmfails": an
\* EVM contract that does; CheckTx does not run those.
Outcomes == {"ok", "fails", "evmfails"}

VARIABLES
  chain,       \* the blocks Tendermint has decided on
  saved,       \* the states each node has saved, one per height
  state,       \* the working state of each node
  height,      \* the height of curBlockHeader, zero after a restart
  next,        \* the position of the next transaction of the block, zero outside one
  nonceCache,  \* NonceHandler, zero for a missing entry
  lastHeight,  \* NonceHandler
  called,      \* alreadyCalled of OriginValidator
  throttle,    \* Throttle of the karma middleware
  placed,      \* history: the calls OriginValidator let pass since the node started
  restarts     \* restarts so far

nodeVars == <<saved, state, height, next, nonceCache, lastHeight, called, throttle, placed>>
vars == <<chain, nodeVars, restarts>>

NoNonces == [o \in Origins |-> 0]

Genesis == [nonce |-> NoNonces, log |-> <<>>]

LastSaved(n) == IF saved[n] = <<>> THEN Genesis ELSE saved[n][Len(saved[n])]

NoCalls == [s \in 0 .. Period - 1 |-> {}]

\* NewThrottle: lastAddress is empty, no limiter has counted anything.
NewThrottle == [last |-> <<>>, reached |-> FALSE, count |-> NoNonces]

Init ==
  /\ chain = <<>>
  /\ saved = [n \in Nodes |-> <<>>]
  /\ state = [n \in Nodes |-> Genesis]
  /\ height = [n \in Nodes |-> 0]
  /\ next = [n \in Nodes |-> 0]
  /\ nonceCache = [n \in Nodes |-> NoNonces]
  /\ lastHeight = [n \in Nodes |-> 0]
  /\ called = [n \in Nodes |-> NoCalls]
  /\ throttle = [n \in Nodes |-> NewThrottle]
  /\ placed = [n \in Nodes |-> {}]
  /\ restarts = 0

\* Tendermint: a node that has executed all blocks proposes the next one.
Decide(block) ==
  /\ Len(chain) < LastHeight
  /\ \E n \in Nodes : Len(saved[n]) = Len(chain) /\ next[n] = 0
  /\ chain' = Append(chain, block)
  /\ UNCHANGED <<nodeVars, restarts>>

-----------------------------------------------------------------------------
\* The middlewares of a transaction, in their order

\* ValidateOrigin, which is only called by CheckTx.
ValidateOrigin(n, tx) ==
  LimitCalls => \A s \in DOMAIN called[n] : \A c \in called[n][s] :
                  c.origin = tx.origin => c.nonce = tx.nonce

Placed(n, tx) ==
  /\ called' = IF LimitCalls
                 THEN [called EXCEPT ![n][height[n] % Period] =
                         @ \cup {[origin |-> tx.origin, nonce |-> tx.nonce]}]
                 ELSE called
  /\ placed' = IF LimitCalls
                 THEN [placed EXCEPT ![n] =
                         @ \cup {[origin |-> tx.origin, nonce |-> tx.nonce, at |-> height[n]]}]
                 ELSE placed

\* getLimiterContext: a transaction with the account and nonce of the last one
\* gets the answer of the last one, any other is counted.
Limiter(n, tx) ==
  LET t == throttle[n]
      key == <<tx.origin, tx.nonce>>
      count == t.count[tx.origin] + 1
  IN  IF ~KarmaEnabled \/ key = t.last THEN t
      ELSE [last    |-> key,
            reached |-> count > CallLimit,
            count   |-> [t.count EXCEPT ![tx.origin] = count]]

\* The nonce cache as Nonce finds it: it is cleared at each new height.
Cache(n) == IF lastHeight[n] # height[n] THEN NoNonces ELSE nonceCache[n]

\* Mutated Nonce: DeliverTx also trusts the cache.
ExpectedFromCache(n, o, isCheckTx) ==
  IF Cache(n)[o] # 0 THEN Cache(n)[o] ELSE state[n].nonce[o] + 1

\* The sequence number Nonce expects of the next transaction of an account.
Expected(n, o, isCheckTx) ==
  IF Cache(n)[o] # 0 /\ isCheckTx THEN Cache(n)[o] ELSE state[n].nonce[o] + 1

\* Mutated IncNonce: only after CheckTx.
IncNonceCheckTxOnly(seq, isCheckTx) == IF isCheckTx THEN seq + 1 ELSE seq

\* IncNonce, in CheckTx and in DeliverTx.
IncNonce(seq, isCheckTx) == seq + 1

\* What the contract returns.
CallSucceeds(tx, isCheckTx) ==
  tx.outcome = "ok" \/ (tx.outcome = "evmfails" /\ isCheckTx)

\* A transaction that passes the karma and nonce middlewares and its contract.
Succeeds(n, tx, isCheckTx) ==
  /\ ~Limiter(n, tx).reached
  /\ tx.nonce = Expected(n, tx.origin, isCheckTx)
  /\ CallSucceeds(tx, isCheckTx)

\* What the middlewares remember in memory, whatever comes of the transaction.
Remember(n, tx, isCheckTx) ==
  /\ Limiter(n, tx).count[tx.origin] <= MaxCount
  /\ throttle' = [throttle EXCEPT ![n] = Limiter(n, tx)]
  /\ IF Limiter(n, tx).reached
       THEN UNCHANGED <<nonceCache, lastHeight>>
       ELSE LET seq == Expected(n, tx.origin, isCheckTx) IN
            /\ nonceCache' = [nonceCache EXCEPT ![n] =
                 [Cache(n) EXCEPT ![tx.origin] =
                    IF Succeeds(n, tx, isCheckTx) THEN IncNonce(seq, isCheckTx) ELSE seq]]
            /\ lastHeight' = [lastHeight EXCEPT ![n] = height[n]]

-----------------------------------------------------------------------------
\* The calls of Tendermint

\* Before the first block after a start CheckTx answers without a look at the
\* transaction.  Otherwise its state is dropped.
CheckTx(n, tx) ==
  /\ height[n] # 0
  /\ ValidateOrigin(n, tx)
  /\ Placed(n, tx)
  /\ Remember(n, tx, TRUE)
  /\ UNCHANGED <<chain, saved, state, height, next, restarts>>

\* Mutated Reset: the slot of the block before is cleared.
ResetPrevious(n, h) == [called EXCEPT ![n][(h - 1) % Period] = {}]

\* Reset of OriginValidator
Reset(n, h) == [called EXCEPT ![n][h % Period] = {}]

\* BeginBlock, with what upkeep, validators and chain config change left out:
\* it depends on the state alone.
BeginBlock(n) ==
  LET h == Len(saved[n]) + 1 IN
  /\ next[n] = 0 /\ h <= Len(chain)
  /\ height' = [height EXCEPT ![n] = h]
  /\ called' = Reset(n, h)
  /\ next' = [next EXCEPT ![n] = 1]
  /\ UNCHANGED <<chain, saved, state, nonceCache, lastHeight, throttle, placed, restarts>>

Executed(s, tx) ==
  [nonce |-> [s.nonce EXCEPT ![tx.origin] = @ + 1], log |-> Append(s.log, tx)]

\* Mutated DeliverTx: the origin is validated as in CheckTx.
DeliverTxValidated(n) ==
  /\ next[n] # 0 /\ next[n] <= Len(chain[height[n]])
  /\ LET tx == chain[height[n]][next[n]] IN
     /\ state' = [state EXCEPT ![n] =
                    IF ValidateOrigin(n, tx) /\ Succeeds(n, tx, FALSE)
                      THEN Executed(@, tx) ELSE @]
     /\ Remember(n, tx, FALSE)
  /\ next' = [next EXCEPT ![n] = @ + 1]
  /\ UNCHANGED <<chain, saved, height, called, placed, restarts>>

\* DeliverTx: the storeTx of a transaction that fails is rolled back, with the
\* nonce Sequence.Next has set.
DeliverTx(n) ==
  /\ next[n] # 0 /\ next[n] <= Len(chain[height[n]])
  /\ LET tx == chain[height[n]][next[n]] IN
     /\ state' = [state EXCEPT ![n] = IF Succeeds(n, tx, FALSE) THEN Executed(@, tx) ELSE @]
     /\ Remember(n, tx, FALSE)
  /\ next' = [next EXCEPT ![n] = @ + 1]
  /\ UNCHANGED <<chain, saved, height, called, placed, restarts>>

\* EndBlock and Commit
Commit(n) ==
  /\ next[n] # 0 /\ next[n] > Len(chain[height[n]])
  /\ saved' = [saved EXCEPT ![n] = Append(@, state[n])]
  /\ next' = [next EXCEPT ![n] = 0]
  /\ UNCHANGED <<chain, state, height, nonceCache, lastHeight, called, throttle, placed, restarts>>

\* The session of the limiter of an account ends: its counter starts again.
SessionEnds(n, o) ==
  /\ throttle[n].count[o] # 0
  /\ throttle' = [throttle EXCEPT ![n].count[o] = 0]
  /\ UNCHANGED <<chain, saved, state, height, next, nonceCache, lastHeight, called, placed, restarts>>

\* A node starts again from its last saved state; Tendermint replays the rest.
Restart(n) ==
  /\ restarts < MaxRestarts /\ restarts' = restarts + 1
  /\ state' = [state EXCEPT ![n] = LastSaved(n)]
  /\ height' = [height EXCEPT ![n] = 0]
  /\ next' = [next EXCEPT ![n] = 0]
  /\ nonceCache' = [nonceCache EXCEPT ![n] = NoNonces]
  /\ lastHeight' = [lastHeight EXCEPT ![n] = 0]
  /\ called' = [called EXCEPT ![n] = NoCalls]
  /\ throttle' = [throttle EXCEPT ![n] = NewThrottle]
  /\ placed' = [placed EXCEPT ![n] = {}]
  /\ UNCHANGED <<chain, saved>>

Blocks == UNION {[1 .. k -> Txs] : k \in 0 .. MaxBlockTxs}

Next ==
  \/ \E block \in Blocks : Decide(block)
  \/ \E n \in Nodes :
       \/ \E tx \in Txs : CheckTx(n, tx)
       \/ BeginBlock(n) \/ DeliverTx(n) \/ Commit(n)
       \/ (\E o \in Origins : SessionEnds(n, o)) \/ Restart(n)

Spec == Init /\ [][Next]_vars

-----------------------------------------------------------------------------
\* Properties

MaxNonce == CHOOSE k \in {tx.nonce : tx \in Txs} : \A tx \in Txs : tx.nonce <= k

\* Types, and the heights of a node: inside a block curBlockHeader is the block
\* after the last one saved, whatever restarts came before.
TypeOK ==
  /\ \A h \in DOMAIN chain : chain[h] \in Blocks
  /\ \A n \in Nodes :
       /\ Len(saved[n]) <= Len(chain)
       /\ state[n].nonce \in [Origins -> 0 .. MaxNonce]
       /\ \A i \in DOMAIN state[n].log : state[n].log[i] \in Txs
       /\ height[n] \in {0, Len(saved[n]), Len(saved[n]) + 1}
       /\ next[n] # 0 => height[n] = Len(saved[n]) + 1
       /\ nonceCache[n] \in [Origins -> 0 .. MaxNonce + 1]
       /\ lastHeight[n] \in 0 .. height[n]
       /\ throttle[n].count \in [Origins -> 0 .. MaxCount]
  /\ restarts \in 0 .. MaxRestarts

\* The transactions of an account are executed in the order of their nonces, each
\* of them once, and the stored nonce is their number: whatever a block repeats
\* or reorders, and however CheckTx and restarts meet DeliverTx.
ExecutedInOrder ==
  \A n \in Nodes :
    LET log == state[n].log
        of(o, k) == {j \in 1 .. k : log[j].origin = o}
    IN  /\ \A i \in DOMAIN log : log[i].nonce = Cardinality(of(log[i].origin, i))
        /\ \A o \in Origins : state[n].nonce[o] = Cardinality(of(o, Len(log)))

\* Nodes that have executed the same blocks have the same state, whatever their
\* clients sent to CheckTx and whenever they were restarted: "apphash should has
\* only 1 entry".
ReplicasAgree ==
  \A n, m \in Nodes : \A h \in DOMAIN saved[n] \cap DOMAIN saved[m] :
    saved[n][h] = saved[m][h]

\* CheckTx never lets a transaction into the mempool that has been executed:
\* the cached nonce it is compared with is always ahead of the state.
NonceCacheAhead ==
  \A n \in Nodes : \A o \in Origins :
    nonceCache[n][o] # 0 => nonceCache[n][o] > state[n].nonce[o]

\* LimitCalls: a node that stays up lets an account place one call in any
\* Period blocks.
CallsSpaced ==
  \A n \in Nodes : \A c, d \in placed[n] :
    c.origin = d.origin /\ c.nonce # d.nonce => c.at - d.at \notin (1 - Period) .. (Period - 1)

=============================================================================
