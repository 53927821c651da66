------------------------------ MODULE EVMStore ------------------------------
(***************************************************************************)
(* Where the EVM keeps its state (src/evm/loomevm.go, multi_writer_db.go,  *)
(* loomethdb.go): the nodes of its tries in evm.db, and before the feature *)
(* "evm:db" is enabled also in the application state, which is where they  *)
(* are read from then; the root in the application state, always.          *)
(*                                                                         *)
(* evm.db is written as soon as a call has succeeded.  The application     *)
(* state is dropped when the transaction fails or was only checked, and is *)
(* lost up to the last SaveVersion when the node stops.                    *)
(***************************************************************************)
EXTENDS Integers, SequencesExt

CONSTANTS
  Keys, Values,   \* what the storage of contracts is made of
  EnableAt,       \* the block that enables the feature
  MaxHeight,      \* bound on the blocks
  MaxCrashes      \* bound on the stops

VARIABLES
  evmDB,          \* the nodes in evm.db
  saved,          \* the application state last saved
  app,            \* the application state of the block that is executed
  inBlock,        \* between BeginBlock and Commit
  crashes

vars == <<evmDB, saved, app, inBlock, crashes>>

\* A trie: a leaf for each key that has a value, and a root that names all of
\* them.  Nodes are stored under their hashes, so equal nodes are the same, and
\* no node of the empty trie is ever looked up.
Empty == [k \in Keys |-> 0]

Leaf(trie, k) == IF trie[k] = 0 THEN {} ELSE {<<k, trie[k]>>}

Nodes(trie) ==
  IF trie = Empty THEN {} ELSE {<<"root", trie>>} \cup UNION {Leaf(trie, k) : k \in Keys}

\* What app.db holds: the root, the nodes under the prefix "vm", the feature.
Init ==
  /\ evmDB = {}
  /\ saved = [height |-> 0, root |-> Empty, vm |-> {}, feature |-> FALSE]
  /\ app = saved
  /\ inBlock = FALSE
  /\ crashes = 0

-----------------------------------------------------------------------------

\* The config of NewDiademEvm, and the nodes Get finds with it
Read(state) == IF state.feature THEN evmDB ELSE state.vm

\* state.New fails without the node of the root, and a call that needs a node
\* that is not there does.
CanRun(state, k) ==
  state.root # Empty => {<<"root", state.root>>} \cup Leaf(state.root, k) \subseteq Read(state)

\* Mutated Put: the database that is read from is the one written to.
PutReadOnly(db, feature, node) ==
  IF feature THEN [db EXCEPT !.evmDB = @ \cup {node}] ELSE [db EXCEPT !.vm = @ \cup {node}]

\* Put: EVM_DB or ALL_DB
Put(db, feature, node) ==
  [evmDB |-> db.evmDB \cup {node}, vm |-> IF feature THEN db.vm ELSE db.vm \cup {node}]

\* Batches: nothing is written before Write, which puts one node after the other.
NewBatch == <<>>

BatchPut(batch, node) == Append(batch, node)

Write(state, batch) ==
  FoldLeft(LAMBDA db, node : Put(db, state.feature, node), [evmDB |-> evmDB, vm |-> state.vm], batch)

\* Call or Create that succeeds and Commit: the nodes that changed are written,
\* leaves first, then the root is set.
Commit(state, k, v) ==
  LET trie   == [state.root EXCEPT ![k] = v]
      leaves == FoldSet(LAMBDA leaf, b : BatchPut(b, leaf), NewBatch, Leaf(trie, k))
  IN [db |-> Write(state, BatchPut(leaves, <<"root", trie>>)), root |-> trie]

\* A transaction that calls the EVM.  In DeliverTx its state is kept, unless the
\* Go contract the call came from fails afterwards; CheckTx runs such a contract
\* as well and drops its state; it runs nothing before the first block after a
\* start.
Run(k, v, kept) ==
  /\ app.height > 0
  /\ kept => inBlock
  /\ CanRun(app, k)
  /\ \E c \in {Commit(app, k, v)} :
       /\ evmDB' = c.db.evmDB
       /\ app' = IF kept THEN [app EXCEPT !.root = c.root, !.vm = c.db.vm] ELSE app
  /\ UNCHANGED <<saved, inBlock, crashes>>

BeginBlock ==
  /\ ~inBlock /\ saved.height < MaxHeight
  /\ app' = [saved EXCEPT !.height = @ + 1,
                          !.feature = @ \/ saved.height + 1 = EnableAt]
  /\ inBlock' = TRUE
  /\ UNCHANGED <<evmDB, saved, crashes>>

\* SaveVersion
Save ==
  /\ inBlock
  /\ saved' = app
  /\ inBlock' = FALSE
  /\ UNCHANGED <<evmDB, app, crashes>>

\* The node stops, or SaveVersion fails and it panics.
Crash ==
  /\ crashes < MaxCrashes
  /\ crashes' = crashes + 1
  /\ app' = [saved EXCEPT !.height = 0]
  /\ inBlock' = FALSE
  /\ UNCHANGED <<evmDB, saved>>

Next ==
  \/ \E k \in Keys, v \in Values, kept \in BOOLEAN : Run(k, v, kept)
  \/ BeginBlock \/ Save \/ Crash

Spec == Init /\ [][Next]_vars

-----------------------------------------------------------------------------
\* Properties

\* Every node of the trie whose root the application state names is in the
\* database that loomevm.go reads with this state: in the state being executed
\* and in the one a node starts from, before and after the switch to evm.db,
\* whatever of a block was lost, dropped or only checked.
NodesPresent == \A state \in {app, saved} : Nodes(state.root) \subseteq Read(state)

=============================================================================
