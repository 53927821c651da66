------------------------------- MODULE AppStore -------------------------------
(***************************************************************************)
(* What the app store holds, who reads it and when: the block being        *)
(* executed writes to it, Application.Commit saves it, and query threads   *)
(* read it through Application.ReadOnlyState at any time between these     *)
(* steps.  IAVLStore has one DB.  MultiReaderIAVLStore keeps the values of *)
(* the leaves in a second one, and its snapshots come in three kinds.      *)
(***************************************************************************)
EXTENDS Integers, Sequences

CONSTANTS
  Keys, Vals, Nil,  \* keys, values, and the absence of a value
  Readers,          \* query threads
  Kinds,            \* the kinds of store and snapshot to check
  NotRead, NoSnap,  \* a key not read yet, a thread without a snapshot
  Fresh,            \* TRUE: a new chain, FALSE: one block is saved already
  LastVersion,      \* bound on the number of blocks
  MaxCrashes        \* bound on crashes

VARIABLES
  kind,     \* "live": IAVLStore; "db", "hybrid", "tree": SnapshotVersion 1, 2, 3
  tree,     \* the working tree
  trees,    \* the saved trees, one per version (app.db)
  values,   \* valueDB: the values of one version, and its number
  dirty,    \* the keys of valueBatch; their values are those of the tree
  saved,    \* the version lastSavedTree points to
  header,   \* the height of lastBlockHeader, zero when it is not set
  writer,   \* the next step of the block and its Commit
  snap,     \* the snapshot each query thread works with, and what it read
  crashes   \* crashes so far

storeVars == <<kind, tree, trees, values, dirty, saved, header, writer, crashes>>
vars == <<kind, tree, trees, values, dirty, saved, header, writer, snap, crashes>>

Data == [Keys -> Vals \cup {Nil}]

Empty == [k \in Keys |-> Nil]

Version == Len(trees)

At(v) == IF v = 0 THEN Empty ELSE trees[v]

Init ==
  /\ kind \in Kinds
  /\ \E d \in IF Fresh THEN {Empty} ELSE [Keys -> Vals] :
       /\ tree = d
       /\ trees = IF Fresh THEN <<>> ELSE <<d>>
       /\ values = [ver |-> Len(trees), data |-> d]
  /\ dirty = {} /\ saved = Version /\ header = Version
  /\ writer = "block" /\ crashes = 0
  /\ snap = [r \in Readers |-> NoSnap]

-----------------------------------------------------------------------------
\* The block and its Commit

\* Set and Delete, by a transaction that is committed to the store.
Write(k, v) ==
  /\ writer = "block" /\ Version < LastVersion
  /\ tree' = [tree EXCEPT ![k] = v]
  /\ dirty' = IF kind = "live" THEN {} ELSE dirty \cup {k}
  /\ UNCHANGED <<kind, trees, values, saved, header, writer, snap, crashes>>

\* SaveVersion: first the tree is saved to app.db ...
SaveTree ==
  /\ writer = "block" /\ Version < LastVersion
  /\ trees' = Append(trees, tree)
  /\ writer' = IF kind = "live" THEN "header" ELSE "values"
  /\ UNCHANGED <<kind, tree, values, dirty, saved, header, snap, crashes>>

\* ... then the batch to valueDB, with the version it belongs to ...
WriteValues ==
  /\ writer = "values"
  /\ values' = [ver  |-> Version,
                data |-> [k \in Keys |-> IF k \in dirty THEN tree[k] ELSE values.data[k]]]
  /\ dirty' = {}
  /\ writer' = "pointer"
  /\ UNCHANGED <<kind, tree, trees, saved, header, snap, crashes>>

\* ... and at last the tree is the one new snapshots use.
SetLastSavedTree ==
  /\ writer = "pointer"
  /\ saved' = Version
  /\ writer' = "header"
  /\ UNCHANGED <<kind, tree, trees, values, dirty, header, snap, crashes>>

\* Mutated Commit: lastBlockHeader is that of the block before.
SetLastBlockHeaderLate ==
  /\ writer = "header"
  /\ header' = Version - 1
  /\ writer' = "block"
  /\ UNCHANGED <<kind, tree, trees, values, dirty, saved, snap, crashes>>

\* Commit, after SaveVersion.
SetLastBlockHeader ==
  /\ writer = "header"
  /\ header' = Version
  /\ writer' = "block"
  /\ UNCHANGED <<kind, tree, trees, values, dirty, saved, snap, crashes>>

\* Mutated start of a store: the two DBs are not compared.
OutOfSyncIgnored == FALSE

\* NewMultiReaderIAVLStore refuses DBs of different versions, unless valueDB
\* has no version at all.
OutOfSync == kind # "live" /\ values.ver > 0 /\ values.ver # Version

\* The node stops between any two steps and starts again.  The leaves of a
\* MultiReaderIAVLStore find their values in valueDB (getValue).
Crash ==
  /\ writer # "refused"
  /\ crashes < MaxCrashes /\ crashes' = crashes + 1
  /\ tree' = IF kind = "live" THEN At(Version)
             ELSE [k \in Keys |-> IF At(Version)[k] = Nil THEN Nil ELSE values.data[k]]
  /\ dirty' = {}
  /\ saved' = Version
  /\ header' = 0
  /\ writer' = IF OutOfSync THEN "refused" ELSE "block"
  /\ snap' = [r \in Readers |-> NoSnap]
  /\ UNCHANGED <<kind, trees, values>>

-----------------------------------------------------------------------------
\* Queries

\* ReadOnlyState and GetSnapshot.  A "live" snapshot holds nothing.
GetSnapshot(r) ==
  /\ writer # "refused"
  /\ snap[r] = NoSnap
  /\ snap' = [snap EXCEPT ![r] =
                [tree |-> saved,
                 db   |-> IF kind = "hybrid" THEN NotRead ELSE values,
                 header |-> NotRead,
                 got  |-> [k \in Keys |-> NotRead]]]
  /\ UNCHANGED storeVars

\* SnapshotVersion 2 takes the snapshot of valueDB after the tree.
GetValueSnapshot(r) ==
  /\ snap[r] # NoSnap /\ snap[r].db = NotRead
  /\ snap' = [snap EXCEPT ![r].db = values]
  /\ UNCHANGED storeVars

\* ReadOnlyState reads lastBlockHeader when it has the snapshot.
GetHeader(r) ==
  /\ snap[r] # NoSnap /\ snap[r].db # NotRead /\ snap[r].header = NotRead
  /\ snap' = [snap EXCEPT ![r].header = header]
  /\ UNCHANGED storeVars

\* Mutated getValue: the value is that of the working tree.
LeafWorking(v, k) == {tree[k]}

\* A leaf of a saved tree is in memory, or its value is read from valueDB now.
LeafValues(v, k) ==
  IF At(v)[k] = Nil THEN {Nil} ELSE {At(v)[k], values.data[k]}

\* Mutated Get: a snapshot reads the working tree.
GetsWorking(s, k) == IF kind = "db" THEN {tree[k]} ELSE LeafValues(s.tree, k)

\* What Get may return for a key.
Gets(s, k) ==
  CASE kind = "live" -> {tree[k]}
    [] kind = "db"   -> {s.db.data[k]}
    [] OTHER         -> LeafValues(s.tree, k)

\* Get and Has
Get(r, k) ==
  /\ snap[r] # NoSnap /\ snap[r].header # NotRead /\ snap[r].got[k] = NotRead
  /\ \E v \in Gets(snap[r], k) : snap' = [snap EXCEPT ![r].got[k] = v]
  /\ UNCHANGED storeVars

\* Range, over the keys that have not been read: SnapshotVersion 2 takes them
\* from the snapshot of valueDB, the others from where Get finds them.
GetRange(r) ==
  /\ snap[r] # NoSnap /\ snap[r].header # NotRead
  /\ \E k \in Keys : snap[r].got[k] = NotRead
  /\ \E d \in Data :
       /\ \A k \in Keys : d[k] \in IF kind = "hybrid" THEN {snap[r].db.data[k]}
                                   ELSE Gets(snap[r], k)
       /\ snap' = [snap EXCEPT ![r].got =
                     [k \in Keys |-> IF @[k] = NotRead THEN d[k] ELSE @[k]]]
  /\ UNCHANGED storeVars

Release(r) ==
  /\ snap[r] # NoSnap /\ snap[r].header # NotRead
  /\ snap' = [snap EXCEPT ![r] = NoSnap]
  /\ UNCHANGED storeVars

Next ==
  \/ \E k \in Keys, v \in Vals \cup {Nil} : Write(k, v)
  \/ SaveTree \/ WriteValues \/ SetLastSavedTree \/ SetLastBlockHeader
  \/ Crash
  \/ \E r \in Readers :
       \/ GetSnapshot(r) \/ GetValueSnapshot(r) \/ GetHeader(r)
       \/ \E k \in Keys : Get(r, k)
       \/ GetRange(r) \/ Release(r)

Spec == Init /\ [][Next]_vars

-----------------------------------------------------------------------------
\* Properties

\* A block starts from the state that was saved, in both DBs, wherever the node
\* crashed before: the keys the block has not written have their saved values.
StartsInSync ==
  writer = "block" =>
    /\ \A k \in Keys \ dirty : kind # "live" => tree[k] = At(Version)[k]
    /\ kind # "live" => values = [ver |-> Version, data |-> At(Version)]

\* StoreStateSnapshot is a "snapshot of the app state at particular point in
\* time, it's unaffected by any changes to the app state": all that a query
\* reads through it is from one saved version.
SnapshotConsistent ==
  \A r \in Readers : snap[r] # NoSnap =>
    \E v \in 0 .. Version : \A k \in Keys : snap[r].got[k] \in {NotRead, At(v)[k]}

\* A query never sees what a block wrote before the block is saved.
ReadsCommitted ==
  \A r \in Readers : snap[r] # NoSnap =>
    \A k \in Keys : snap[r].got[k] # NotRead =>
      \E v \in 0 .. Version : snap[r].got[k] = At(v)[k]

\* The header ReadOnlyState pairs with a snapshot may not match it, but it is
\* at most one block behind the values, unless no block was committed since the
\* node started.
HeaderAtMostOneBehind ==
  \A r \in Readers : snap[r] # NoSnap /\ snap[r].header \notin {NotRead, 0} =>
    snap[r].header >= snap[r].db.ver - 1 /\ snap[r].header >= snap[r].tree - 1

=============================================================================
