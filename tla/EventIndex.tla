----------------------------- MODULE EventIndex -----------------------------
(***************************************************************************)
(* The index of events: DBIndexerEventDispatcher, which gathers the events *)
(* the goroutines of the blocks send and saves them when one of these      *)
(* flushes, and KVEventStore, which saves them by height and by contract,  *)
(* and which queries (ContractEvents of the query server) search.          *)
(*                                                                         *)
(* Contracts have an id in the keys, made when the first event is saved or *)
(* asked for.  One dispatcher serves all blocks; a call on the DB, an      *)
(* iterator, a batch and a section under a lock are atomic.                *)
(***************************************************************************)
EXTENDS Naturals, Sequences, TLC

CONSTANTS
  Contracts,   \* names of contracts
  MaxEvents,   \* bound on the events of a block
  Readers,     \* query threads
  LastHeight,  \* bound on the number of blocks
  MaxQueries,  \* bound on the queries
  MaxCrashes,  \* bound on crashes
  AnyContract, \* a query for the events of all contracts
  Idle         \* no goroutine or no query

Heights == 1 .. LastHeight

\* What a block may emit: events of these contracts.
Blocks == UNION {[1 .. n -> Contracts] : n \in 0 .. MaxEvents}

VARIABLES
  emitted,     \* for each committed block the events, in order
  emitter,     \* for each height the goroutine of the block
  gathered,    \* DBIndexerEventDispatcher.events
  byHeight,    \* the DB: events by height and index
  byContract,  \* the DB: events by contract id, height and index
  ids,         \* the DB: contract ids
  lastID,      \* the DB: the last contract id
  reader,      \* the query of each thread
  queries, crashes,
  raced,       \* history: contracts whose id was replaced by another
  disturbed    \* history: blocks whose goroutine met another, or died in a crash

vars == <<emitted, emitter, gathered, byHeight, byContract, ids, lastID, reader,
          queries, crashes, raced, disturbed>>

\* An event: its block, its place among the events of the block, its contract.
EventsAt(h) == {[height |-> h, place |-> i, contract |-> emitted[h][i]] : i \in DOMAIN emitted[h]}

Running == {h \in Heights : emitter[h] # Idle}

Init ==
  /\ emitted = <<>>
  /\ emitter = [h \in Heights |-> Idle]
  /\ gathered = <<>>
  /\ byHeight = <<>> /\ byContract = <<>>
  /\ ids = [c \in Contracts |-> 0] /\ lastID = 0
  /\ reader = [r \in Readers |-> Idle]
  /\ queries = 0 /\ crashes = 0
  /\ raced = {} /\ disturbed = {}

\* Application.Commit starts a goroutine for the events of the block.
Commit(events) ==
  LET h == Len(emitted) + 1 IN
  /\ h <= LastHeight
  /\ emitted' = Append(emitted, events)
  /\ emitter' = [emitter EXCEPT ![h] = [at |-> "send", next |-> 1, batch |-> <<>>, id |-> 0]]
  /\ disturbed' = IF Running = {} THEN disturbed ELSE disturbed \cup Running \cup {h}
  /\ UNCHANGED <<gathered, byHeight, byContract, ids, lastID, reader, queries, crashes, raced>>

\* Send
Send(h) ==
  /\ emitter[h] # Idle /\ emitter[h].at = "send" /\ emitter[h].next <= Len(emitted[h])
  /\ gathered' = Append(gathered, [height |-> h, place |-> emitter[h].next,
                                   contract |-> emitted[h][emitter[h].next]])
  /\ emitter' = [emitter EXCEPT ![h].next = @ + 1]
  /\ UNCHANGED <<emitted, byHeight, byContract, ids, lastID, reader, queries, crashes, raced,
                 disturbed>>

\* Mutated Flush: what was gathered stays.
FlushKeeps(h) ==
  /\ emitter[h] # Idle /\ emitter[h].at = "send" /\ emitter[h].next > Len(emitted[h])
  /\ emitter' = [emitter EXCEPT ![h] = [at |-> "get", next |-> 1, batch |-> gathered, id |-> 0]]
  /\ UNCHANGED <<emitted, gathered, byHeight, byContract, ids, lastID, reader, queries, crashes,
                 raced, disturbed>>

\* Flush takes what was gathered, whichever blocks it is of, ...
Flush(h) ==
  /\ emitter[h] # Idle /\ emitter[h].at = "send" /\ emitter[h].next > Len(emitted[h])
  /\ emitter' = [emitter EXCEPT ![h] = [at |-> "get", next |-> 1, batch |-> gathered, id |-> 0]]
  /\ gathered' = <<>>
  /\ UNCHANGED <<emitted, byHeight, byContract, ids, lastID, reader, queries, crashes, raced,
                 disturbed>>

-----------------------------------------------------------------------------
\* GetContractID(c) in three steps, for a thread at the record t: read the id,
\* make one if there is none, and write it back in either case.

ReadID(t, c) == [t EXCEPT !.at = IF ids[c] = 0 THEN "make" ELSE "set", !.id = ids[c]]

\* Mutated nextContractID: it does not write the last id.
nextContractIDUncounted == UNCHANGED lastID

nextContractID == lastID' = lastID + 1

WriteID(c, id) ==
  /\ ids' = [ids EXCEPT ![c] = id]
  /\ raced' = raced \cup {d \in {c} : ids[d] \notin {0, id}}

\* ... resolves the contract of each event ...
Resolving(h) == emitter[h] # Idle /\ emitter[h].next <= Len(emitter[h].batch)

EventContract(h) == emitter[h].batch[emitter[h].next].contract

GetID(h) ==
  /\ Resolving(h) /\ emitter[h].at = "get"
  /\ emitter' = [emitter EXCEPT ![h] = ReadID(@, EventContract(h))]
  /\ UNCHANGED <<emitted, gathered, byHeight, byContract, ids, lastID, reader, queries, crashes,
                 raced, disturbed>>

MakeID(h) ==
  /\ Resolving(h) /\ emitter[h].at = "make"
  /\ nextContractID
  /\ emitter' = [emitter EXCEPT ![h].at = "set", ![h].id = lastID + 1]
  /\ UNCHANGED <<emitted, gathered, byHeight, byContract, ids, reader, queries, crashes, raced,
                 disturbed>>

SetID(h) ==
  /\ Resolving(h) /\ emitter[h].at = "set"
  /\ WriteID(EventContract(h), emitter[h].id)
  /\ emitter' = [emitter EXCEPT ![h].at = "get", ![h].next = @ + 1,
                                ![h].batch[emitter[h].next] = @ @@ [id |-> emitter[h].id]]
  /\ UNCHANGED <<emitted, gathered, byHeight, byContract, lastID, reader, queries, crashes,
                 disturbed>>

\* An event as it is stored, without the id of its contract.
Stored(e) == [height |-> e.height, place |-> e.place, contract |-> e.contract]

\* The keys of BatchSaveEvents: the index is the place in the batch.
HeightKeys(batch) ==
  [k \in {<<batch[i].height, i>> : i \in DOMAIN batch} |-> Stored(batch[k[2]])]

ContractKeys(batch) ==
  [k \in {<<batch[i].id, batch[i].height, i>> : i \in DOMAIN batch} |-> Stored(batch[k[3]])]

\* ... and writes the events in one batch.
Write(h) ==
  /\ emitter[h] # Idle /\ emitter[h].at = "get" /\ emitter[h].next > Len(emitter[h].batch)
  /\ byHeight' = HeightKeys(emitter[h].batch) @@ byHeight
  /\ byContract' = ContractKeys(emitter[h].batch) @@ byContract
  /\ emitter' = [emitter EXCEPT ![h] = Idle]
  /\ UNCHANGED <<emitted, gathered, ids, lastID, reader, queries, crashes, raced, disturbed>>

-----------------------------------------------------------------------------
\* ContractEvents: the range is checked, and a contract resolved.
ContractEvents(r, c, from, to) ==
  /\ reader[r] = Idle /\ queries < MaxQueries /\ queries' = queries + 1
  /\ from <= to
  /\ reader' = [reader EXCEPT ![r] = [at |-> IF c = AnyContract THEN "iterate" ELSE "get",
                                      contract |-> c, from |-> from, to |-> to, id |-> 0]]
  /\ UNCHANGED <<emitted, emitter, gathered, byHeight, byContract, ids, lastID, crashes, raced,
                 disturbed>>

QueryGetID(r) ==
  /\ reader[r] # Idle /\ reader[r].at = "get"
  /\ reader' = [reader EXCEPT ![r] = ReadID(@, reader[r].contract)]
  /\ UNCHANGED <<emitted, emitter, gathered, byHeight, byContract, ids, lastID, queries, crashes,
                 raced, disturbed>>

QueryMakeID(r) ==
  /\ reader[r] # Idle /\ reader[r].at = "make"
  /\ nextContractID
  /\ reader' = [reader EXCEPT ![r].at = "set", ![r].id = lastID + 1]
  /\ UNCHANGED <<emitted, emitter, gathered, byHeight, byContract, ids, queries, crashes, raced,
                 disturbed>>

QuerySetID(r) ==
  /\ reader[r] # Idle /\ reader[r].at = "set"
  /\ WriteID(reader[r].contract, reader[r].id)
  /\ reader' = [reader EXCEPT ![r].at = "iterate"]
  /\ UNCHANGED <<emitted, emitter, gathered, byHeight, byContract, lastID, queries, crashes,
                 disturbed>>

\* Mutated FilterEvents: the iterator ends before the last block.
FilterEventsExclusive(q) ==
  IF q.contract = AnyContract
    THEN {k \in DOMAIN byHeight : q.from <= k[1] /\ k[1] < q.to}
    ELSE {k \in DOMAIN byContract : k[1] = q.id /\ q.from <= k[2] /\ k[2] < q.to}

\* The keys FilterEvents iterates over for the query q.
FilterEvents(q) ==
  IF q.contract = AnyContract
    THEN {k \in DOMAIN byHeight : q.from <= k[1] /\ k[1] < q.to + 1}
    ELSE {k \in DOMAIN byContract : k[1] = q.id /\ q.from <= k[2] /\ k[2] < q.to + 1}

\* The event a key leads to.
At(q, k) == IF q.contract = AnyContract THEN byHeight[k] ELSE byContract[k]

Answer(r) ==
  /\ reader[r] # Idle /\ reader[r].at = "iterate"
  /\ reader' = [reader EXCEPT ![r] = Idle]
  /\ UNCHANGED <<emitted, emitter, gathered, byHeight, byContract, ids, lastID, queries, crashes,
                 raced, disturbed>>

\* A restart: goroutines and what was gathered are gone.
Crash ==
  /\ crashes < MaxCrashes /\ crashes' = crashes + 1
  /\ disturbed' = disturbed \cup Running
  /\ emitter' = [h \in Heights |-> Idle]
  /\ gathered' = <<>>
  /\ reader' = [r \in Readers |-> Idle]
  /\ UNCHANGED <<emitted, byHeight, byContract, ids, lastID, queries, raced>>

Next ==
  \/ \E events \in Blocks : Commit(events)
  \/ \E h \in Heights : Send(h) \/ Flush(h) \/ GetID(h) \/ MakeID(h) \/ SetID(h) \/ Write(h)
  \/ \E r \in Readers :
       \/ \E c \in Contracts \cup {AnyContract}, from, to \in Heights : ContractEvents(r, c, from, to)
       \/ QueryGetID(r) \/ QueryMakeID(r) \/ QuerySetID(r) \/ Answer(r)
  \/ Crash

Spec == Init /\ [][Next]_vars

-----------------------------------------------------------------------------
\* Properties

Asking == {r \in Readers : reader[r] # Idle /\ reader[r].at = "iterate"}

\* A query is answered with events of its blocks and its contract, each once,
\* whatever goroutines of blocks and queries run at the same time: an id is
\* never given to two contracts, and an event is flushed once.
AnswersTrue ==
  \A r \in Asking : LET q == reader[r] IN
    \A k \in FilterEvents(q) :
      /\ At(q, k).height \in q.from .. q.to
      /\ q.contract \in {At(q, k).contract, AnyContract}
      /\ \A l \in FilterEvents(q) : At(q, l) = At(q, k) => l = k

\* A query finds every event of a block whose goroutine is done, met no other
\* and did not die, unless the id of its contract was replaced, by one of two
\* threads that both found none: what is dispatched is indexed.
AnswersComplete ==
  \A r \in Asking : LET q == reader[r] IN
    \A h \in q.from .. q.to : h <= Len(emitted) /\ h \notin disturbed /\ emitter[h] = Idle =>
      \A e \in EventsAt(h) :
        q.contract \in {e.contract, AnyContract}
          /\ q.contract \notin raced
          => \E k \in FilterEvents(q) : At(q, k) = e

\* "contractID, blockHeight, and eventIndex are required for making a unique
\* keys" (eventstore.go): no event is saved under the key of another.
KeysUnique == [][\A k \in DOMAIN byHeight : byHeight'[k] = byHeight[k]]_vars

=============================================================================
