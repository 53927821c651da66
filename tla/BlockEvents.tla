----------------------------- MODULE BlockEvents -----------------------------
(***************************************************************************)
(* The events contracts emit: EmitTopics puts them into the stash of their *)
(* block, from DeliverTx and from CheckTx, and a goroutine that Commit     *)
(* starts for each block fetches, dispatches and purges them while the     *)
(* next blocks are executed.                                               *)
(***************************************************************************)
EXTENDS Integers, Sequences, FiniteSets, SequencesExt

CONSTANTS
  LastHeight,  \* bound on the number of blocks
  MaxEvents,   \* bound on the events of a block
  MaxCrashes,  \* bound on crashes
  NoEmitter    \* no goroutine for a block

Heights == 1 .. LastHeight

\* An event of a transaction that was executed, of one that failed after it had
\* emitted the event, and of a transaction that CheckTx tried.
Kinds == {"executed", "failed", "checked"}

VARIABLES
  height,     \* the height of curBlockHeader, zero after a restart
  inBlock,    \* whether BeginBlock was called and Commit was not
  committed,  \* the version of the app store
  stash,      \* the events of each height
  emitter,    \* for each height the goroutine: what it fetched and how many it sent
  sent,       \* for each height the events dispatched, by index
  lost,       \* history: heights whose goroutine died in a crash
  crashes     \* crashes so far

vars == <<height, inBlock, committed, stash, emitter, sent, lost, crashes>>

Init ==
  /\ height = 0 /\ inBlock = FALSE /\ committed = 0
  /\ stash = [h \in Heights |-> <<>>]
  /\ emitter = [h \in Heights |-> NoEmitter]
  /\ sent = [h \in Heights |-> <<>>]
  /\ lost = {} /\ crashes = 0

BeginBlock ==
  /\ ~inBlock /\ committed < LastHeight
  /\ height' = committed + 1
  /\ inBlock' = TRUE
  /\ UNCHANGED <<committed, stash, emitter, sent, lost, crashes>>

\* Post, by a contract that DeliverTx or CheckTx runs.  Nothing takes the event
\* back when the transaction is rolled back.
Post(kind) ==
  /\ height # 0 /\ (kind # "checked" => inBlock)
  /\ Len(stash[height]) < MaxEvents
  /\ stash' = [stash EXCEPT ![height] = Append(@, kind)]
  /\ UNCHANGED <<height, inBlock, committed, emitter, sent, lost, crashes>>

Commit ==
  /\ inBlock
  /\ committed' = height
  /\ inBlock' = FALSE
  /\ emitter' = [emitter EXCEPT ![height] = [at |-> "fetch", msgs |-> <<>>, sent |-> 0]]
  /\ UNCHANGED <<height, stash, sent, lost, crashes>>

\* Mutated EmitBlockTx: it takes the height of the block that is being executed.
FetchCurrent(h) ==
  /\ emitter[h] # NoEmitter /\ emitter[h].at = "fetch" /\ height # 0
  /\ emitter' = [emitter EXCEPT ![h] = [@ EXCEPT !.at = "send", !.msgs = stash[height]]]
  /\ UNCHANGED <<height, inBlock, committed, stash, sent, lost, crashes>>

\* EmitBlockTx: fetch ...
Fetch(h) ==
  /\ emitter[h] # NoEmitter /\ emitter[h].at = "fetch"
  /\ emitter' = [emitter EXCEPT ![h] = [@ EXCEPT !.at = "send", !.msgs = stash[h]]]
  /\ UNCHANGED <<height, inBlock, committed, stash, sent, lost, crashes>>

\* Mutated EmitBlockTx: it returns at the first event it cannot dispatch.
SendUntilError(h) ==
  /\ emitter[h] # NoEmitter /\ emitter[h].sent < Len(emitter[h].msgs)
  /\ LET msg == emitter[h].msgs[emitter[h].sent + 1] IN
     IF msg = "failed"
       THEN emitter' = [emitter EXCEPT ![h] = NoEmitter] /\ UNCHANGED sent
       ELSE /\ sent' = [sent EXCEPT ![h] = Append(@, msg)]
            /\ emitter' = [emitter EXCEPT ![h].sent = @ + 1]
  /\ UNCHANGED <<height, inBlock, committed, stash, lost, crashes>>

\* ... dispatch one by one, whatever the dispatcher returns ...
Send(h) ==
  /\ emitter[h] # NoEmitter /\ emitter[h].sent < Len(emitter[h].msgs)
  /\ sent' = [sent EXCEPT ![h] = Append(@, emitter[h].msgs[emitter[h].sent + 1])]
  /\ emitter' = [emitter EXCEPT ![h].sent = @ + 1]
  /\ UNCHANGED <<height, inBlock, committed, stash, lost, crashes>>

\* Mutated purge: the stash of all blocks is dropped.
PurgeAll(h) ==
  /\ emitter[h] # NoEmitter /\ emitter[h].at = "send" /\ emitter[h].sent = Len(emitter[h].msgs)
  /\ stash' = [g \in Heights |-> <<>>]
  /\ emitter' = [emitter EXCEPT ![h] = NoEmitter]
  /\ UNCHANGED <<height, inBlock, committed, sent, lost, crashes>>

\* ... and purge.
Purge(h) ==
  /\ emitter[h] # NoEmitter /\ emitter[h].at = "send" /\ emitter[h].sent = Len(emitter[h].msgs)
  /\ stash' = [stash EXCEPT ![h] = <<>>]
  /\ emitter' = [emitter EXCEPT ![h] = NoEmitter]
  /\ UNCHANGED <<height, inBlock, committed, sent, lost, crashes>>

\* A restart: a block that was not committed is executed again, the goroutines
\* of those that were are not started again.
Crash ==
  /\ crashes < MaxCrashes /\ crashes' = crashes + 1
  /\ lost' = lost \cup {h \in Heights : emitter[h] # NoEmitter}
  /\ height' = 0 /\ inBlock' = FALSE
  /\ stash' = [h \in Heights |-> <<>>]
  /\ emitter' = [h \in Heights |-> NoEmitter]
  /\ UNCHANGED <<committed, sent>>

Next ==
  \/ BeginBlock \/ Commit \/ Crash
  \/ \E kind \in Kinds : Post(kind)
  \/ \E h \in Heights : Fetch(h) \/ Send(h) \/ Purge(h)

Spec == Init /\ [][Next]_vars

-----------------------------------------------------------------------------
\* Properties

\* Types, and the height events are stashed at: the block after the last one
\* committed inside a block, and never a later one outside.
TypeOK ==
  /\ inBlock \in BOOLEAN
  /\ IF inBlock THEN height = committed + 1 ELSE height \in {0, committed}
  /\ committed \in 0 .. LastHeight
  /\ \A h \in Heights :
       /\ Len(stash[h]) <= MaxEvents /\ \A i \in DOMAIN stash[h] : stash[h][i] \in Kinds
       /\ emitter[h] # NoEmitter => emitter[h].at \in {"fetch", "send"}
       /\ Len(sent[h]) <= MaxEvents
  /\ lost \subseteq 1 .. committed
  /\ crashes \in 0 .. MaxCrashes

ExecutedIn(events) == Cardinality({i \in DOMAIN events : events[i] = "executed"})

\* EmitBlockTx of one block never takes events from another, nor loses one
\* that a transaction of its block has emitted: events only leave the stash of a
\* block when the goroutine of that block has dispatched them.
PurgedOnlyWhenSent ==
  \A h \in Heights :
    ExecutedIn(stash[h]) > ExecutedIn(stash'[h]) /\ crashes' = crashes =>
      ExecutedIn(sent[h]) = ExecutedIn(stash[h])

\* The index an event is dispatched with is its place in the stash of its block,
\* so the DB indexer and the Redis queue never see two events with one index.
IndexIsPosition ==
  \A h \in Heights : emitter[h] # NoEmitter /\ emitter[h].at = "send" =>
    /\ IsPrefix(emitter[h].msgs, stash[h])
    /\ sent[h] = SubSeq(emitter[h].msgs, 1, emitter[h].sent)

=============================================================================
