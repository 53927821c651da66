------------------------------- MODULE MCNode --------------------------------
(* What a node does in the background and with its stores, one part of it at*)
(* a time, in one run of TLC.                                              *)
EXTENDS IAVLStore, Sequences

CONSTANTS
  k1, k2, v1, v2, r1, r2, Nil, NotRead, NoSnap, Idle, n1, n2, f1, f2,
  NoFeature, NoEmitter, c1, c2, t1, t2, contract, system, Free

VARIABLES
  part,  \* the part of the system this behaviour is about
  kind, tree, trees, values, dirty, saved, header, writer, snap, crashes,  \* AppStore
  source, cache, cacheWriter, reader, cacheErrors,  \* CachingStore
  height, inBlock, committed, stash, emitter, sent, lost, eventCrashes,  \* BlockEvents
  topics, clients, lock, call,  \* SubscriptionSet
  features, params, active, validators, build, stopped, routine, calls  \* ChainConfig

appVars == <<kind, tree, trees, values, dirty, saved, header, writer, snap, crashes>>
cacheVars == <<source, cache, cacheWriter, reader, cacheErrors>>
eventVars == <<height, inBlock, committed, stash, emitter, sent, lost, eventCrashes>>
subsVars == <<topics, clients, lock, call>>
configVars == <<features, params, active, validators, build, stopped, routine, calls>>

allVars == <<part, vars, appVars, cacheVars, eventVars, subsVars, configVars>>

-----------------------------------------------------------------------------
\* The parts

\* IAVLStore, which is pruned by Commit.
OnCommit == INSTANCE IAVLStore WITH
  Background <- FALSE, BatchSize <- 1, LastVersion <- 9

\* MultiReaderIAVLStore with SnapshotVersion 1.
Values == INSTANCE AppStore WITH
  Keys <- {k1, k2}, Vals <- {v1, v2}, Readers <- {r1}, Kinds <- {"db"}, Fresh
  <- FALSE, LastVersion <- 2, MaxCrashes <- 1

\* MultiReaderIAVLStore with SnapshotVersion 2 and 3.
Trees == INSTANCE AppStore WITH
  Keys <- {k1, k2}, Vals <- {v1, v2}, Readers <- {r1}, Kinds <- {"hybrid",
  "tree"}, Fresh <- FALSE, LastVersion <- 2, MaxCrashes <- 1

\* The same over more blocks, with one key.
Blocks == INSTANCE AppStore WITH
  Keys <- {k1}, Vals <- {v1}, Readers <- {r1}, Kinds <- {"hybrid", "tree"},
  Fresh <- FALSE, LastVersion <- 4, MaxCrashes <- 1

\* CachingStore, with two query threads.
Cache == INSTANCE CachingStore WITH
  writer <- cacheWriter, errors <- cacheErrors, Keys <- {k1}, Vals <- {v1,
  v2}, Readers <- {r1, r2}, MaxErrors <- 1

\* Two features validators vote for automatically.
Auto == INSTANCE ChainConfig WITH
  Nodes <- {n1, n2}, ValidatorSets <- {{n1, n2}}, Features <- {f1, f2}, Builds
  <- {1, 2}, ParamChoices <- {[threshold |-> 67, confirmations |-> 1]},
  MaxOwnerCalls <- 2, MaxElections <- 0, MaxManualVotes <- 1

\* The events of two blocks and a crash.
Events == INSTANCE BlockEvents WITH
  crashes <- eventCrashes, LastHeight <- 2, MaxEvents <- 2, MaxCrashes <- 1

\* Two websocket clients that keep the topic every client gets, and two
\* requests at a time.
Subs == INSTANCE SubscriptionSet WITH
  Clients <- {c1, c2}, Threads <- {t1, t2}, Topics <- {contract}, System <-
  system, Removable <- {contract}

-----------------------------------------------------------------------------
\* AppStore is not looked at.
AppOff ==
  /\ kind = "off" /\ tree = "off" /\ trees = "off" /\ values = "off"
  /\ dirty = "off" /\ saved = "off" /\ header = "off" /\ writer = "off"
  /\ snap = "off" /\ crashes = "off"

\* CachingStore is not looked at.
CacheOff ==
  /\ source = "off" /\ cache = "off" /\ cacheWriter = "off" /\ reader = "off"
  /\ cacheErrors = "off"

\* BlockEvents is not looked at.
EventOff ==
  /\ height = "off" /\ inBlock = "off" /\ committed = "off" /\ stash = "off"
  /\ emitter = "off" /\ sent = "off" /\ lost = "off" /\ eventCrashes = "off"

\* SubscriptionSet is not looked at.
SubsOff ==
  /\ topics = "off" /\ clients = "off" /\ lock = "off" /\ call = "off"

\* ChainConfig is not looked at.
ConfigOff ==
  /\ features = "off" /\ params = "off" /\ active = "off" /\ validators = "off"
  /\ build = "off" /\ stopped = "off" /\ routine = "off" /\ calls = "off"

NodeInit ==
  /\ Init
  /\ \/ part = "background" /\ AppOff /\ CacheOff /\ EventOff /\ SubsOff /\
          ConfigOff
     \/ part = "commit" /\ AppOff /\ CacheOff /\ EventOff /\ SubsOff /\
          ConfigOff
     \/ part = "values" /\ Values!Init /\ CacheOff /\ EventOff /\ SubsOff /\
          ConfigOff
     \/ part = "trees" /\ Trees!Init /\ CacheOff /\ EventOff /\ SubsOff /\
          ConfigOff
     \/ part = "blocks" /\ Blocks!Init /\ CacheOff /\ EventOff /\ SubsOff /\
          ConfigOff
     \/ part = "cache" /\ Cache!Init /\ AppOff /\ EventOff /\ SubsOff /\
          ConfigOff
     \/ part = "auto" /\ Auto!Init /\ AppOff /\ CacheOff /\ EventOff /\
          SubsOff
     \/ part = "events" /\ Events!Init /\ AppOff /\ CacheOff /\ SubsOff /\
          ConfigOff
     \/ part = "subs" /\ Subs!Init /\ AppOff /\ CacheOff /\ EventOff /\
          ConfigOff

NodeNext ==
  \/ part = "background" /\ Next
     /\ UNCHANGED <<part, appVars, cacheVars, eventVars, subsVars, configVars>>
  \/ part = "commit" /\ OnCommit!Next
     /\ UNCHANGED <<part, appVars, cacheVars, eventVars, subsVars, configVars>>
  \/ part = "values" /\ Values!Next
     /\ UNCHANGED <<part, vars, cacheVars, eventVars, subsVars, configVars>>
  \/ part = "trees" /\ Trees!Next
     /\ UNCHANGED <<part, vars, cacheVars, eventVars, subsVars, configVars>>
  \/ part = "blocks" /\ Blocks!Next
     /\ UNCHANGED <<part, vars, cacheVars, eventVars, subsVars, configVars>>
  \/ part = "cache" /\ Cache!Next
     /\ UNCHANGED <<part, vars, appVars, eventVars, subsVars, configVars>>
  \/ part = "auto" /\ Auto!Next
     /\ UNCHANGED <<part, vars, appVars, cacheVars, eventVars, subsVars>>
  \/ part = "events" /\ Events!Next
     /\ UNCHANGED <<part, vars, appVars, cacheVars, subsVars, configVars>>
  \/ part = "subs" /\ Subs!Next
     /\ UNCHANGED <<part, vars, appVars, cacheVars, eventVars, configVars>>

\* The Go scheduler runs every goroutine, a mutex of Go does not starve one,
\* the routine of a validator runs by a timer, and blocks are made while a
\* quorum of validators runs.
NodeFairness ==
  /\ WF_vars(part = "background" /\ PruneBatch)
  /\ WF_cacheVars(part = "cache" /\ Cache!WriteSource)
  /\ \A r \in {r1, r2} : WF_cacheVars(part = "cache" /\ Cache!ReadSource(r))
  /\ \A r \in {r1, r2} : WF_cacheVars(part = "cache" /\ Cache!Fill(r))
  /\ \A k \in {k1} : WF_cacheVars(part = "cache" /\ Cache!Evict(k))
  /\ WF_configVars(part = "auto" /\ Auto!BeginBlock)
  /\ \A n \in {n1, n2} : WF_configVars(part = "auto" /\ Auto!ListFeatures(n))
  /\ \A n \in {n1, n2} : WF_configVars(part = "auto" /\ Auto!VoteToEnablePendingFeatures(n))
  /\ \A h \in 1 .. 2 : WF_eventVars(part = "events" /\ Events!Fetch(h))
  /\ \A h \in 1 .. 2 : WF_eventVars(part = "events" /\ Events!Send(h))
  /\ \A h \in 1 .. 2 : WF_eventVars(part = "events" /\ Events!Purge(h))
  /\ \A t \in {t1, t2} : SF_subsVars(part = "subs" /\ Subs!Step(t))

NodeSpec == NodeInit /\ [][NodeNext]_allVars /\ NodeFairness

-----------------------------------------------------------------------------
\* Properties

\* The pruning thread of PruningIAVLStore leaves no version behind that it
\* will not come back to, restarted or with deletions that fail, and however
\* many pile up it gets down to the configured number again.
Pruned ==
  /\ [](part = "background" => NothingLeftBehind)
  /\ []<>(part = "background" => Cardinality(versions) <= Kept)

\* A block starts from the state that was saved, in both DBs of a
\* MultiReaderIAVLStore, wherever the node crashed before.
StartsInSync ==
  /\ part \in {"values", "trees"} => Values!StartsInSync
  /\ part = "blocks" => Blocks!StartsInSync

\* All that a query reads through a snapshot is from one saved version with
\* SnapshotVersion 1, and is saved with 2 and 3, whatever is written and
\* saved meanwhile; and the header ReadOnlyState pairs with it is at most one
\* block behind.
SnapshotConsistent ==
  /\ part = "values" => Values!SnapshotConsistent
  /\ part = "trees" => Trees!ReadsCommitted
  /\ part = "blocks" => Blocks!ReadsCommitted /\ Blocks!HeaderAtMostOneBehind

\* An entry of CachingStore becomes stale only when a query puts it there or
\* the cache refuses a call, never by Set or Delete; and however it became
\* stale, queries do not see it for ever.
StaleExpires ==
  /\ [][part = "cache" => Cache!StaleOnlyByFill]_cacheVars
  /\ part = "cache" /\ ~Cache!Current(k1) ~> (part = "cache" => Cache!Current(k1))

\* A feature that is to be enabled automatically, and that the builds of all
\* validators support, is activated in the end unless the owner removes it:
\* transactions of the routine that other votes and removals have made stale
\* are sent again.
AutoEnabled ==
  \A f \in {f1, f2} :
    (part = "auto" /\ Auto!Has(f) /\ features[f].auto /\ Auto!Supportable(f))
      ~> (part = "auto" => ~Auto!Has(f) \/ Auto!In(f, "ENABLED") \/ ~Auto!Supportable(f))

\* Once a block is committed the events of its transactions are dispatched,
\* unless the node crashes first; they leave the stash of the block only
\* then, and the index of each is its place in the stash, though the next
\* block posts its own meanwhile.
EventsDispatched ==
  /\ [][part = "events" => Events!PurgedOnlyWhenSent]_eventVars
  /\ [](part = "events" => Events!IndexIsPosition)
  /\ \A h \in 1 .. 2 : \A k \in 1 .. 2 :
       (part = "events" /\ committed = h /\ emitter[h] # NoEmitter /\ Events!ExecutedIn(stash[h]) = k)
         ~> (part = "events" => Events!ExecutedIn(sent[h]) = k \/ h \in lost)

\* Every method of SubscriptionSet returns as long as clients keep the topic
\* every client gets: the lock is always released, however requests
\* interleave.
CallsReturn == \A t \in {t1, t2} : part = "subs" /\ call[t] # Idle ~> (part = "subs" => call[t] = Idle)

=============================================================================
