------------------------------ MODULE EthHubs ------------------------------
(***************************************************************************)
(* EthSubscriptionSet: the subscriptions of eth_subscribe.  Each of its    *)
(* three hubs remembers which subscribers a message went to since it was   *)
(* reset, and sends them no other.  The goroutines of blocks publish logs  *)
(* and heads, DeliverTx the hashes of transactions, and requests of        *)
(* websocket clients add and remove subscriptions.                         *)
(*                                                                         *)
(* Subscriptions are numbered as they are made.  What runs under the write *)
(* lock of a hub is atomic; Publish, which holds the read lock only, and   *)
(* addSubscriber, which takes none, go step by step.  Go may end a process *)
(* that uses a map in two threads, and a websocket panics when it is       *)
(* written by two.                                                         *)
(***************************************************************************)
EXTENDS Naturals, Sequences, FiniteSets, TLC

CONSTANTS
  Conns,       \* websocket connections
  Wanted,      \* the subscriptions clients ask for: a method and a topic
  Events,      \* topics of the events
  AnyTopic,    \* the filter that matches all
  MaxSubs,     \* bound on the subscriptions
  LastHeight,  \* bound on the number of blocks
  MaxEvents,   \* bound on the events of a block
  MaxTxs,      \* bound on the transactions
  MaxPanics,   \* bound on the panics of websockets
  Idle         \* no goroutine or no request

Heights == 1 .. LastHeight

\* The goroutines of the blocks and the thread of DeliverTx
Threads == 0 .. LastHeight

Hubs == {"logs", "newHeads", "newPendingTransactions"}

VARIABLES
  subs,        \* the subscribers made so far: method, topic and connection
  clients,     \* of each hub
  unsent,      \* of each hub
  request,     \* the request of each connection
  open,        \* the connections that are open
  blocks,      \* the topics of the events of committed blocks
  thread,      \* what each thread publishes
  txs, panics,
  halted,      \* the process has ended
  received,    \* what was written for each subscription
  removed,     \* history: subscriptions whose Remove has returned
  watchers,    \* history: the subscriptions there were when a block was committed
  disturbed    \* history: blocks whose goroutine met another or panicked

vars == <<subs, clients, unsent, request, open, blocks, thread, txs, panics, halted, received,
          removed, watchers, disturbed>>

Init ==
  /\ subs = <<>> /\ received = <<>>
  /\ clients = [m \in Hubs |-> {}] /\ unsent = [m \in Hubs |-> <<>>]
  /\ request = [c \in Conns |-> Idle] /\ open = Conns
  /\ blocks = <<>> /\ thread = [t \in Threads |-> Idle]
  /\ txs = 0 /\ panics = 0 /\ halted = FALSE
  /\ removed = {} /\ watchers = <<>> /\ disturbed = {}

-----------------------------------------------------------------------------
\* Requests of clients

\* addSubscriber puts the subscriber into one map of the hub, ...
EthSubscribe(c, want) ==
  LET id == Len(subs) + 1 IN
  /\ c \in open /\ request[c] = Idle /\ id <= MaxSubs
  /\ subs' = Append(subs, [method |-> want.method, topic |-> want.topic, conn |-> c])
  /\ received' = Append(received, <<>>)
  /\ clients' = [clients EXCEPT ![want.method] = @ \cup {id}]
  /\ request' = [request EXCEPT ![c] = [op |-> "add", id |-> id, hubs |-> <<want.method>>]]
  \* a Publish that iterates over the map may meet the new entry or not
  /\ \E S \in SUBSET {t \in Threads : thread[t] # Idle /\ thread[t].at = "publish"
                                        /\ thread[t].hub = want.method} :
       thread' = [t \in Threads |-> IF t \in S THEN [thread[t] EXCEPT !.left = @ \cup {id}]
                                               ELSE thread[t]]
  /\ UNCHANGED <<unsent, open, blocks, txs, panics, halted, removed, watchers, disturbed>>

\* ... then into the other.
Subscribed(c) ==
  /\ request[c] # Idle /\ request[c].op = "add"
  /\ unsent' = [unsent EXCEPT ![request[c].hubs[1]] = (request[c].id :> TRUE) @@ @]
  /\ request' = [request EXCEPT ![c] = Idle]
  /\ UNCHANGED <<subs, clients, open, blocks, thread, txs, panics, halted, received, removed,
                 watchers, disturbed>>

\* A client removes a subscription it was given: Remove asks each hub in turn.
EthUnsubscribe(c, id) ==
  /\ c \in open /\ request[c] = Idle /\ subs[id].conn = c
  /\ request' = [request EXCEPT ![c] =
       [op |-> "remove", id |-> id, hubs |-> <<"logs", "newHeads", "newPendingTransactions">>]]
  /\ UNCHANGED <<subs, clients, unsent, open, blocks, thread, txs, panics, halted, received, removed,
                 watchers, disturbed>>

\* No Publish holds the read lock of the hub.
Unlocked(m) == \A t \in Threads : ~(thread[t] # Idle /\ thread[t].at = "publish" /\ thread[t].hub = m)

Without(f, id) == [i \in DOMAIN f \ {id} |-> f[i]]

\* Mutated closeSubscription: the subscriber stays in one map.
closeSubscriptionKeeps(c) ==
  LET r == request[c]
      m == Head(r.hubs)
  IN
  /\ r # Idle /\ r.op = "remove" /\ Unlocked(m)
  /\ UNCHANGED <<clients, open, unsent>>
  /\ request' = [request EXCEPT ![c] = IF Len(r.hubs) = 1 THEN Idle ELSE [r EXCEPT !.hubs = Tail(@)]]
  /\ removed' = IF Len(r.hubs) = 1 THEN removed \cup {r.id} ELSE removed
  /\ UNCHANGED <<subs, blocks, thread, txs, panics, halted, received, watchers, disturbed>>

\* closeSubscription closes the connection, the other subscriptions of which stay.
closeSubscription(c) ==
  LET r == request[c]
      m == Head(r.hubs)
  IN
  /\ r # Idle /\ r.op = "remove" /\ Unlocked(m)
  /\ open' = IF r.id \in clients[m] THEN open \ {c} ELSE open
  /\ clients' = [clients EXCEPT ![m] = @ \ {r.id}]
  /\ unsent' = [unsent EXCEPT ![m] = Without(@, r.id)]
  /\ request' = [request EXCEPT ![c] = IF Len(r.hubs) = 1 THEN Idle ELSE [r EXCEPT !.hubs = Tail(@)]]
  /\ removed' = IF Len(r.hubs) = 1 THEN removed \cup {r.id} ELSE removed
  /\ UNCHANGED <<subs, blocks, thread, txs, panics, halted, received, watchers, disturbed>>

\* A client goes away; its subscriptions stay.
Disconnect(c) ==
  /\ c \in open
  /\ open' = open \ {c}
  /\ UNCHANGED <<subs, clients, unsent, request, blocks, thread, txs, panics, halted, received,
                 removed, watchers, disturbed>>

-----------------------------------------------------------------------------
\* What is published

Publisher(at, hub, msg) ==
  [at |-> at, hub |-> hub, msg |-> msg, left |-> {}, writing |-> 0]

Running == {h \in Heights : thread[h] # Idle}

\* Commit starts the goroutine of the block, whose EmitBlockTx resets the hub of logs.
Commit(events) ==
  LET h == Len(blocks) + 1 IN
  /\ h <= LastHeight
  /\ blocks' = Append(blocks, events)
  /\ thread' = [thread EXCEPT ![h] = Publisher("reset", "logs", <<h, 1>>)]
  /\ watchers' = Append(watchers, UNION {DOMAIN unsent[m] : m \in Hubs})
  /\ disturbed' = IF Running = {} THEN disturbed ELSE disturbed \cup Running \cup {h}
  /\ UNCHANGED <<subs, clients, unsent, request, open, txs, panics, halted, received, removed>>

\* DeliverTx: EmitTxEvent of a transaction
DeliverTx ==
  /\ thread[0] = Idle /\ txs < MaxTxs
  /\ txs' = txs + 1
  /\ thread' = [thread EXCEPT ![0] = Publisher("check", "newPendingTransactions", <<0, txs + 1>>)]
  /\ UNCHANGED <<subs, clients, unsent, request, open, blocks, panics, halted, received, removed,
                 watchers, disturbed>>

\* emitBlockEvent and emitTxEvent do nothing without subscribers.
Check(t) ==
  /\ thread[t] # Idle /\ thread[t].at = "check"
  /\ thread' = [thread EXCEPT ![t] = IF clients[@.hub] = {} THEN Idle ELSE [@ EXCEPT !.at = "reset"]]
  /\ UNCHANGED <<subs, clients, unsent, request, open, blocks, txs, panics, halted, received, removed,
                 watchers, disturbed>>

\* The logs of block h from the i-th on, and then its head
Following(h, i) ==
  IF i <= Len(blocks[h]) THEN Publisher("lock", "logs", <<h, i>>)
                         ELSE Publisher("check", "newHeads", <<h, 0>>)

AfterReset(t) ==
  IF thread[t].hub = "logs" THEN Following(t, 1) ELSE [thread[t] EXCEPT !.at = "lock"]

\* Mutated Reset: only the hub of logs is reset.
ResetLogs(t) ==
  /\ thread[t] # Idle /\ thread[t].at = "reset" /\ Unlocked(thread[t].hub)
  /\ unsent' = [unsent EXCEPT !["logs"] = [id \in DOMAIN @ |-> TRUE]]
  /\ thread' = [thread EXCEPT ![t] = AfterReset(t)]
  /\ UNCHANGED <<subs, clients, request, open, blocks, txs, panics, halted, received, removed,
                 watchers, disturbed>>

Reset(t) ==
  /\ thread[t] # Idle /\ thread[t].at = "reset" /\ Unlocked(thread[t].hub)
  /\ unsent' = [unsent EXCEPT ![thread[t].hub] = [id \in DOMAIN @ |-> TRUE]]
  /\ thread' = [thread EXCEPT ![t] = AfterReset(t)]
  /\ UNCHANGED <<subs, clients, request, open, blocks, txs, panics, halted, received, removed,
                 watchers, disturbed>>

\* Publish takes the read lock, ...
Publish(t) ==
  /\ thread[t] # Idle /\ thread[t].at = "lock"
  /\ thread' = [thread EXCEPT ![t].at = "publish", ![t].left = clients[thread[t].hub]]
  /\ UNCHANGED <<subs, clients, unsent, request, open, blocks, txs, panics, halted, received, removed,
                 watchers, disturbed>>

\* Match of topicSubscriber, whose topic is that of its hub, and of logSubscriber
Match(id, hub, msg) == hub = "logs" => subs[id].topic \in {AnyTopic, blocks[msg[1]][msg[2]]}

\* ... looks at each client, in any order, ...
Visit(t, id) ==
  /\ thread[t] # Idle /\ thread[t].at = "publish" /\ thread[t].writing = 0 /\ id \in thread[t].left
  /\ thread' = [thread EXCEPT ![t] =
       IF id \in DOMAIN unsent[@.hub] /\ unsent[@.hub][id] /\ Match(id, @.hub, @.msg)
         THEN [@ EXCEPT !.writing = id]
         ELSE [@ EXCEPT !.left = @ \ {id}]]
  /\ UNCHANGED <<subs, clients, unsent, request, open, blocks, txs, panics, halted, received, removed,
                 watchers, disturbed>>

\* Mutated Write: the hub does not remember that the message went out.
WriteForgets(t) ==
  /\ thread[t] # Idle /\ thread[t].writing # 0
  /\ LET id == thread[t].writing IN
     /\ received' = [received EXCEPT ![id] = IF subs[id].conn \in open THEN Append(@, thread[t].msg) ELSE @]
     /\ thread' = [thread EXCEPT ![t].left = @ \ {id}, ![t].writing = 0]
  /\ UNCHANGED <<subs, clients, unsent, request, open, blocks, txs, panics, halted, removed, watchers,
                 disturbed>>

\* ... writes to the websocket of a client that has had none, ...
Write(t) ==
  /\ thread[t] # Idle /\ thread[t].writing # 0
  /\ LET id == thread[t].writing IN
     /\ received' = [received EXCEPT ![id] = IF subs[id].conn \in open THEN Append(@, thread[t].msg) ELSE @]
     /\ unsent' = [unsent EXCEPT ![thread[t].hub] = (id :> FALSE) @@ @]
     /\ thread' = [thread EXCEPT ![t].left = @ \ {id}, ![t].writing = 0]
  /\ UNCHANGED <<subs, clients, request, open, blocks, txs, panics, halted, removed, watchers,
                 disturbed>>

\* ... and returns: to the next event, to the head, or to the end.
Published(t) ==
  /\ thread[t] # Idle /\ thread[t].at = "publish" /\ thread[t].left = {}
  /\ thread' = [thread EXCEPT ![t] = IF @.hub = "logs" THEN Following(t, @.msg[2] + 1) ELSE Idle]
  /\ UNCHANGED <<subs, clients, unsent, request, open, blocks, txs, panics, halted, received, removed,
                 watchers, disturbed>>

\* The websocket is written by another thread, such as its write pump, and
\* panics: EmitBlockTx recovers and skips the other events, while nothing
\* recovers a panic of the other two.
Panic(t) ==
  /\ thread[t] # Idle /\ thread[t].writing # 0 /\ panics < MaxPanics
  /\ panics' = panics + 1
  /\ \/ /\ thread[t].hub = "logs"
        /\ thread' = [thread EXCEPT ![t] = Publisher("check", "newHeads", <<t, 0>>)]
        /\ disturbed' = disturbed \cup {t}
        /\ UNCHANGED halted
     \/ /\ thread[t].hub # "logs"
        /\ halted' = TRUE
        /\ UNCHANGED <<thread, disturbed>>
  /\ UNCHANGED <<subs, clients, unsent, request, open, blocks, txs, received, removed, watchers>>

\* Threads that use the maps of a hub while another one writes them
Racing(m) ==
  LET P == {t \in Threads : thread[t] # Idle /\ thread[t].at = "publish" /\ thread[t].hub = m}
      A == {c \in Conns : request[c] # Idle /\ request[c].op = "add" /\ request[c].hubs[1] = m}
  IN  Cardinality(P) + Cardinality(A) > 1

\* Go ends the process when it notices.
Throw ==
  /\ \E m \in Hubs : Racing(m)
  /\ halted' = TRUE
  /\ UNCHANGED <<subs, clients, unsent, request, open, blocks, thread, txs, panics, received, removed,
                 watchers, disturbed>>

Blocks == UNION {[1 .. n -> Events] : n \in 0 .. MaxEvents}

Next ==
  /\ ~halted
  /\ \/ \E c \in Conns :
          \/ \E want \in Wanted : EthSubscribe(c, want)
          \/ \E id \in DOMAIN subs : EthUnsubscribe(c, id)
          \/ Subscribed(c) \/ closeSubscription(c) \/ Disconnect(c)
     \/ \E events \in Blocks : Commit(events)
     \/ DeliverTx
     \/ \E t \in Threads :
          \/ Check(t) \/ Reset(t) \/ Publish(t) \/ Write(t) \/ Published(t) \/ Panic(t)
          \/ \E id \in DOMAIN subs : Visit(t, id)
     \/ Throw

Spec == Init /\ [][Next]_vars

-----------------------------------------------------------------------------
\* Properties

\* A subscription gets no message twice, and none is being written for one
\* that was removed: closeSubscription waits for the Publish that runs, and no
\* later one meets the subscriber, in whichever hub it was.
ToldOnce ==
  /\ \A id \in DOMAIN subs : \A i, j \in DOMAIN received[id] :
       received[id][i] = received[id][j] => i = j
  /\ \A t \in Threads : thread[t] # Idle => thread[t].writing \notin removed

\* The events of block h a subscription to logs is about
Matching(id, h) == {i \in DOMAIN blocks[h] : Match(id, "logs", <<h, i>>)}

Got(id, h) == {i \in 0 .. MaxEvents : \E k \in DOMAIN received[id] : received[id][k] = <<h, i>>}

Removing(id) == \E c \in Conns : request[c] # Idle /\ request[c].op = "remove" /\ request[c].id = id

\* When the goroutine of a block is done that met no other and did not panic, a
\* subscription that was there before the block was committed, and whose
\* connection is open, has the head of the block, or the first of its events
\* that match, and no other of the block: what the hub remembers is of this
\* block.
BlockTold ==
  \A h \in DOMAIN blocks : h \notin disturbed /\ thread[h] = Idle =>
    \A id \in watchers[h] : subs[id].conn \in open /\ id \notin removed /\ ~Removing(id) =>
      /\ subs[id].method = "newHeads" => 0 \in Got(id, h)
      /\ subs[id].method = "logs" =>
           Got(id, h) = {i \in Matching(id, h) : \A j \in Matching(id, h) : i <= j}

=============================================================================
