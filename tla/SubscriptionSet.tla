--------------------------- MODULE SubscriptionSet ---------------------------
(***************************************************************************)
(* SubscriptionSet, the websocket clients that are subscribed to the       *)
(* events of a node.  Its methods are called by one goroutine per RPC      *)
(* request and hold a lock that is not reentrant.                          *)
(***************************************************************************)
EXTENDS FiniteSets

CONSTANTS
  Clients, Threads,  \* remote addresses, goroutines of RPC requests
  Topics, System,    \* topics of contracts, and the topic of new subscribers
  Removable,         \* the topics that clients unsubscribe from
  Free, Idle         \* nobody holds the lock, a goroutine without a request

VARIABLES
  topics,  \* the topics of each client in the set; clients not in the set have none
  clients, \* the clients in the set
  lock,    \* the goroutine that holds the lock
  call     \* the method each goroutine is in

vars == <<topics, clients, lock, call>>

Init ==
  /\ topics = [c \in Clients |-> {}]
  /\ clients = {}
  /\ lock = Free
  /\ call = [t \in Threads |-> Idle]

\* A request arrives.
Request(t, op, c, topic) ==
  /\ call[t] = Idle
  /\ call' = [call EXCEPT ![t] = [op |-> op, id |-> c, topic |-> topic]]
  /\ UNCHANGED <<topics, clients, lock>>

In(t, op) == call[t] # Idle /\ call[t].op = op

Return(t) == call' = [call EXCEPT ![t] = Idle]

\* For, a new subscriber gets the system topic.
For(t) ==
  /\ In(t, "For") /\ lock = Free
  /\ clients' = clients \cup {call[t].id}
  /\ topics' = [topics EXCEPT ![call[t].id] = IF call[t].id \in clients THEN @ ELSE {System}]
  /\ Return(t) /\ UNCHANGED lock

AddSubscription(t) ==
  /\ In(t, "Add") /\ lock = Free
  /\ topics' = IF call[t].id \in clients
                 THEN [topics EXCEPT ![call[t].id] = @ \cup {call[t].topic}]
                 ELSE topics
  /\ Return(t) /\ UNCHANGED <<clients, lock>>

Purge(t) ==
  /\ In(t, "Purge") /\ lock = Free
  /\ clients' = clients \ {call[t].id}
  /\ topics' = [topics EXCEPT ![call[t].id] = {}]
  /\ Return(t) /\ UNCHANGED lock

\* Purge when a websocket closes: QueryEventBus holds a copy of the set, which
\* shares the clients and has a lock of its own.
BusPurge(t) ==
  /\ In(t, "BusPurge")
  /\ clients' = clients \ {call[t].id}
  /\ topics' = [topics EXCEPT ![call[t].id] = {}]
  /\ Return(t) /\ UNCHANGED lock

\* Mutated Remove: the lock is not released when the client is not found.
RemoveLeavesLocked(t) ==
  /\ In(t, "Remove") /\ lock = Free
  /\ LET left == topics[call[t].id] \ {call[t].topic} IN
     IF call[t].id \notin clients
       THEN Return(t) /\ lock' = t /\ UNCHANGED topics
       ELSE /\ topics' = [topics EXCEPT ![call[t].id] = left]
            /\ IF left = {}
                 THEN lock' = t /\ call' = [call EXCEPT ![t].op = "Purge"]
                 ELSE Return(t) /\ UNCHANGED lock
  /\ UNCHANGED clients

\* Remove: with the last topic gone Purge is called with the lock held.
Remove(t) ==
  /\ In(t, "Remove") /\ lock = Free
  /\ LET left == topics[call[t].id] \ {call[t].topic} IN
     IF call[t].id \notin clients
       THEN Return(t) /\ UNCHANGED <<topics, lock>>
       ELSE /\ topics' = [topics EXCEPT ![call[t].id] = left]
            /\ IF left = {}
                 THEN lock' = t /\ call' = [call EXCEPT ![t].op = "Purge"]
                 ELSE Return(t) /\ UNCHANGED lock
  /\ UNCHANGED clients

Step(t) == For(t) \/ AddSubscription(t) \/ Purge(t) \/ BusPurge(t) \/ Remove(t)

Next ==
  \E t \in Threads :
    \/ \E c \in Clients :
         \/ Request(t, "For", c, System)
         \/ Request(t, "Purge", c, System) \/ Request(t, "BusPurge", c, System)
         \/ \E topic \in Topics : Request(t, "Add", c, topic)
         \/ \E topic \in Removable : Request(t, "Remove", c, topic)
    \/ Step(t)

Spec == Init /\ [][Next]_vars

\* A mutex of Go does not starve a goroutine that waits for it.
FairSpec == Spec /\ \A t \in Threads : SF_vars(Step(t))

-----------------------------------------------------------------------------
\* Properties

\* Types, and that a client that is not in the set has no topics: subscriptions
\* of For and AddSubscription go with Purge.
TypeOK ==
  /\ topics \in [Clients -> SUBSET (Topics \cup {System})]
  /\ \A c \in Clients \ clients : topics[c] = {}
  /\ clients \subseteq Clients
  /\ lock \in Threads \cup {Free}
  /\ \A t \in Threads : call[t] # Idle => call[t].id \in Clients

\* "if this is the only topic the subscriber was subscribed to then the
\* subscriber is removed from the set": a client without topics leaves the set.
RemovedWithLastTopic == \A c \in Clients : c \in clients /\ topics[c] = {} ~> c \notin clients

=============================================================================
