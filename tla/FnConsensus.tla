----------------------------- MODULE FnConsensus -----------------------------
(***************************************************************************)
(* The fn-consensus reactor (src/fnConsensus/reactor.go, store.go): every  *)
(* validator obtains a message from a registered Fn, signs its hash, and   *)
(* the validators gossip vote sets until a threshold of the voting power   *)
(* has voted; one of them then submits the multi-signed message.           *)
(*                                                                         *)
(* One Fn is modelled: the reactor's maps are keyed by Fn and a handler    *)
(* touches the entries of one Fn only.  A node runs three kinds of         *)
(* threads: the vote routine, the commit routine, and the handlers of      *)
(* received messages.  A critical section of stateMtx is one step; the     *)
(* routines read state before they lock, so each of them has two steps.    *)
(***************************************************************************)
EXTENDS FnVoteSet

CONSTANTS
  Topology,       \* the pairs {m, n} of nodes that dial each other
  InitialPeers,   \* those of them that are connected at the start
  NoVoteSet, NoValSet, Idle,
  FnErrors,       \* may GetMessageAndSignature or MapMessage return an error?
  SignErrors,     \* may the private validator fail to sign?
  Starters,       \* bound: the nodes whose vote timer fires
  Committers,     \* bound: the nodes whose commit timer fires
  MaxNonce,       \* bound: no vote is started past this nonce
  MaxFaults,      \* bound on crashes and lost connections
  QueueCap        \* bound: messages in flight per peer and channel

\* What vote() carries from the check to the lock.
Votings == UNION {[vals : {vals}, index : DOMAIN vals, hash : Hashes] :
                    vals \in ValidatorSets}

ASSUME ReactorAssumption ==
  /\ FnErrors \in BOOLEAN /\ SignErrors \in BOOLEAN
  /\ MaxNonce \in Nat /\ MaxFaults \in Nat /\ QueueCap \in Nat \ {0}
  /\ NoVoteSet \notin VoteSets
  /\ NoValSet \notin ValidatorSets
  /\ Idle \notin Votings /\ Idle \notin Nat
  /\ Topology \subseteq {{m, n} : m, n \in Nodes}
  /\ InitialPeers \subseteq Topology

VARIABLES
  state,       \* node -> ReactorState in memory
  disk,        \* node -> ReactorState last saved by SaveReactorState
  epoch,       \* node -> position in ValHistory of the TM state it has loaded
  peers,       \* the connected pairs of nodes
  net,         \* link -> vote sets sent and not yet received, in order
  voting,      \* node -> what the vote routine holds between its two locks
  committing,  \* node -> epoch in which the commit routine began, or Idle
  mapped,      \* node -> hashes whose message BatchSignWithdrawalFn remembers
  signed,      \* history: the signatures ever made
  submitted,   \* history: the multi-signed messages handed to the Fn
  faults       \* crashes and lost connections so far

vars == <<state, disk, epoch, peers, net, voting, committing, mapped, signed,
          submitted, faults>>

\* nonce 0 stands for a key missing from CurrentNonces
ReactorStates ==
  [cur      : VoteSets \cup {NoVoteSet},
   nonce    : Nat,
   prevMaj  : VoteSets \cup {NoVoteSet},
   prevVals : ValidatorSets \cup {NoValSet}]

\* A connection carries each channel in order.
Links == [ch : {"VoteSet", "Maj"}, from : Nodes, to : Nodes]

Submissions == [node : Nodes, nonce : Nat, vals : ValidatorSets, hash : Hashes,
                agree : SUBSET Nat]

NewReactorState ==
  [cur |-> NoVoteSet, nonce |-> 0, prevMaj |-> NoVoteSet, prevVals |-> NoValSet]

Init ==
  /\ state      = [n \in Nodes |-> NewReactorState]
  /\ disk       = [n \in Nodes |-> NewReactorState]
  /\ epoch      = [n \in Nodes |-> 1]
  /\ peers      = InitialPeers
  /\ net        = [l \in Links |-> <<>>]
  /\ voting     = [n \in Nodes |-> Idle]
  /\ committing = [n \in Nodes |-> Idle]
  /\ mapped     = [n \in Nodes |-> {}]
  /\ signed     = {}
  /\ submitted  = {}
  /\ faults     = 0

-----------------------------------------------------------------------------
\* currentNonce, with the default the handlers use when the key is missing
NonceOf(s) == IF s.nonce = 0 THEN 1 ELSE s.nonce

\* handleVoteSetChannelMessage stores the default in CurrentNonces.
WithNonce(s) == [s EXCEPT !.nonce = NonceOf(s)]

\* getValidatorSet
ValSetOf(n) == ValHistory[epoch[n]]

\* A validator set read before stateMtx is taken may be one change old.
ReadBeforeLock(n) == {ValHistory[e] : e \in {epoch[n], epoch[n] - 1} \cap DOMAIN ValHistory}

\* broadcastMsgSync: peer.Send gives up on a peer whose send queue is full.
Broadcast(q, n, ch, vs, except) ==
  [l \in Links |->
     IF /\ l.ch = ch /\ l.from = n
        /\ {n, l.to} \in peers /\ l.to \notin except
        /\ Len(q[l]) < QueueCap
       THEN Append(q[l], vs)
       ELSE q[l]]

\* The messages in flight between the two ends of a connection go with it.
DropLinks(q, pairs) == [l \in Links |-> IF {l.from, l.to} \in pairs THEN <<>> ELSE q[l]]

\* SubmitMultiSignedMessage drops a hash whose message it does not remember.
Submit(n, vs, vals) ==
  {[node |-> n, nonce |-> vs.nonce, vals |-> vals, hash |-> h, agree |-> AgreeVotes(vs, h)] :
     h \in MajHashes(vs, vals) \cap mapped[n]}

-----------------------------------------------------------------------------
\* voteRoutine reads the validator set, then finds no vote set in progress;
\* vote() gets and maps a message, all of it without the lock it takes to finish.
\* An error of the Fn leaves no trace.
VoteBegin(n) ==
  /\ n \in Starters
  /\ voting[n] = Idle
  /\ state[n].cur = NoVoteSet
  /\ NonceOf(state[n]) <= MaxNonce
  /\ \E vals \in ReadBeforeLock(n) : \E i \in IndexOf(vals, n), h \in Hashes :
       /\ voting' = [voting EXCEPT ![n] = [vals |-> vals, index |-> i, hash |-> h]]
       /\ mapped' = [mapped EXCEPT ![n] = @ \cup {h}]
  /\ UNCHANGED <<state, disk, epoch, peers, net, committing, signed, submitted, faults>>

\* vote() after it has locked: it does not look at the vote set in progress.
VoteFinish(n) ==
  /\ voting[n] # Idle
  /\ LET v  == voting[n]
         vs == NewVoteSet(n, NonceOf(state[n]), v.vals, v.index, v.hash)
         s  == [state[n] EXCEPT !.cur = vs]
     IN  /\ signed' = signed \cup {vs.sigs[v.index]}
         /\ IF MajHashes(vs, v.vals) # {}
              THEN /\ submitted' = submitted \cup Submit(n, vs, v.vals)
                   /\ UNCHANGED <<state, disk, net>>
              ELSE /\ state' = [state EXCEPT ![n] = s]
                   /\ disk'  = [disk EXCEPT ![n] = s]
                   /\ net'   = Broadcast(net, n, "VoteSet", vs, {})
                   /\ UNCHANGED submitted
  /\ voting' = [voting EXCEPT ![n] = Idle]
  /\ UNCHANGED <<epoch, peers, committing, mapped, faults>>

\* NewVoteSet fails because the private validator does.
VoteSignFails(n) ==
  /\ SignErrors
  /\ voting[n] # Idle
  /\ voting' = [voting EXCEPT ![n] = Idle]
  /\ UNCHANGED <<state, disk, epoch, peers, net, committing, mapped, signed, submitted, faults>>

-----------------------------------------------------------------------------
\* commitRoutine finds a vote set in progress and releases the lock.
CommitBegin(n) ==
  /\ n \in Committers
  /\ committing[n] = Idle
  /\ state[n].cur # NoVoteSet
  /\ committing' = [committing EXCEPT ![n] = epoch[n]]
  /\ UNCHANGED <<state, disk, epoch, peers, net, voting, mapped, signed, submitted, faults>>

\* commit() reads the validator set some time before it locks again.
CommitValSets(n) == {ValHistory[e] : e \in committing[n] .. epoch[n]}

\* What the outcomes of commit() share.
CommitStep(n) ==
  /\ committing[n] # Idle
  /\ state[n].cur # NoVoteSet
  /\ committing' = [committing EXCEPT ![n] = Idle]
  /\ UNCHANGED <<epoch, peers, voting, mapped, signed, faults>>

\* The vote set is not valid for the validator set: it is deleted.
CommitInvalid(n) ==
  /\ CommitStep(n)
  /\ \E vals \in CommitValSets(n) : ~IsValid(state[n].cur, vals)
  /\ LET s == [state[n] EXCEPT !.cur = NoVoteSet]
     IN  /\ state' = [state EXCEPT ![n] = s]
         /\ disk'  = [disk EXCEPT ![n] = s]
  /\ UNCHANGED <<net, submitted>>

\* Mutated: only the current votes are sent again.
SendCurrentOnly(n) ==
  IF state[n].prevMaj = NoVoteSet
    THEN net
    ELSE Broadcast(net, n, "VoteSet", state[n].cur, {})

\* The last majority, then the current votes, if there has been a majority.
SendAgain(n) ==
  IF state[n].prevMaj = NoVoteSet
    THEN net
    ELSE Broadcast(Broadcast(net, n, "Maj", state[n].prevMaj, {}),
                   n, "VoteSet", state[n].cur, {})

\* No consensus yet.
CommitPending(n) ==
  /\ CommitStep(n)
  /\ \E vals \in CommitValSets(n) :
       IsValid(state[n].cur, vals) /\ ~HasConverged(state[n].cur, vals)
  /\ net' = SendAgain(n)
  /\ disk' = [disk EXCEPT ![n] = state[n]]
  /\ UNCHANGED <<state, submitted>>

\* The validator whose turn it is among those that agreed, by the stored nonce.
IsSubmitter(n, s, vals) ==
  \E i \in IndexOf(vals, n), h \in MajHashes(s.cur, vals) :
    LET agree == AgreeVotes(s.cur, h) IN
    i \in agree /\ s.nonce % Cardinality(agree) = AgreeIndex(agree, i)

\* Mutated: the validator set of the new majority is not stored with it.
AfterCommitOldVals(s, vals) ==
  [cur |-> NoVoteSet, nonce |-> s.nonce + 1, prevMaj |-> s.cur, prevVals |-> s.prevVals]

\* The nonce is incremented as it is stored, a missing one from zero.
AfterCommit(s, vals) ==
  [cur |-> NoVoteSet, nonce |-> s.nonce + 1, prevMaj |-> s.cur, prevVals |-> vals]

CommitConverged(n) ==
  /\ CommitStep(n)
  /\ \E vals \in CommitValSets(n) :
       /\ IsValid(state[n].cur, vals)
       /\ HasConverged(state[n].cur, vals)
       /\ submitted' = IF IsSubmitter(n, state[n], vals)
                         THEN submitted \cup Submit(n, state[n].cur, vals)
                         ELSE submitted
       /\ state' = [state EXCEPT ![n] = AfterCommit(state[n], vals)]
       /\ disk'  = [disk EXCEPT ![n] = AfterCommit(state[n], vals)]
  /\ UNCHANGED net

-----------------------------------------------------------------------------
\* A handler takes the oldest message of a link.
Receive(l) ==
  /\ net[l] # <<>>
  /\ UNCHANGED <<epoch, voting, committing, submitted, faults>>

Consumed(l) == [net EXCEPT ![l] = Tail(@)]

\* compareFnVoteSets: 1 replaces the current vote set with the remote one, 0
\* merges them, -1 keeps the current one.
compareFnVoteSets(remote, cur, nonce, vals) ==
  LET Agreed(vs) == MajHashes(vs, vals) # {}
      Agree(vs)  == Cardinality(UNION {AgreeVotes(vs, h) : h \in MajHashes(vs, vals)})
      Better     == /\ HasConverged(remote, vals)
                    /\ \/ ~HasConverged(cur, vals)
                       \/ NumberOfVotes(remote) > NumberOfVotes(cur)
                       \/ /\ NumberOfVotes(remote) = NumberOfVotes(cur)
                          /\ Agreed(remote)
                          /\ ~Agreed(cur) \/ Agree(remote) > Agree(cur)
  IN  IF cur = NoVoteSet
        THEN IF nonce = remote.nonce \/ HasConverged(remote, vals) THEN 1 ELSE -1
      ELSE IF cur.nonce = remote.nonce THEN 0
      ELSE IF Better THEN 1 ELSE -1

\* compareFnVoteSets asks for a MajResponse only when all else is equal.
ComparePanics(remote, cur, vals) ==
  /\ cur # NoVoteSet
  /\ cur.nonce # remote.nonce
  /\ HasConverged(cur, vals) /\ HasConverged(remote, vals)
  /\ NumberOfVotes(cur) = NumberOfVotes(remote)
  /\ MajResponsePanics(cur, vals)

\* Mutated: the nonce of the vote set that was adopted is not.
ReplacedAtOldNonce(s, remote) ==
  [cur |-> remote, nonce |-> s.nonce, prevMaj |-> s.prevMaj, prevVals |-> s.prevVals]

\* The remote vote set replaces the current one, and brings its nonce.
Replaced(s, remote) ==
  [cur |-> remote, nonce |-> remote.nonce, prevMaj |-> s.prevMaj, prevVals |-> s.prevVals]

\* handleVoteSetChannelMessage up to the vote: the state it leaves behind,
\* whether it goes on, returns or panics, and its two flags.
Adopt(s, remote, vals) ==
  LET s1  == WithNonce(s)
      cmp == compareFnVoteSets(remote, s.cur, s1.nonce, vals)
      new == Merge(s.cur, remote)
      Stop(st, how) == [s |-> st, then |-> how, contributed |-> FALSE, changed |-> FALSE]
      Go(st, contributed, changed) ==
        [s |-> st, then |-> "vote", contributed |-> contributed, changed |-> changed]
  IN  IF ~IsValid(remote, vals) THEN Stop(s, "return")
      ELSE IF s1.nonce > remote.nonce THEN Stop(s1, "return")
      ELSE IF ComparePanics(remote, s.cur, vals) THEN Stop(s1, "panic")
      ELSE CASE cmp = 0  -> IF CannonicalCompare(s.cur, remote)
                              THEN Go([s1 EXCEPT !.cur = new], new # s.cur, new # s.cur)
                              ELSE Stop(s1, "return")
             [] cmp = 1  -> Go(Replaced(s1, remote), FALSE, TRUE)
             [] cmp = -1 -> IF s.cur = NoVoteSet THEN Stop(s1, "return")
                                                 ELSE Go(s1, FALSE, FALSE)

\* The slots the receiver has yet to sign in the vote set it now holds.
Unsigned(n, cur, vals) == IndexOf(vals, n) \ cur.votes

\* The handler returns without a vote: the message is invalid, old or cannot be
\* merged, we are no validator or have signed, or the Fn has no message for us.
\* A vote set changed by the message alone is passed on, and goes back to its
\* sender only if it holds votes the sender did not have.
ReceiveVoteSet(l) ==
  /\ Receive(l) /\ l.ch = "VoteSet"
  /\ \E vals \in ReadBeforeLock(l.to) :
       \E a \in {Adopt(state[l.to], Head(net[l]), vals)} :
       LET n == l.to
       IN  /\ \/ a.then = "return" /\ net' = Consumed(l)
              \/ /\ a.then = "vote" /\ Unsigned(n, a.s.cur, vals) = {}
                 /\ net' = IF a.changed
                             THEN Broadcast(Consumed(l), n, "VoteSet", a.s.cur,
                                            IF a.contributed THEN {} ELSE {l.from})
                             ELSE Consumed(l)
              \/ /\ a.then = "vote" /\ Unsigned(n, a.s.cur, vals) # {}
                 /\ FnErrors
                 /\ net' = Consumed(l)
           /\ state' = [state EXCEPT ![n] = a.s]
  /\ UNCHANGED <<disk, peers, mapped, signed>>

\* The receiver adds its own vote.  Nothing is saved.
ReceiveVoteSetAndVote(l) ==
  /\ Receive(l) /\ l.ch = "VoteSet"
  /\ \E vals \in ReadBeforeLock(l.to), h \in Hashes, signOK \in {TRUE, ~SignErrors} :
       \E a \in {Adopt(state[l.to], Head(net[l]), vals)} :
       LET n == l.to
       IN  /\ a.then = "vote"
           /\ \E i \in Unsigned(n, a.s.cur, vals) :
                /\ ~AddVotePanics(a.s.cur, a.s.nonce, i)
                /\ LET r == AddVote(a.s.cur, n, a.s.nonce, vals, i, h, signOK)
                   IN  /\ state'  = [state EXCEPT ![n] = [a.s EXCEPT !.cur = r.vs]]
                       /\ signed' = IF r.signed THEN signed \cup {r.vs.sigs[i]} ELSE signed
                       /\ net'    = IF r.ok
                                      THEN Broadcast(Consumed(l), n, "VoteSet", r.vs, {})
                                      ELSE Consumed(l)
           /\ mapped' = [mapped EXCEPT ![n] = @ \cup {h}]
  /\ UNCHANGED <<disk, peers>>

\* A panic in a handler is recovered by the connection, which is closed.
ReceiveVoteSetPanics(l) ==
  /\ Receive(l) /\ l.ch = "VoteSet"
  /\ \E vals \in ReadBeforeLock(l.to) :
       \E a \in {Adopt(state[l.to], Head(net[l]), vals)} :
       LET n == l.to
       IN  /\ \/ a.then = "panic" /\ UNCHANGED mapped
              \/ /\ a.then = "vote"
                 /\ \E i \in Unsigned(n, a.s.cur, vals) : AddVotePanics(a.s.cur, a.s.nonce, i)
                 /\ \E h \in Hashes : mapped' = [mapped EXCEPT ![n] = @ \cup {h}]
           /\ state' = [state EXCEPT ![n] = a.s]
  /\ peers' = peers \ {{l.from, l.to}}
  /\ net' = DropLinks(net, {{l.from, l.to}})
  /\ UNCHANGED <<disk, signed>>

-----------------------------------------------------------------------------
\* handleMaj23VoteSetChannel: the validator set a remote majority is valid for,
\* the current one first, then the previous one.
SignedBy(s, vals, remote) ==
  IF IsValid(remote, vals) THEN {vals}
  ELSE {v \in {s.prevVals} \ {NoValSet} : IsValid(remote, v)}

\* A majority of a nonce we are past.
IsPast(s, remote) == remote.nonce < NonceOf(s)

\* The state of a node that learns of a majority at or past its nonce.
AfterMajority(remote, v) ==
  [cur |-> NoVoteSet, nonce |-> remote.nonce + 1, prevMaj |-> remote, prevVals |-> v]

\* The state of a node that is past the majority and had forgotten it.
RecallMajority(s, remote, v) ==
  [cur |-> s.cur, nonce |-> s.nonce, prevMaj |-> remote, prevVals |-> v]

ReceiveMaj(l) ==
  /\ Receive(l) /\ l.ch = "Maj"
  /\ LET n      == l.to
         s      == state[n]
         remote == Head(net[l])
         Save(new) == /\ state' = [state EXCEPT ![n] = new]
                      /\ disk'  = [disk EXCEPT ![n] = new]
     IN  \/ /\ \A v \in SignedBy(s, ValSetOf(n), remote) : ~HasConverged(remote, v)
            /\ net' = Consumed(l)
            /\ UNCHANGED <<state, disk>>
         \/ \E v \in SignedBy(s, ValSetOf(n), remote) :
              /\ HasConverged(remote, v)
              /\ \/ /\ IsPast(s, remote)
                    /\ IF remote.nonce = NonceOf(s) - 1 /\ s.prevMaj = NoVoteSet
                         THEN Save(RecallMajority(s, remote, v))
                         ELSE Save(s)
                    /\ net' = Consumed(l)
                 \/ /\ ~IsPast(s, remote)
                    /\ Save(AfterMajority(remote, v))
                    /\ net' = Broadcast(Consumed(l), n, "Maj", remote, {})
  /\ UNCHANGED <<peers, mapped, signed>>

-----------------------------------------------------------------------------
\* The process stops and starts again: OnStart loads what was saved, and
\* BatchSignWithdrawalFn starts with an empty map.
Restart(n) ==
  LET own == {p \in peers : n \in p} IN
  /\ state'      = [state EXCEPT ![n] = disk[n]]
  /\ voting'     = [voting EXCEPT ![n] = Idle]
  /\ committing' = [committing EXCEPT ![n] = Idle]
  /\ mapped'     = [mapped EXCEPT ![n] = {}]
  /\ peers'      = peers \ own
  /\ net'        = DropLinks(net, own)
  /\ UNCHANGED <<disk, epoch, signed>>

Crash(n) ==
  /\ faults < MaxFaults
  /\ faults' = faults + 1
  /\ Restart(n)
  /\ UNCHANGED submitted

\* commit() submits before it saves: the process may stop in between.
CrashAfterSubmit(n) ==
  /\ faults < MaxFaults
  /\ faults' = faults + 1
  /\ committing[n] # Idle
  /\ state[n].cur # NoVoteSet
  /\ \E vals \in CommitValSets(n) :
       /\ IsValid(state[n].cur, vals)
       /\ HasConverged(state[n].cur, vals)
       /\ IsSubmitter(n, state[n], vals)
       /\ submitted' = submitted \cup Submit(n, state[n].cur, vals)
  /\ Restart(n)

\* commit() calls IsValid on a vote set that is no longer there; nothing
\* recovers a panic of the commit routine, so the process goes down.
CommitPanics(n) ==
  /\ committing[n] # Idle
  /\ state[n].cur = NoVoteSet
  /\ Restart(n)
  /\ UNCHANGED <<submitted, faults>>

Disconnect(pair) ==
  /\ pair \in peers
  /\ faults < MaxFaults
  /\ faults' = faults + 1
  /\ peers' = peers \ {pair}
  /\ net' = DropLinks(net, {pair})
  /\ UNCHANGED <<state, disk, epoch, voting, committing, mapped, signed, submitted>>

\* AddPeer, on both ends
Connect(pair) ==
  /\ pair \in Topology \ peers
  /\ peers' = peers \cup {pair}
  /\ UNCHANGED <<state, disk, epoch, net, voting, committing, mapped, signed, submitted, faults>>

\* The node commits a block that changes the validator set.
AdvanceEpoch(n) ==
  /\ epoch[n] < Len(ValHistory)
  /\ epoch' = [epoch EXCEPT ![n] = @ + 1]
  /\ UNCHANGED <<state, disk, peers, net, voting, committing, mapped, signed, submitted, faults>>

CommitEnd(n) ==
  CommitInvalid(n) \/ CommitPending(n) \/ CommitConverged(n) \/ CommitPanics(n)

NodeStep(n) ==
  VoteBegin(n) \/ VoteFinish(n) \/ VoteSignFails(n) \/ CommitBegin(n) \/ CommitEnd(n)

Handle(l) ==
  ReceiveVoteSet(l) \/ ReceiveVoteSetAndVote(l) \/ ReceiveVoteSetPanics(l) \/ ReceiveMaj(l)

Next ==
  \/ \E n \in Nodes : NodeStep(n) \/ Crash(n) \/ CrashAfterSubmit(n) \/ AdvanceEpoch(n)
  \/ \E l \in Links : Handle(l)
  \/ \E pair \in Topology : Connect(pair) \/ Disconnect(pair)

Spec == Init /\ [][Next]_vars

\* The two routines are timer loops, a connection delivers what it accepted, and
\* the switch keeps dialling persistent peers.
Fairness ==
  /\ \A n \in Nodes : /\ WF_vars(VoteBegin(n)) /\ WF_vars(VoteFinish(n))
                      /\ WF_vars(CommitBegin(n)) /\ WF_vars(CommitEnd(n))
  /\ \A l \in Links : WF_vars(Handle(l))
  /\ \A pair \in Topology : WF_vars(Connect(pair))

-----------------------------------------------------------------------------
\* The reactor's state is well formed: a vote set has one slot per validator of
\* the set it was made for (the array lengths types.go checks and indexes by).
TypeOK ==
  /\ state \in [Nodes -> ReactorStates]
  /\ disk \in [Nodes -> ReactorStates]
  /\ epoch \in [Nodes -> DOMAIN ValHistory]
  /\ peers \subseteq Topology
  /\ net \in [Links -> Seq(VoteSets)]
  /\ voting \in [Nodes -> Votings \cup {Idle}]
  /\ committing \in [Nodes -> DOMAIN ValHistory \cup {Idle}]
  /\ mapped \in [Nodes -> SUBSET Hashes]
  /\ signed \subseteq Signatures
  /\ submitted \subseteq Submissions
  /\ faults \in Nat

\* Did the validator in slot i of vals sign h at this nonce?
SignedFor(i, nonce, vals, h) == SignatureOf(vals[i].addr, nonce, vals, i, h) \in signed

\* Every multi-signed message the Fn is handed (SubmitMultiSignedMessage) carries
\* the signatures of validators that really signed that hash, for that nonce and
\* validator set, and their power reaches the signing threshold, whatever was
\* merged, replaced, lost in a crash or signed under a changed validator set.
SubmissionsAuthentic ==
  \A sub \in submitted :
    /\ sub.agree \subseteq DOMAIN sub.vals
    /\ Reached(VotingPower(sub.vals, sub.agree), sub.vals)
    /\ \A i \in sub.agree : SignedFor(i, sub.nonce, sub.vals, sub.hash)

\* Two nodes that submit different messages for one nonce and validator set can
\* only do so when some validator signed both: the 2/3 + 1 of ToMajResponse.
DisagreementNeedsEquivocation ==
  \A s, t \in submitted :
    (s.nonce = t.nonce /\ s.vals = t.vals /\ s.hash # t.hash) =>
      \E i \in DOMAIN s.vals : /\ SignedFor(i, s.nonce, s.vals, s.hash)
                               /\ SignedFor(i, s.nonce, s.vals, t.hash)

\* The vote set in progress is for the current nonce and the last majority for
\* an earlier one, in memory and on disk, though four handlers set the three
\* fields in different orders and a missing nonce key means 1 to some of them
\* and 0 to commit().
NoncesOrdered ==
  \A n \in Nodes : \A s \in {state[n], disk[n]} :
    /\ s.cur # NoVoteSet => s.cur.nonce = NonceOf(s)
    /\ s.prevMaj # NoVoteSet => s.prevMaj.nonce < s.nonce

\* A node is past a nonce only if a threshold of the validators of some set did
\* sign at that nonce, or at the nonce it is at now: no node runs ahead of the
\* group, even after it adopts vote sets and majorities of others.
NonceJustified ==
  \A n \in Nodes : state[n].nonce > 1 =>
    \E vals \in ValidatorSets, k \in {state[n].nonce - 1, state[n].nonce} :
      \E Q \in SUBSET (DOMAIN vals) :
        /\ Reached(VotingPower(vals, Q), vals)
        /\ \A i \in Q : \E h \in Hashes : SignedFor(i, k, vals, h)

\* The last majority a node would send to a peer that lags is one the peer will
\* accept: valid and converged for the validator set stored with it.
LastMajorityAcceptable ==
  \A n \in Nodes : \A s \in {state[n], disk[n]} :
    s.prevMaj # NoVoteSet => /\ IsValid(s.prevMaj, s.prevVals)
                             /\ HasConverged(s.prevMaj, s.prevVals)

\* Fn vote is already cast: a validator signs one hash for a nonce and validator
\* set (what ErrFnVoteAlreadyCast and the check of voteRoutine are there for).
OneVotePerNonce ==
  \A s, t \in signed :
    (s.signer = t.signer /\ s.nonce = t.nonce /\ s.vals = t.vals) => s.hash = t.hash

\* Connected nodes all get past the first nonce: the votes meet, and who misses
\* the consensus is brought up to date by the majorities commit() sends again.
AllPassFirstNonce == <>(\A n \in Nodes : NonceOf(state[n]) > 1)

=============================================================================
