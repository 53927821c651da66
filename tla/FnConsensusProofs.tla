-------------------------- MODULE FnConsensusProofs --------------------------
(***************************************************************************)
(* What TLAPS proves of the fn-consensus reactor, for every number of      *)
(* nodes, history of validator sets, hash set and bound.                   *)
(***************************************************************************)
EXTENDS FnConsensus, TLAPS

-----------------------------------------------------------------------------
\* Vote sets whose signatures were all really made.

Genuine(sg) == {vs \in VoteSets : \A i \in DOMAIN vs.sigs : vs.sigs[i] \in sg \cup {NoSig}}

\* A threshold of the validators of some set signed at nonce k or just before.
Justified(k, sg) ==
  \E vals \in ValidatorSets, j \in {k - 1, k} :
    \E Q \in SUBSET (DOMAIN vals) :
      /\ Reached(VotingPower(vals, Q), vals)
      /\ \A i \in Q : \E h \in Hashes : SignatureOf(vals[i].addr, j, vals, i, h) \in sg

\* What holds of a reactor's state, in memory and on disk, when the signatures
\* made so far are sg.
GoodStates(sg) ==
  {s \in [cur      : Genuine(sg) \cup {NoVoteSet},
          nonce    : Nat,
          prevMaj  : Genuine(sg) \cup {NoVoteSet},
          prevVals : ValidatorSets \cup {NoValSet}] :
     /\ s.cur # NoVoteSet => s.cur.nonce = NonceOf(s)
     /\ s.prevMaj # NoVoteSet => /\ IsValid(s.prevMaj, s.prevVals)
                                 /\ HasConverged(s.prevMaj, s.prevVals)
     /\ s.nonce > 1 => Justified(s.nonce, sg)}

\* The inductive invariant: every vote set anywhere carries signatures that were
\* made, a vote is prepared for the node's own slot, and the properties proved.
IInv ==
  /\ state \in [Nodes -> GoodStates(signed)]
  /\ disk \in [Nodes -> GoodStates(signed)]
  /\ epoch \in [Nodes -> DOMAIN ValHistory]
  /\ peers \subseteq Topology
  /\ net \in [Links -> Seq(Genuine(signed))]
  /\ voting \in [Nodes -> Votings \cup {Idle}]
  /\ \A n \in Nodes : voting[n] # Idle => voting[n].vals[voting[n].index].addr = n
  /\ committing \in [Nodes -> DOMAIN ValHistory \cup {Idle}]
  /\ mapped \in [Nodes -> SUBSET Hashes]
  /\ signed \subseteq Signatures
  /\ submitted \subseteq Submissions
  /\ faults \in Nat
  /\ SubmissionsAuthentic

-----------------------------------------------------------------------------
\* A validator set has the shape the assumption on ValHistory gives it.
LEMMA ValidatorSetShape ==
  ASSUME NEW vals \in ValidatorSets
  PROVE  /\ vals \in Seq([addr : Nodes, power : Nat \ {0}])
         /\ Len(vals) \in Nat
         /\ DOMAIN vals = 1 .. Len(vals)
         /\ \A i \in DOMAIN vals : vals[i].addr \in Nodes /\ vals[i].power \in Nat \ {0}
<1>. DEFINE V == [addr : Nodes, power : Nat \ {0}]
           SV == Seq(V)
<1>1. ValHistory \in Seq(SV)
  BY ValHistoryAssumption
<1>2. PICK e \in DOMAIN ValHistory : vals = ValHistory[e]
  BY DEF ValidatorSets, Range
<1>3. vals \in SV
  <2>. HIDE DEF SV
  <2>. QED BY <1>1, <1>2
<1>4. Len(vals) \in Nat /\ DOMAIN vals = 1 .. Len(vals) /\ \A i \in DOMAIN vals : vals[i] \in V
  <2>. HIDE DEF V
  <2>. QED BY <1>3
<1>. QED
  BY <1>3, <1>4

\* Every entry of the history is a validator set.
LEMMA ValHistoryMember ==
  ASSUME NEW e \in DOMAIN ValHistory
  PROVE  ValHistory[e] \in ValidatorSets
BY ValHistoryAssumption DEF ValHistoryAssumption, ValidatorSets, Range

\* The history is a sequence of validator sets.
LEMMA HistoryLength ==
  DOMAIN ValHistory = 1 .. Len(ValHistory) /\ Len(ValHistory) \in Nat
BY ValHistoryAssumption

\* A function on the slots of a validator set is a sequence as long as the set.
LEMMA SlotsAreSequence ==
  ASSUME NEW S, NEW vals \in ValidatorSets, NEW f \in [DOMAIN vals -> S]
  PROVE  /\ f \in Seq(S)
         /\ Len(f) = Len(vals)
         /\ DOMAIN f = DOMAIN vals
BY ValidatorSetShape

\* The arrays of a vote set are indexed by the slots of its validator set.
LEMMA VoteSetShape ==
  ASSUME NEW vs \in VoteSets
  PROVE  /\ vs.vals \in ValidatorSets
         /\ vs.nonce \in Nat \ {0} /\ vs.power \in Nat
         /\ vs.votes \subseteq DOMAIN vs.vals
         /\ vs.hashes \in [DOMAIN vs.vals -> Hashes \cup {NoHash}]
         /\ vs.sigs \in [DOMAIN vs.vals -> Signatures \cup {NoSig}]
         /\ vs = [nonce |-> vs.nonce, vals |-> vs.vals, power |-> vs.power,
                  votes |-> vs.votes, hashes |-> vs.hashes, sigs |-> vs.sigs]
<1>1. /\ vs.vals \in ValidatorSets
      /\ vs.hashes \in Seq(Hashes \cup {NoHash})
      /\ vs.sigs \in Seq(Signatures \cup {NoSig})
      /\ Len(vs.hashes) = Len(vs.vals)
      /\ Len(vs.sigs) = Len(vs.vals)
  BY DEF VoteSets
<1>2. DOMAIN vs.vals = 1 .. Len(vs.vals)
  BY <1>1, ValidatorSetShape
<1>. QED
  BY <1>1, <1>2 DEF VoteSets

\* The converse: these fields make a vote set.
LEMMA MakesVoteSet ==
  ASSUME NEW nonce \in Nat \ {0}, NEW vals \in ValidatorSets, NEW power \in Nat,
         NEW votes \in SUBSET (DOMAIN vals),
         NEW hashes \in [DOMAIN vals -> Hashes \cup {NoHash}],
         NEW sigs \in [DOMAIN vals -> Signatures \cup {NoSig}]
  PROVE  [nonce |-> nonce, vals |-> vals, power |-> power,
          votes |-> votes, hashes |-> hashes, sigs |-> sigs] \in VoteSets
<1>1. hashes \in Seq(Hashes \cup {NoHash}) /\ Len(hashes) = Len(vals)
  BY SlotsAreSequence
<1>2. sigs \in Seq(Signatures \cup {NoSig}) /\ Len(sigs) = Len(vals)
  BY SlotsAreSequence
<1>3. votes \in SUBSET Nat
  BY ValidatorSetShape
<1>. QED
  BY <1>1, <1>2, <1>3 DEF VoteSets

-----------------------------------------------------------------------------
\* The operations on vote sets keep them genuine.

\* More signatures make no vote set less genuine and no state less good.
LEMMA GenuineGrows ==
  ASSUME NEW sg, NEW sg2, sg \subseteq sg2
  PROVE  /\ Genuine(sg) \subseteq Genuine(sg2)
         /\ GoodStates(sg) \subseteq GoodStates(sg2)
<1>1. Genuine(sg) \subseteq Genuine(sg2)
  BY DEF Genuine
<1>2. \A k : Justified(k, sg) => Justified(k, sg2)
  BY DEF Justified
<1>. QED
  BY <1>1, <1>2 DEF GoodStates

\* What a validator signs is a signature.
LEMMA SignatureOfType ==
  ASSUME NEW n \in Nodes, NEW nonce \in Nat, NEW vals \in ValidatorSets,
         NEW i \in DOMAIN vals, NEW h \in Hashes
  PROVE  SignatureOf(n, nonce, vals, i, h) \in Signatures
BY ValidatorSetShape DEF SignatureOf, Signatures

\* NewVoteSet holds one signature, which the caller has just made.
LEMMA NewVoteSetGenuine ==
  ASSUME NEW n \in Nodes, NEW nonce \in Nat \ {0}, NEW vals \in ValidatorSets,
         NEW i \in DOMAIN vals, NEW h \in Hashes, NEW sg,
         SignatureOf(n, nonce, vals, i, h) \in sg
  PROVE  NewVoteSet(n, nonce, vals, i, h) \in Genuine(sg)
<1>. DEFINE vs == NewVoteSet(n, nonce, vals, i, h)
<1>1. vs \in VoteSets
  BY MakesVoteSet, ValidatorSetShape, SignatureOfType DEF NewVoteSet
<1>2. \A j \in DOMAIN vs.sigs : vs.sigs[j] \in sg \cup {NoSig}
  BY DEF NewVoteSet
<1>. QED
  BY <1>1, <1>2 DEF Genuine

\* Merge takes slots of the two vote sets and nothing else.
LEMMA MergeGenuine ==
  ASSUME NEW sg, NEW vs \in Genuine(sg), NEW other \in Genuine(sg),
         CannonicalCompare(vs, other)
  PROVE  Merge(vs, other) \in Genuine(sg)
<1>. DEFINE new    == other.votes \ vs.votes
            hashes == [i \in DOMAIN vs.hashes |->
                         IF vs.hashes[i] # NoHash THEN vs.hashes[i] ELSE other.hashes[i]]
            sigs   == [i \in DOMAIN vs.sigs |->
                         IF i \in new THEN other.sigs[i] ELSE vs.sigs[i]]
            power  == vs.power + VotingPower(vs.vals, new)
<1>1. vs \in VoteSets /\ other \in VoteSets /\ vs.vals = other.vals
  BY DEF Genuine, CannonicalCompare
<1>2. VotingPower(vs.vals, new) \in Nat
  BY <1>1, VoteSetShape, PowerAssumption
<1>3. Merge(vs, other) = [nonce |-> vs.nonce, vals |-> vs.vals, power |-> power,
                          votes |-> vs.votes \cup new, hashes |-> hashes, sigs |-> sigs]
  BY <1>1, VoteSetShape DEF Merge
<1>4. /\ hashes \in [DOMAIN vs.vals -> Hashes \cup {NoHash}]
      /\ sigs \in [DOMAIN vs.vals -> Signatures \cup {NoSig}]
      /\ vs.votes \cup new \in SUBSET (DOMAIN vs.vals)
      /\ power \in Nat
  BY <1>1, <1>2, VoteSetShape
<1>5. Merge(vs, other) \in VoteSets
  <2>. DEFINE nonce == vs.nonce  vals == vs.vals  votes == vs.votes \cup new
  <2>1. /\ nonce \in Nat \ {0} /\ vals \in ValidatorSets /\ power \in Nat
        /\ votes \in SUBSET (DOMAIN vals)
        /\ hashes \in [DOMAIN vals -> Hashes \cup {NoHash}]
        /\ sigs \in [DOMAIN vals -> Signatures \cup {NoSig}]
    BY <1>1, <1>4, VoteSetShape
  <2>2. Merge(vs, other) = [nonce |-> nonce, vals |-> vals, power |-> power,
                            votes |-> votes, hashes |-> hashes, sigs |-> sigs]
    BY <1>3
  <2>. HIDE DEF hashes, sigs, power, new, nonce, vals, votes
  <2>. QED BY <2>1, <2>2, MakesVoteSet
<1>6. \A i \in DOMAIN sigs : sigs[i] \in sg \cup {NoSig}
  BY <1>1, VoteSetShape DEF Genuine
<1>. QED
  BY <1>3, <1>5, <1>6 DEF Genuine

\* The outcome r of AddVote in slot i of vs holds no signature but a new one.
AddsGenuineVote(sg, vs, r, i) ==
  /\ r.signed => /\ r.vs \in Genuine(sg \cup {r.vs.sigs[i]})
                 /\ r.vs.sigs[i] \in Signatures
  /\ ~r.signed => r.vs \in Genuine(sg)
  /\ r.vs.nonce = vs.nonce

\* AddVote writes one signature, in the slot it was asked to sign.
LEMMA AddVoteGenuine ==
  ASSUME NEW sg, NEW vs \in Genuine(sg), NEW n \in Nodes, NEW nonce \in Nat,
         NEW vals \in ValidatorSets, NEW i \in DOMAIN vals, NEW h \in Hashes,
         NEW signOK \in BOOLEAN, ~AddVotePanics(vs, nonce, i)
  PROVE  AddsGenuineVote(sg, vs, AddVote(vs, n, nonce, vals, i, h, signOK), i)
<1>. USE DEF AddsGenuineVote
<1>. DEFINE r == AddVote(vs, n, nonce, vals, i, h, signOK)
<1>1. vs \in VoteSets
  BY DEF Genuine
<1>2. CASE vs.nonce # nonce \/ vs.hashes[i] # NoHash
  BY <1>2 DEF AddVote
<1>3. CASE vs.nonce = nonce /\ vs.hashes[i] = NoHash
  <2>1. i \in DOMAIN vs.vals
    BY <1>1, <1>3, VoteSetShape DEF AddVotePanics
  <2>2. [vs.hashes EXCEPT ![i] = h] \in [DOMAIN vs.vals -> Hashes \cup {NoHash}]
    BY <1>1, <2>1, VoteSetShape
  <2>3. CASE ~signOK
    <3>1. r.vs = [nonce |-> vs.nonce, vals |-> vs.vals, power |-> vs.power, votes |-> vs.votes,
                  hashes |-> [vs.hashes EXCEPT ![i] = h], sigs |-> vs.sigs] /\ ~r.signed
      BY <1>1, <1>3, <2>3, VoteSetShape DEF AddVote
    <3>2. r.vs \in VoteSets
      BY <1>1, <2>2, <3>1, VoteSetShape, MakesVoteSet
    <3>. QED
      BY <3>1, <3>2 DEF Genuine
  <2>4. CASE signOK
    <3>. DEFINE sig   == SignatureOf(n, nonce, vs.vals, i, h)
                power == IF vs.vals[i].addr = vals[i].addr
                           THEN vs.power + vals[i].power ELSE vs.power
                sigs  == [vs.sigs EXCEPT ![i] = sig]
    <3>1. r.vs = [nonce |-> vs.nonce, vals |-> vs.vals, power |-> power,
                  votes |-> vs.votes \cup {i},
                  hashes |-> [vs.hashes EXCEPT ![i] = h], sigs |-> sigs] /\ r.signed
      BY <1>1, <1>3, <2>4, VoteSetShape DEF AddVote
    <3>2. sig \in Signatures
      BY <1>1, <2>1, VoteSetShape, SignatureOfType
    <3>3. power \in Nat
      BY <1>1, VoteSetShape, ValidatorSetShape
    <3>4. sigs \in [DOMAIN vs.vals -> Signatures \cup {NoSig}] /\ sigs[i] = sig
      <4>. HIDE DEF sig
      <4>. QED BY <1>1, <2>1, <3>2, VoteSetShape
    <3>5. vs.votes \cup {i} \in SUBSET (DOMAIN vs.vals)
      BY <1>1, <2>1, VoteSetShape
    <3>6. r.vs \in VoteSets
      <4>. HIDE DEF r, sig, power, sigs
      <4>. QED BY <1>1, <2>2, <3>1, <3>3, <3>4, <3>5, VoteSetShape, MakesVoteSet
    <3>7. \A j \in DOMAIN sigs : sigs[j] \in (sg \cup {sig}) \cup {NoSig}
      <4>. HIDE DEF sig
      <4>. QED BY <1>1, VoteSetShape DEF Genuine
    <3>8. r.vs.sigs = sigs
      <4>. HIDE DEF r, sig, power, sigs
      <4>. QED BY <3>1
    <3>. HIDE DEF sig, power, sigs
    <3>. QED
      BY <3>1, <3>2, <3>4, <3>6, <3>7, <3>8 DEF Genuine
  <2>. QED
    BY <2>3, <2>4
<1>. QED
  BY <1>2, <1>3

-----------------------------------------------------------------------------
\* The steps of the handlers and routines keep states good.

\* A valid vote set that has converged holds the signatures of a threshold.
LEMMA ConvergedSigned ==
  ASSUME NEW sg, NEW vs \in Genuine(sg), NEW vals \in ValidatorSets,
         IsValid(vs, vals), HasConverged(vs, vals)
  PROVE  /\ vs.votes \in SUBSET (DOMAIN vals)
         /\ Reached(VotingPower(vals, vs.votes), vals)
         /\ \A i \in vs.votes :
              \E h \in Hashes : SignatureOf(vals[i].addr, vs.nonce, vals, i, h) \in sg
<1>1. vs \in VoteSets /\ vs.vals = vals
  BY DEF Genuine, IsValid
<1>2. vs.votes \in SUBSET (DOMAIN vals)
  BY <1>1, VoteSetShape
<1>3. ASSUME NEW i \in vs.votes
      PROVE  \E h \in Hashes : SignatureOf(vals[i].addr, vs.nonce, vals, i, h) \in sg
  <2>1. i \in DOMAIN vals
    BY <1>2
  <2>2. vs.hashes[i] \in Hashes
    BY <1>1, <2>1, VoteSetShape DEF IsValid
  <2>3. vs.sigs[i] = SignatureOf(vals[i].addr, vs.nonce, vals, i, vs.hashes[i])
    BY <1>1, <2>1 DEF IsValid, VerifyValidatorSign
  <2>4. SignatureOf(vals[i].addr, vs.nonce, vals, i, vs.hashes[i]) \in Signatures
    BY <1>1, <2>1, <2>2, VoteSetShape, ValidatorSetShape, SignatureOfType
  <2>5. vs.sigs[i] \in sg \cup {NoSig}
    BY <1>1, <2>1, VoteSetShape DEF Genuine
  <2>. QED
    BY <2>2, <2>3, <2>4, <2>5, NilAssumption
<1>. QED
  BY <1>2, <1>3 DEF IsValid, HasConverged

\* A valid, converged vote set justifies its nonce and the one after it.
LEMMA ConvergedJustifies ==
  ASSUME NEW sg, NEW vs \in Genuine(sg), NEW vals \in ValidatorSets,
         IsValid(vs, vals), HasConverged(vs, vals)
  PROVE  Justified(vs.nonce, sg) /\ Justified(vs.nonce + 1, sg)
<1>1. vs.nonce \in Nat
  BY VoteSetShape DEF Genuine
<1>2. vs.nonce = (vs.nonce + 1) - 1
  BY <1>1
<1>. QED
  BY <1>2, ConvergedSigned DEF Justified

\* NoVoteSet and NoValSet are told apart from the values they stand beside.
LEMMA NilsApart ==
  ASSUME NEW sg
  PROVE  NoVoteSet \notin Genuine(sg) /\ NoValSet \notin ValidatorSets
BY ReactorAssumption DEF Genuine

\* The nonce the handlers work with is never zero.
LEMMA NonceOfType ==
  ASSUME NEW sg, NEW s \in GoodStates(sg)
  PROVE  NonceOf(s) \in Nat \ {0}
BY DEF GoodStates, NonceOf

\* The fields of a good state, as the steps read them.
LEMMA GoodStateFields ==
  ASSUME NEW sg, NEW s \in GoodStates(sg)
  PROVE  /\ s.cur \in Genuine(sg) \cup {NoVoteSet}
         /\ s.nonce \in Nat
         /\ s.prevMaj \in Genuine(sg) \cup {NoVoteSet}
         /\ s.prevVals \in ValidatorSets \cup {NoValSet}
         /\ s.cur # NoVoteSet => s.cur.nonce = IF s.nonce = 0 THEN 1 ELSE s.nonce
         /\ s.prevMaj # NoVoteSet =>
              IsValid(s.prevMaj, s.prevVals) /\ HasConverged(s.prevMaj, s.prevVals)
         /\ s.nonce > 1 => Justified(s.nonce, sg)
         /\ s = [cur |-> s.cur, nonce |-> s.nonce, prevMaj |-> s.prevMaj,
                 prevVals |-> s.prevVals]
BY DEF GoodStates, NonceOf

\* Replacing the vote set in progress by one of the same nonce, or by none.
LEMMA SetCur ==
  ASSUME NEW sg, NEW s \in GoodStates(sg), NEW vs \in Genuine(sg) \cup {NoVoteSet},
         vs # NoVoteSet => vs.nonce = NonceOf(s)
  PROVE  [s EXCEPT !.cur = vs] \in GoodStates(sg)
<1>1. [s EXCEPT !.cur = vs] = [cur |-> vs, nonce |-> s.nonce, prevMaj |-> s.prevMaj,
                               prevVals |-> s.prevVals]
  BY GoodStateFields
<1>. QED
  BY <1>1, GoodStateFields DEF GoodStates, NonceOf

\* Storing the default nonce, as the vote set handler does, keeps a state good.
LEMMA WithNonceGood ==
  ASSUME NEW sg, NEW s \in GoodStates(sg)
  PROVE  /\ WithNonce(s) \in GoodStates(sg)
         /\ WithNonce(s).nonce = NonceOf(s)
         /\ WithNonce(s).cur = s.cur
         /\ NonceOf(WithNonce(s)) = NonceOf(s)
<1>1. WithNonce(s) = [cur |-> s.cur, nonce |-> NonceOf(s), prevMaj |-> s.prevMaj,
                      prevVals |-> s.prevVals]
  BY GoodStateFields DEF WithNonce
<1>2. NonceOf(s) \in Nat \ {0} /\ (NonceOf(s) > 1 => NonceOf(s) = s.nonce)
  BY NonceOfType, GoodStateFields DEF NonceOf
<1>3. WithNonce(s) \in GoodStates(sg)
  BY <1>1, <1>2, GoodStateFields DEF GoodStates, NonceOf
<1>. QED
  BY <1>1, <1>2, <1>3 DEF NonceOf

\* When compareFnVoteSets merges (0) and when it replaces (1).
LEMMA CompareRange ==
  ASSUME NEW remote, NEW cur, NEW nonce, NEW vals
  PROVE  /\ compareFnVoteSets(remote, cur, nonce, vals) \in {-1, 0, 1}
         /\ compareFnVoteSets(remote, cur, nonce, vals) = 0 =>
              cur # NoVoteSet /\ cur.nonce = remote.nonce
         /\ compareFnVoteSets(remote, cur, nonce, vals) = 1 =>
              nonce = remote.nonce \/ HasConverged(remote, vals)
              \/ cur # NoVoteSet
         /\ compareFnVoteSets(remote, cur, nonce, vals) = 1 /\ cur # NoVoteSet =>
              HasConverged(remote, vals)
BY DEF compareFnVoteSets

\* The first half of the vote set handler leaves a good state, and a vote set to
\* vote in whenever it goes on to the vote.
LEMMA AdoptGood ==
  ASSUME NEW sg, NEW s \in GoodStates(sg), NEW remote \in Genuine(sg),
         NEW vals \in ValidatorSets
  PROVE  LET o == Adopt(s, remote, vals) IN
         /\ o.s \in GoodStates(sg)
         /\ o.then = "vote" => o.s.cur \in Genuine(sg) /\ o.s.nonce = o.s.cur.nonce
<1>. DEFINE o   == Adopt(s, remote, vals)
            s1  == WithNonce(s)
            cmp == compareFnVoteSets(remote, s.cur, s1.nonce, vals)
            new == Merge(s.cur, remote)
<1>0. /\ s1 \in GoodStates(sg) /\ s1.nonce = NonceOf(s) /\ s1.cur = s.cur
      /\ NonceOf(s1) = s1.nonce
  BY WithNonceGood
<1>1. CASE ~IsValid(remote, vals)
  BY <1>1 DEF Adopt
<1>2. CASE IsValid(remote, vals) /\ s1.nonce > remote.nonce
  <2>1. o.s = s1 /\ o.then = "return"
    BY <1>2 DEF Adopt
  <2>. QED BY <2>1, <1>0
<1>3. CASE /\ IsValid(remote, vals) /\ ~(s1.nonce > remote.nonce)
           /\ ComparePanics(remote, s.cur, vals)
  <2>1. o.s = s1 /\ o.then = "panic"
    BY <1>3 DEF Adopt
  <2>. QED BY <2>1, <1>0
<1>4. CASE /\ IsValid(remote, vals) /\ ~(s1.nonce > remote.nonce)
           /\ ~ComparePanics(remote, s.cur, vals)
  <2>1. CASE cmp = 0 /\ CannonicalCompare(s.cur, remote)
    <3>1. o.s = [s1 EXCEPT !.cur = new] /\ o.then = "vote"
      BY <1>4, <2>1 DEF Adopt
    <3>2. s.cur \in Genuine(sg) /\ s.cur.nonce = NonceOf(s)
      BY <2>1, CompareRange, GoodStateFields DEF NonceOf
    <3>3. new \in Genuine(sg) /\ new.nonce = s.cur.nonce
      BY <2>1, <3>2, MergeGenuine DEF Merge
    <3>4. o.s \in GoodStates(sg)
      <4>. HIDE DEF o, s1, new
      <4>. QED BY <1>0, <3>1, <3>2, <3>3, SetCur
    <3>5. o.s.cur = new /\ o.s.nonce = s1.nonce
      <4>. HIDE DEF o, s1, new
      <4>. QED BY <1>0, <3>1, GoodStateFields
    <3>. QED BY <1>0, <3>2, <3>3, <3>4, <3>5
  <2>2. CASE cmp = 0 /\ ~CannonicalCompare(s.cur, remote)
    <3>1. o.s = s1 /\ o.then = "return"
      BY <1>4, <2>2 DEF Adopt
    <3>. QED BY <3>1, <1>0
  <2>3. CASE cmp = 1
    <3>1. o.s = Replaced(s1, remote) /\ o.then = "vote"
      BY <1>4, <2>3 DEF Adopt
    <3>2. o.s = [cur |-> remote, nonce |-> remote.nonce, prevMaj |-> s1.prevMaj,
                 prevVals |-> s1.prevVals]
      <4>. HIDE DEF o, s1
      <4>. QED BY <3>1 DEF Replaced
    <3>3. remote.nonce \in Nat \ {0}
      BY VoteSetShape DEF Genuine
    <3>4. remote.nonce > 1 => Justified(remote.nonce, sg)
      <4>1. CASE s1.nonce = remote.nonce
        BY <1>0, <4>1, GoodStateFields
      <4>2. CASE HasConverged(remote, vals)
        BY <1>4, <4>2, ConvergedJustifies
      <4>. QED BY <2>3, <4>1, <4>2, CompareRange
    <3>5. o.s \in GoodStates(sg)
      <4>. DEFINE k == remote.nonce  p == s1.prevMaj  v == s1.prevVals
                  repl == [cur |-> remote, nonce |-> k, prevMaj |-> p, prevVals |-> v]
      <4>1. /\ p \in Genuine(sg) \cup {NoVoteSet} /\ v \in ValidatorSets \cup {NoValSet}
            /\ p # NoVoteSet => IsValid(p, v) /\ HasConverged(p, v)
        <5>. HIDE DEF s1
        <5>. QED BY <1>0, GoodStateFields
      <4>2. k \in Nat \ {0} /\ (k > 1 => Justified(k, sg)) /\ k = remote.nonce
        BY <3>3, <3>4
      <4>3. o.s = repl
        BY <3>2
      <4>. HIDE DEF o, k, p, v
      <4>4. repl \in GoodStates(sg)
        BY <4>1, <4>2 DEF GoodStates, NonceOf
      <4>. QED BY <4>3, <4>4
    <3>6. o.s.cur = remote /\ o.s.nonce = remote.nonce
      <4>. DEFINE c == remote  k == remote.nonce  p == s1.prevMaj  v == s1.prevVals
      <4>1. o.s = [cur |-> c, nonce |-> k, prevMaj |-> p, prevVals |-> v]
        BY <3>2
      <4>. HIDE DEF o, c, k, p, v
      <4>2. o.s.cur = c /\ o.s.nonce = k
        BY <4>1
      <4>. QED BY <4>2 DEF c, k
    <3>. QED BY <3>5, <3>6
  <2>4. CASE cmp = -1 /\ s.cur = NoVoteSet
    <3>1. o.s = s1 /\ o.then = "return"
      BY <1>4, <2>4 DEF Adopt
    <3>. QED BY <3>1, <1>0
  <2>5. CASE cmp = -1 /\ s.cur # NoVoteSet
    <3>1. o.s = s1 /\ o.then = "vote"
      BY <1>4, <2>5 DEF Adopt
    <3>2. s.cur \in Genuine(sg) /\ s.cur.nonce = NonceOf(s)
      BY <2>5, GoodStateFields DEF NonceOf
    <3>. QED BY <3>1, <3>2, <1>0
  <2>6. cmp \in {-1, 0, 1}
    BY CompareRange
  <2>. QED BY <2>1, <2>2, <2>3, <2>4, <2>5, <2>6
<1>. QED BY <1>1, <1>2, <1>3, <1>4

\* What broadcastMsgSync and a lost connection do to the queues.
LEMMA BroadcastType ==
  ASSUME NEW S, NEW q \in [Links -> Seq(S)], NEW n, NEW ch, NEW vs \in S, NEW except
  PROVE  Broadcast(q, n, ch, vs, except) \in [Links -> Seq(S)]
BY DEF Broadcast

\* A lost connection leaves well-formed queues.
LEMMA DropLinksType ==
  ASSUME NEW S, NEW q \in [Links -> Seq(S)], NEW pairs
  PROVE  DropLinks(q, pairs) \in [Links -> Seq(S)]
BY DEF DropLinks

\* Queues of members of S are queues of members of a larger set.
LEMMA QueuesGrow ==
  ASSUME NEW S, NEW T, S \subseteq T, NEW q \in [Links -> Seq(S)]
  PROVE  q \in [Links -> Seq(T)]
<1>1. \A x \in Seq(S) : x \in Seq(T)
  OBVIOUS
<1>. QED BY <1>1

\* The message a handler takes, and what it leaves in flight.
LEMMA ReceivedType ==
  ASSUME NEW S, net \in [Links -> Seq(S)], NEW l \in Links, net[l] # <<>>
  PROVE  Head(net[l]) \in S /\ Consumed(l) \in [Links -> Seq(S)]
<1>1. net[l] \in Seq(S)
  OBVIOUS
<1>2. Head(net[l]) \in S /\ Tail(net[l]) \in Seq(S)
  BY <1>1
<1>. QED BY <1>2 DEF Consumed

\* The validator sets a node may have read are in the history.
LEMMA ReadValSets ==
  ASSUME epoch \in [Nodes -> DOMAIN ValHistory],
         committing \in [Nodes -> DOMAIN ValHistory \cup {Idle}], NEW n \in Nodes
  PROVE  /\ ReadBeforeLock(n) \subseteq ValidatorSets
         /\ ValSetOf(n) \in ValidatorSets
         /\ committing[n] # Idle => CommitValSets(n) \subseteq ValidatorSets
<1>1. ReadBeforeLock(n) \subseteq ValidatorSets
  BY ValHistoryMember DEF ReadBeforeLock
<1>2. ValSetOf(n) \in ValidatorSets
  BY ValHistoryMember DEF ValSetOf
<1>3. ASSUME committing[n] # Idle
      PROVE  CommitValSets(n) \subseteq ValidatorSets
  <2>. DEFINE D == DOMAIN ValHistory
              N == Len(ValHistory)
  <2>1. D = 1 .. N /\ N \in Nat
    BY HistoryLength
  <2>2. epoch[n] \in D /\ committing[n] \in D
    BY <1>3
  <2>3. committing[n] .. epoch[n] \subseteq D
    <3>. HIDE DEF D, N
    <3>. QED BY <2>1, <2>2
  <2>. QED BY <2>3, ValHistoryMember DEF CommitValSets
<1>. QED BY <1>1, <1>2, <1>3

\* One submission is authentic when the signatures made are sg.
AuthenticFor(sub, sg) ==
  /\ sub.agree \subseteq DOMAIN sub.vals
  /\ Reached(VotingPower(sub.vals, sub.agree), sub.vals)
  /\ \A i \in sub.agree : SignatureOf(sub.vals[i].addr, sub.nonce, sub.vals, i, sub.hash) \in sg

\* What is submitted from a vote set whose slots are all genuine votes of their
\* validators is authentic.
LEMMA SubmitAuthentic ==
  ASSUME NEW sg, NEW vs \in VoteSets, NEW n \in Nodes, mapped[n] \subseteq Hashes,
         \A i \in DOMAIN vs.vals : vs.hashes[i] # NoHash =>
           SignatureOf(vs.vals[i].addr, vs.nonce, vs.vals, i, vs.hashes[i]) \in sg
  PROVE  /\ Submit(n, vs, vs.vals) \subseteq Submissions
         /\ \A sub \in Submit(n, vs, vs.vals) : AuthenticFor(sub, sg)
<1>. SUFFICES ASSUME NEW h \in MajHashes(vs, vs.vals) \cap mapped[n]
              PROVE  LET sub == [node |-> n, nonce |-> vs.nonce, vals |-> vs.vals, hash |-> h,
                                 agree |-> AgreeVotes(vs, h)] IN
                     sub \in Submissions /\ AuthenticFor(sub, sg)
  BY DEF Submit
<1>. DEFINE agree == AgreeVotes(vs, h)
<1>1. h \in Hashes /\ h # NoHash
  BY NilAssumption
<1>2. agree \subseteq DOMAIN vs.vals
  BY VoteSetShape DEF AgreeVotes
<1>3. Reached(VotingPower(vs.vals, agree), vs.vals)
  <2>1. agree \cap DOMAIN vs.vals = agree
    BY <1>2
  <2>2. Reached(VotingPower(vs.vals, agree \cap DOMAIN vs.vals), vs.vals)
    BY DEF MajHashes
  <2>. QED BY <2>1, <2>2
<1>4. \A i \in agree : SignatureOf(vs.vals[i].addr, vs.nonce, vs.vals, i, h) \in sg
  BY <1>1, <1>2 DEF AgreeVotes
<1>5. agree \in SUBSET Nat
  BY <1>2, VoteSetShape, ValidatorSetShape
<1>. HIDE DEF agree
<1>6. agree = AgreeVotes(vs, h)
  BY DEF agree
<1>. QED
  BY <1>1, <1>2, <1>3, <1>4, <1>5, <1>6, VoteSetShape DEF Submissions, AuthenticFor

\* The slots of a valid genuine vote set.
LEMMA ValidSlots ==
  ASSUME NEW sg, NEW vs \in Genuine(sg), NEW vals \in ValidatorSets, IsValid(vs, vals)
  PROVE  /\ vs.vals = vals
         /\ \A i \in DOMAIN vs.vals : vs.hashes[i] # NoHash =>
              SignatureOf(vs.vals[i].addr, vs.nonce, vs.vals, i, vs.hashes[i]) \in sg
<1>1. vs \in VoteSets /\ vs.vals = vals
  BY DEF Genuine, IsValid
<1>2. ASSUME NEW i \in DOMAIN vs.vals, vs.hashes[i] # NoHash
      PROVE  SignatureOf(vs.vals[i].addr, vs.nonce, vs.vals, i, vs.hashes[i]) \in sg
  <2>1. vs.hashes[i] \in Hashes
    BY <1>1, <1>2, VoteSetShape
  <2>2. vs.sigs[i] = SignatureOf(vs.vals[i].addr, vs.nonce, vs.vals, i, vs.hashes[i])
    BY <1>1, <1>2 DEF IsValid, VerifyValidatorSign
  <2>3. SignatureOf(vs.vals[i].addr, vs.nonce, vs.vals, i, vs.hashes[i]) \in Signatures
    BY <1>1, <2>1, VoteSetShape, ValidatorSetShape, SignatureOfType
  <2>4. vs.sigs[i] \in sg \cup {NoSig}
    BY <1>1, VoteSetShape DEF Genuine
  <2>. QED
    BY <2>2, <2>3, <2>4, NilAssumption
<1>. QED BY <1>1, <1>2

-----------------------------------------------------------------------------
\* The inductive invariant is preserved.

\* Submissions stay authentic when signatures and authentic submissions are added.
LEMMA AuthenticGrows ==
  ASSUME SubmissionsAuthentic, signed \subseteq signed',
         NEW new, submitted' \subseteq submitted \cup new,
         \A sub \in new : AuthenticFor(sub, signed')
  PROVE  SubmissionsAuthentic'
<1>. SUFFICES ASSUME NEW sub \in submitted'
              PROVE  AuthenticFor(sub, signed')
  BY DEF SubmissionsAuthentic, SignedFor, AuthenticFor
<1>1. CASE sub \in submitted
  BY <1>1 DEF SubmissionsAuthentic, SignedFor, AuthenticFor
<1>2. CASE sub \in new
  BY <1>2
<1>. QED BY <1>1, <1>2

\* The memory, the disk and the network carry over when signatures are added.
LEMMA HeldGrows ==
  ASSUME IInv, signed \subseteq signed'
  PROVE  /\ state \in [Nodes -> GoodStates(signed')]
         /\ disk \in [Nodes -> GoodStates(signed')]
         /\ net \in [Links -> Seq(Genuine(signed'))]
<1>1. Genuine(signed) \subseteq Genuine(signed') /\ GoodStates(signed) \subseteq GoodStates(signed')
  BY GenuineGrows
<1>2. net \in [Links -> Seq(Genuine(signed'))]
  BY <1>1, QueuesGrow DEF IInv
<1>. QED BY <1>1, <1>2 DEF IInv

\* vote() before its lock: it prepares a vote for the node's own slot.
LEMMA VoteBeginKeeps ==
  ASSUME IInv, NEW n \in Nodes, VoteBegin(n)
  PROVE  IInv'
<1>1. PICK vals \in ReadBeforeLock(n) : \E i \in IndexOf(vals, n), h \in Hashes :
        /\ voting' = [voting EXCEPT ![n] = [vals |-> vals, index |-> i, hash |-> h]]
        /\ mapped' = [mapped EXCEPT ![n] = @ \cup {h}]
  BY DEF VoteBegin
<1>0. PICK i \in IndexOf(vals, n), h \in Hashes :
        /\ voting' = [voting EXCEPT ![n] = [vals |-> vals, index |-> i, hash |-> h]]
        /\ mapped' = [mapped EXCEPT ![n] = @ \cup {h}]
  BY <1>1
<1>2. vals \in ValidatorSets /\ i \in DOMAIN vals /\ vals[i].addr = n
  BY ReadValSets DEF IInv, IndexOf
<1>3. [vals |-> vals, index |-> i, hash |-> h] \in Votings
  <2>1. [vals |-> vals, index |-> i, hash |-> h] \in [vals : {vals}, index : DOMAIN vals, hash : Hashes]
    BY <1>2
  <2>. QED BY <1>2, <2>1 DEF Votings
<1>4. /\ voting' \in [Nodes -> Votings \cup {Idle}]
      /\ \A m \in Nodes : voting'[m] # Idle => voting'[m].vals[voting'[m].index].addr = m
  BY <1>0, <1>2, <1>3 DEF IInv
<1>5. mapped' \in [Nodes -> SUBSET Hashes]
  BY <1>0 DEF IInv
<1>. QED
  BY <1>4, <1>5 DEF IInv, VoteBegin, SubmissionsAuthentic, SignedFor

\* vote() after its lock: the one vote of the new set is signed by its validator.
LEMMA VoteFinishKeeps ==
  ASSUME IInv, NEW n \in Nodes, VoteFinish(n)
  PROVE  IInv'
<1>. DEFINE v   == voting[n]
            sig == SignatureOf(n, NonceOf(state[n]), v.vals, v.index, v.hash)
            vs  == NewVoteSet(n, NonceOf(state[n]), v.vals, v.index, v.hash)
            s   == [state[n] EXCEPT !.cur = vs]
<1>1. /\ v.vals \in ValidatorSets /\ v.index \in DOMAIN v.vals /\ v.hash \in Hashes
      /\ v.vals[v.index].addr = n
  BY DEF IInv, VoteFinish, Votings
<1>2. state[n] \in GoodStates(signed) /\ NonceOf(state[n]) \in Nat \ {0}
  BY NonceOfType DEF IInv
<1>3. sig \in Signatures /\ vs.sigs[v.index] = sig /\ vs.nonce = NonceOf(state[n])
      /\ vs.vals = v.vals
  BY <1>1, <1>2, SignatureOfType DEF NewVoteSet
<1>4. signed' = signed \cup {sig}
  BY <1>3 DEF VoteFinish
<1>5. vs \in Genuine(signed')
  BY <1>1, <1>2, <1>4, NewVoteSetGenuine
<1>6. /\ state \in [Nodes -> GoodStates(signed')]
      /\ disk \in [Nodes -> GoodStates(signed')]
      /\ net \in [Links -> Seq(Genuine(signed'))]
  BY <1>4, HeldGrows
<1>7. s \in GoodStates(signed')
  <2>. HIDE DEF vs
  <2>. QED BY <1>3, <1>5, <1>6, SetCur
<1>8. /\ Submit(n, vs, v.vals) \subseteq Submissions
      /\ \A sub \in Submit(n, vs, v.vals) : AuthenticFor(sub, signed')
  <2>1. \A j \in DOMAIN vs.vals : vs.hashes[j] # NoHash =>
          SignatureOf(vs.vals[j].addr, vs.nonce, vs.vals, j, vs.hashes[j]) = sig
    <3>1. SignatureOf(v.vals[v.index].addr, vs.nonce, vs.vals, v.index, v.hash) = sig
      BY <1>1, <1>3 DEF SignatureOf
    <3>2. \A j \in DOMAIN v.vals : vs.hashes[j] = IF j = v.index THEN v.hash ELSE NoHash
      BY DEF NewVoteSet
    <3>. HIDE DEF vs, sig
    <3>. QED BY <1>3, <3>1, <3>2
  <2>2. vs \in VoteSets /\ mapped[n] \subseteq Hashes
    <3>. HIDE DEF vs
    <3>. QED BY <1>5 DEF Genuine, IInv
  <2>. HIDE DEF vs, sig
  <2>. QED BY <1>3, <1>4, <2>1, <2>2, SubmitAuthentic
<1>9. submitted' \subseteq submitted \cup Submit(n, vs, v.vals)
  BY DEF VoteFinish
<1>10. SubmissionsAuthentic' /\ submitted' \subseteq Submissions
  <2>. HIDE DEF vs, sig, v
  <2>. QED BY <1>4, <1>8, <1>9, AuthenticGrows DEF IInv
<1>11. /\ state' \in [Nodes -> GoodStates(signed')]
       /\ disk' \in [Nodes -> GoodStates(signed')]
       /\ net' \in [Links -> Seq(Genuine(signed'))]
  <2>1. Broadcast(net, n, "VoteSet", vs, {}) \in [Links -> Seq(Genuine(signed'))]
    <3>. HIDE DEF vs
    <3>. QED BY <1>5, <1>6, BroadcastType
  <2>2. \/ UNCHANGED <<state, disk, net>>
        \/ /\ state' = [state EXCEPT ![n] = s]
           /\ disk' = [disk EXCEPT ![n] = s]
           /\ net' = Broadcast(net, n, "VoteSet", vs, {})
    BY DEF VoteFinish
  <2>. HIDE DEF s, vs
  <2>. QED BY <1>6, <1>7, <2>1, <2>2
<1>12. /\ voting' \in [Nodes -> Votings \cup {Idle}]
       /\ \A m \in Nodes : voting'[m] # Idle => voting'[m].vals[voting'[m].index].addr = m
  BY DEF IInv, VoteFinish
<1>13. signed' \subseteq Signatures
  BY <1>3, <1>4 DEF IInv
<1>14. UNCHANGED <<epoch, peers, committing, mapped, faults>>
  BY DEF VoteFinish
<1>. QED
  BY <1>10, <1>11, <1>12, <1>13, <1>14 DEF IInv

\* vote() that cannot sign changes nothing else.
LEMMA VoteSignFailsKeeps ==
  ASSUME IInv, NEW n \in Nodes, VoteSignFails(n)
  PROVE  IInv'
BY DEF IInv, VoteSignFails, SubmissionsAuthentic, SignedFor

\* commitRoutine only reads before it calls commit().
LEMMA CommitBeginKeeps ==
  ASSUME IInv, NEW n \in Nodes, CommitBegin(n)
  PROVE  IInv'
BY DEF IInv, CommitBegin, SubmissionsAuthentic, SignedFor

\* commit() deletes a vote set that is not valid.
LEMMA CommitInvalidKeeps ==
  ASSUME IInv, NEW n \in Nodes, CommitInvalid(n)
  PROVE  IInv'
<1>. DEFINE s == [state[n] EXCEPT !.cur = NoVoteSet]
<1>1. s \in GoodStates(signed)
  BY SetCur DEF IInv
<1>2. state' = [state EXCEPT ![n] = s] /\ disk' = [disk EXCEPT ![n] = s]
  BY DEF CommitInvalid
<1>3. state' \in [Nodes -> GoodStates(signed)] /\ disk' \in [Nodes -> GoodStates(signed)]
  <2>. HIDE DEF s
  <2>. QED BY <1>1, <1>2 DEF IInv
<1>. QED
  BY <1>3 DEF IInv, CommitInvalid, CommitStep, SubmissionsAuthentic, SignedFor

\* commit() without consensus sends and saves what the node holds.
LEMMA CommitPendingKeeps ==
  ASSUME IInv, NEW n \in Nodes, CommitPending(n)
  PROVE  IInv'
<1>1. state[n] \in GoodStates(signed) /\ state[n].cur # NoVoteSet
  BY DEF IInv, CommitPending, CommitStep
<1>2. /\ state[n].cur \in Genuine(signed)
      /\ state[n].prevMaj # NoVoteSet => state[n].prevMaj \in Genuine(signed)
  BY <1>1, GoodStateFields
<1>3. SendAgain(n) \in [Links -> Seq(Genuine(signed))]
  BY <1>2, BroadcastType DEF SendAgain, IInv
<1>4. disk' \in [Nodes -> GoodStates(signed)]
  BY <1>1 DEF IInv, CommitPending
<1>. QED
  BY <1>3, <1>4 DEF IInv, CommitPending, CommitStep, SubmissionsAuthentic, SignedFor

\* A node that hands a converged vote set to the Fn hands it genuine votes.
LEMMA ConvergedSubmits ==
  ASSUME IInv, NEW n \in Nodes, NEW vals \in ValidatorSets, state[n].cur # NoVoteSet,
         IsValid(state[n].cur, vals)
  PROVE  /\ Submit(n, state[n].cur, vals) \subseteq Submissions
         /\ \A sub \in Submit(n, state[n].cur, vals) : AuthenticFor(sub, signed)
<1>1. state[n].cur \in Genuine(signed)
  BY GoodStateFields DEF IInv
<1>2. state[n].cur \in VoteSets /\ mapped[n] \subseteq Hashes
  BY <1>1 DEF Genuine, IInv
<1>. DEFINE cur == state[n].cur
<1>3. /\ cur.vals = vals
      /\ \A i \in DOMAIN cur.vals : cur.hashes[i] # NoHash =>
           SignatureOf(cur.vals[i].addr, cur.nonce, cur.vals, i, cur.hashes[i]) \in signed
  BY <1>1, ValidSlots
<1>. HIDE DEF cur
<1>4. /\ Submit(n, cur, cur.vals) \subseteq Submissions
      /\ \A sub \in Submit(n, cur, cur.vals) : AuthenticFor(sub, signed)
  <2>1. cur \in VoteSets
    BY <1>2 DEF cur
  <2>. QED BY <1>2, <1>3, <2>1, SubmitAuthentic
<1>. QED
  BY <1>3, <1>4 DEF cur

\* commit() with consensus: the vote set becomes the last majority and justifies
\* the next nonce, and what is submitted from it is authentic.
LEMMA CommitConvergedKeeps ==
  ASSUME IInv, NEW n \in Nodes, CommitConverged(n)
  PROVE  IInv'
<1>. DEFINE cur == state[n].cur
<1>1. PICK vals \in CommitValSets(n) :
        /\ IsValid(state[n].cur, vals)
        /\ HasConverged(state[n].cur, vals)
        /\ submitted' = IF IsSubmitter(n, state[n], vals)
                          THEN submitted \cup Submit(n, state[n].cur, vals)
                          ELSE submitted
        /\ state' = [state EXCEPT ![n] = AfterCommit(state[n], vals)]
        /\ disk'  = [disk EXCEPT ![n] = AfterCommit(state[n], vals)]
  BY DEF CommitConverged
<1>. DEFINE s == AfterCommit(state[n], vals)
<1>2. /\ cur # NoVoteSet /\ vals \in ValidatorSets
      /\ UNCHANGED <<epoch, peers, voting, mapped, signed, faults, net>>
      /\ committing' \in [Nodes -> DOMAIN ValHistory \cup {Idle}]
  BY ReadValSets DEF IInv, CommitConverged, CommitStep
<1>3. /\ cur \in Genuine(signed) /\ state[n].nonce \in Nat
      /\ cur.nonce = IF state[n].nonce = 0 THEN 1 ELSE state[n].nonce
  <2>1. state[n] \in GoodStates(signed)
    BY DEF IInv
  <2>. QED BY <1>2, <2>1, GoodStateFields
<1>4. s \in GoodStates(signed)
  <2>1. Justified(cur.nonce, signed) /\ Justified(cur.nonce + 1, signed)
    BY <1>1, <1>2, <1>3, ConvergedJustifies
  <2>. DEFINE k == state[n].nonce
  <2>0. /\ s = [cur |-> NoVoteSet, nonce |-> k + 1, prevMaj |-> cur, prevVals |-> vals]
        /\ s.cur = NoVoteSet /\ s.nonce = k + 1 /\ s.prevMaj = cur /\ s.prevVals = vals
    BY DEF AfterCommit
  <2>5. k \in Nat /\ cur.nonce = IF k = 0 THEN 1 ELSE k
    BY <1>3
  <2>2. s.nonce > 1 => Justified(s.nonce, signed)
    <3>. HIDE DEF s, cur, k
    <3>. QED BY <2>0, <2>1, <2>5
  <2>3. /\ s = [cur |-> NoVoteSet, nonce |-> s.nonce, prevMaj |-> cur, prevVals |-> vals]
        /\ s.cur = NoVoteSet /\ s.nonce \in Nat /\ s.prevMaj = cur /\ s.prevVals = vals
    <3>. HIDE DEF s, cur, k
    <3>. QED BY <2>0, <2>5
  <2>4. IsValid(cur, vals) /\ HasConverged(cur, vals)
    BY <1>1
  <2>. HIDE DEF s, cur
  <2>. QED BY <1>2, <1>3, <2>2, <2>3, <2>4 DEF GoodStates
<1>5. state' \in [Nodes -> GoodStates(signed)] /\ disk' \in [Nodes -> GoodStates(signed)]
  <2>1. state' = [state EXCEPT ![n] = s] /\ disk' = [disk EXCEPT ![n] = s]
    BY <1>1
  <2>. HIDE DEF s
  <2>. QED BY <1>4, <2>1 DEF IInv
<1>6. /\ submitted' \subseteq submitted \cup Submit(n, cur, vals)
      /\ Submit(n, cur, vals) \subseteq Submissions
      /\ \A sub \in Submit(n, cur, vals) : AuthenticFor(sub, signed')
  BY <1>1, <1>2, ConvergedSubmits
<1>7. SubmissionsAuthentic' /\ submitted' \subseteq Submissions
  <2>. HIDE DEF cur
  <2>. QED BY <1>2, <1>6, AuthenticGrows DEF IInv
<1>. QED
  BY <1>2, <1>5, <1>7 DEF IInv

\* A restart puts back what was saved, and forgets the rest.
LEMMA RestartKeeps ==
  ASSUME IInv, NEW n \in Nodes, Restart(n)
  PROVE  /\ state' \in [Nodes -> GoodStates(signed')]
         /\ disk' \in [Nodes -> GoodStates(signed')]
         /\ epoch' \in [Nodes -> DOMAIN ValHistory]
         /\ peers' \subseteq Topology
         /\ net' \in [Links -> Seq(Genuine(signed'))]
         /\ voting' \in [Nodes -> Votings \cup {Idle}]
         /\ \A m \in Nodes : voting'[m] # Idle => voting'[m].vals[voting'[m].index].addr = m
         /\ committing' \in [Nodes -> DOMAIN ValHistory \cup {Idle}]
         /\ mapped' \in [Nodes -> SUBSET Hashes]
         /\ signed' = signed
<1>1. signed' = signed /\ disk' = disk /\ epoch' = epoch
  BY DEF Restart
<1>2. state' \in [Nodes -> GoodStates(signed)] /\ mapped' \in [Nodes -> SUBSET Hashes]
  BY DEF IInv, Restart
<1>3. peers' \subseteq Topology /\ net' \in [Links -> Seq(Genuine(signed))]
  BY DropLinksType DEF IInv, Restart
<1>4. /\ voting' \in [Nodes -> Votings \cup {Idle}]
      /\ \A m \in Nodes : voting'[m] # Idle => voting'[m].vals[voting'[m].index].addr = m
      /\ committing' \in [Nodes -> DOMAIN ValHistory \cup {Idle}]
  BY DEF IInv, Restart
<1>. QED
  BY <1>1, <1>2, <1>3, <1>4 DEF IInv

\* A process that stops, or panics in commit(), restarts in a good state.
LEMMA CrashKeeps ==
  ASSUME IInv, NEW n \in Nodes, Crash(n) \/ CommitPanics(n)
  PROVE  IInv'
<1>0. faults \in Nat
  BY DEF IInv
<1>1. Restart(n) /\ submitted' = submitted
  BY DEF Crash, CommitPanics
<1>2. faults' = faults \/ faults' = faults + 1
  BY DEF Crash, CommitPanics
<1>3. faults' \in Nat
  BY <1>0, <1>2
<1>. QED
  BY <1>1, <1>3, RestartKeeps DEF IInv, SubmissionsAuthentic, SignedFor

\* A process may stop after it has submitted and before it has saved.
LEMMA CrashAfterSubmitKeeps ==
  ASSUME IInv, NEW n \in Nodes, CrashAfterSubmit(n)
  PROVE  IInv'
<1>1. PICK vals \in CommitValSets(n) :
        /\ IsValid(state[n].cur, vals)
        /\ submitted' = submitted \cup Submit(n, state[n].cur, vals)
  BY DEF CrashAfterSubmit
<1>0. /\ faults \in Nat /\ epoch \in [Nodes -> DOMAIN ValHistory]
      /\ committing \in [Nodes -> DOMAIN ValHistory \cup {Idle}]
  BY DEF IInv
<1>2. Restart(n) /\ faults' \in Nat /\ state[n].cur # NoVoteSet /\ vals \in ValidatorSets
  BY <1>0, ReadValSets DEF CrashAfterSubmit
<1>. DEFINE new == Submit(n, state[n].cur, vals)
<1>3. new \subseteq Submissions /\ \A sub \in new : AuthenticFor(sub, signed)
  BY <1>1, <1>2, ConvergedSubmits
<1>4. signed' = signed
  BY <1>2 DEF Restart
<1>5. SubmissionsAuthentic' /\ submitted' \subseteq Submissions
  <2>1. submitted' = submitted \cup new
    BY <1>1
  <2>. HIDE DEF new
  <2>. QED BY <1>3, <1>4, <2>1, AuthenticGrows DEF IInv
<1>6. signed' \subseteq Signatures
  BY <1>4 DEF IInv
<1>. QED
  BY <1>2, <1>5, <1>6, RestartKeeps DEF IInv

\* A vote set handler that does not vote keeps and passes on genuine votes.
LEMMA ReceiveVoteSetKeeps ==
  ASSUME IInv, NEW l \in Links, ReceiveVoteSet(l)
  PROVE  IInv'
<1>. DEFINE n      == l.to
            remote == Head(net[l])
<1>1. n \in Nodes /\ state[n] \in GoodStates(signed)
  BY DEF Links, IInv
<1>2. remote \in Genuine(signed) /\ Consumed(l) \in [Links -> Seq(Genuine(signed))]
  BY ReceivedType DEF IInv, ReceiveVoteSet, Receive
<1>3. PICK vals \in ReadBeforeLock(n) :
        \E a \in {Adopt(state[n], remote, vals)} :
            /\ \/ a.then = "return" /\ net' = Consumed(l)
               \/ /\ a.then = "vote" /\ Unsigned(n, a.s.cur, vals) = {}
                  /\ net' = IF a.changed
                              THEN Broadcast(Consumed(l), n, "VoteSet", a.s.cur,
                                             IF a.contributed THEN {} ELSE {l.from})
                              ELSE Consumed(l)
               \/ /\ a.then = "vote" /\ Unsigned(n, a.s.cur, vals) # {}
                  /\ FnErrors
                  /\ net' = Consumed(l)
            /\ state' = [state EXCEPT ![n] = a.s]
  BY DEF ReceiveVoteSet
<1>a. PICK a \in {Adopt(state[n], remote, vals)} :
            /\ \/ a.then = "return" /\ net' = Consumed(l)
               \/ /\ a.then = "vote" /\ Unsigned(n, a.s.cur, vals) = {}
                  /\ net' = IF a.changed
                              THEN Broadcast(Consumed(l), n, "VoteSet", a.s.cur,
                                             IF a.contributed THEN {} ELSE {l.from})
                              ELSE Consumed(l)
               \/ /\ a.then = "vote" /\ Unsigned(n, a.s.cur, vals) # {}
                  /\ FnErrors
                  /\ net' = Consumed(l)
            /\ state' = [state EXCEPT ![n] = a.s]
  BY <1>3
<1>b. a = Adopt(state[n], remote, vals)
  BY <1>a
<1>4. vals \in ValidatorSets
  BY <1>1, ReadValSets DEF IInv
<1>5. a.s \in GoodStates(signed) /\ (a.then = "vote" => a.s.cur \in Genuine(signed))
  BY <1>1, <1>2, <1>4, <1>b, AdoptGood
<1>6. /\ state' = [state EXCEPT ![n] = a.s]
      /\ \/ net' = Consumed(l)
         \/ /\ a.then = "vote"
            /\ \E x : net' = Broadcast(Consumed(l), n, "VoteSet", a.s.cur, x)
  BY <1>a
<1>. HIDE DEF n
<1>7. net' \in [Links -> Seq(Genuine(signed))]
  <2>. DEFINE G == Genuine(signed)
              q == Consumed(l)
              c == a.s.cur
  <2>1. q \in [Links -> Seq(G)] /\ (a.then = "vote" => c \in G)
    BY <1>2, <1>5
  <2>2. ASSUME NEW x, a.then = "vote"
        PROVE  Broadcast(q, n, "VoteSet", c, x) \in [Links -> Seq(G)]
    <3>. HIDE DEF G, q, c
    <3>. QED BY <2>1, <2>2, BroadcastType
  <2>. QED BY <1>6, <2>1, <2>2
<1>8. state' \in [Nodes -> GoodStates(signed)]
  BY <1>1, <1>5, <1>6 DEF IInv
<1>. QED
  BY <1>7, <1>8 DEF IInv, ReceiveVoteSet, Receive, SubmissionsAuthentic, SignedFor

\* A vote set handler that votes adds one signature, which is then made.
LEMMA ReceiveVoteSetAndVoteKeeps ==
  ASSUME IInv, NEW l \in Links, ReceiveVoteSetAndVote(l)
  PROVE  IInv'
<1>. DEFINE n      == l.to
            remote == Head(net[l])
<1>1. n \in Nodes /\ state[n] \in GoodStates(signed)
  BY DEF Links, IInv
<1>2. remote \in Genuine(signed) /\ Consumed(l) \in [Links -> Seq(Genuine(signed))]
  BY ReceivedType DEF IInv, ReceiveVoteSetAndVote, Receive
<1>3. PICK vals \in ReadBeforeLock(n), h \in Hashes, signOK \in {TRUE, ~SignErrors} :
        \E a \in {Adopt(state[n], remote, vals)} :
            /\ a.then = "vote"
            /\ \E i \in Unsigned(n, a.s.cur, vals) :
                 /\ ~AddVotePanics(a.s.cur, a.s.nonce, i)
                 /\ LET r == AddVote(a.s.cur, n, a.s.nonce, vals, i, h, signOK)
                    IN  /\ state'  = [state EXCEPT ![n] = [a.s EXCEPT !.cur = r.vs]]
                        /\ signed' = IF r.signed THEN signed \cup {r.vs.sigs[i]} ELSE signed
                        /\ net'    = IF r.ok
                                       THEN Broadcast(Consumed(l), n, "VoteSet", r.vs, {})
                                       ELSE Consumed(l)
            /\ mapped' = [mapped EXCEPT ![n] = @ \cup {h}]
  BY DEF ReceiveVoteSetAndVote
<1>a. PICK a \in {Adopt(state[n], remote, vals)} :
            /\ a.then = "vote"
            /\ \E i \in Unsigned(n, a.s.cur, vals) :
                 /\ ~AddVotePanics(a.s.cur, a.s.nonce, i)
                 /\ LET r == AddVote(a.s.cur, n, a.s.nonce, vals, i, h, signOK)
                    IN  /\ state'  = [state EXCEPT ![n] = [a.s EXCEPT !.cur = r.vs]]
                        /\ signed' = IF r.signed THEN signed \cup {r.vs.sigs[i]} ELSE signed
                        /\ net'    = IF r.ok
                                       THEN Broadcast(Consumed(l), n, "VoteSet", r.vs, {})
                                       ELSE Consumed(l)
            /\ mapped' = [mapped EXCEPT ![n] = @ \cup {h}]
  BY <1>3
<1>b. a = Adopt(state[n], remote, vals)
  BY <1>a
<1>4. vals \in ValidatorSets /\ signOK \in BOOLEAN
  BY <1>1, ReadValSets, ReactorAssumption DEF IInv
<1>5. /\ a.s \in GoodStates(signed) /\ a.s.cur \in Genuine(signed)
      /\ a.s.nonce = a.s.cur.nonce /\ a.s.nonce \in Nat
  <2>1. /\ a.s \in GoodStates(signed)
        /\ a.then = "vote" => a.s.cur \in Genuine(signed) /\ a.s.nonce = a.s.cur.nonce
    BY <1>1, <1>2, <1>4, <1>b, AdoptGood
  <2>2. a.then = "vote"
    BY <1>a
  <2>. QED BY <2>1, <2>2, GoodStateFields
<1>6. PICK i \in Unsigned(n, a.s.cur, vals) :
        /\ ~AddVotePanics(a.s.cur, a.s.nonce, i)
        /\ LET r == AddVote(a.s.cur, n, a.s.nonce, vals, i, h, signOK)
           IN  /\ state'  = [state EXCEPT ![n] = [a.s EXCEPT !.cur = r.vs]]
               /\ signed' = IF r.signed THEN signed \cup {r.vs.sigs[i]} ELSE signed
               /\ net'    = IF r.ok
                              THEN Broadcast(Consumed(l), n, "VoteSet", r.vs, {})
                              ELSE Consumed(l)
  BY <1>a
<1>. DEFINE r == AddVote(a.s.cur, n, a.s.nonce, vals, i, h, signOK)
<1>7. i \in DOMAIN vals
  BY DEF Unsigned, IndexOf
<1>8. /\ r.signed => /\ r.vs \in Genuine(signed \cup {r.vs.sigs[i]})
                     /\ r.vs.sigs[i] \in Signatures
      /\ ~r.signed => r.vs \in Genuine(signed)
      /\ r.vs.nonce = a.s.cur.nonce
  <2>. DEFINE c == a.s.cur
              k == a.s.nonce
  <2>1. c \in Genuine(signed) /\ k \in Nat /\ ~AddVotePanics(c, k, i)
    BY <1>5, <1>6
  <2>2. AddsGenuineVote(signed, c, AddVote(c, n, k, vals, i, h, signOK), i)
    <3>. HIDE DEF c, k, n
    <3>. QED BY <1>1, <1>4, <1>7, <2>1, AddVoteGenuine
  <2>. QED BY <2>2 DEF AddsGenuineVote
<1>9. mapped' \in [Nodes -> SUBSET Hashes]
  BY <1>1, <1>a DEF IInv
<1>10. /\ state'  = [state EXCEPT ![n] = [a.s EXCEPT !.cur = r.vs]]
       /\ signed' = IF r.signed THEN signed \cup {r.vs.sigs[i]} ELSE signed
       /\ net' = Consumed(l) \/ net' = Broadcast(Consumed(l), n, "VoteSet", r.vs, {})
  BY <1>6
<1>. HIDE DEF r, n
<1>11. /\ signed \subseteq signed' /\ signed' \subseteq Signatures
       /\ r.vs \in Genuine(signed')
  BY <1>8, <1>10 DEF IInv
<1>12. /\ state \in [Nodes -> GoodStates(signed')]
       /\ disk \in [Nodes -> GoodStates(signed')]
       /\ a.s \in GoodStates(signed')
       /\ Consumed(l) \in [Links -> Seq(Genuine(signed'))]
  BY <1>2, <1>5, <1>11, HeldGrows, GenuineGrows, QueuesGrow
<1>13. [a.s EXCEPT !.cur = r.vs] \in GoodStates(signed')
  <2>1. NonceOf(a.s) = a.s.nonce
    BY <1>5, VoteSetShape DEF NonceOf, Genuine
  <2>. QED BY <1>5, <1>8, <1>11, <1>12, <2>1, SetCur
<1>14. state' \in [Nodes -> GoodStates(signed')]
  BY <1>1, <1>10, <1>12, <1>13
<1>15. net' \in [Links -> Seq(Genuine(signed'))]
  <2>. DEFINE G == Genuine(signed')
              q == Consumed(l)
              c == r.vs
  <2>1. q \in [Links -> Seq(G)] /\ c \in G
    BY <1>11, <1>12
  <2>2. Broadcast(q, n, "VoteSet", c, {}) \in [Links -> Seq(G)]
    <3>. HIDE DEF G, q, c
    <3>. QED BY <2>1, BroadcastType
  <2>. QED BY <1>10, <2>1, <2>2
<1>16. UNCHANGED <<disk, epoch, peers, voting, committing, submitted, faults>>
  BY DEF ReceiveVoteSetAndVote, Receive
<1>17. SubmissionsAuthentic'
  <2>. DEFINE none == {}
  <2>1. submitted' \subseteq submitted \cup none /\ SubmissionsAuthentic
    BY <1>16 DEF IInv
  <2>2. \A sub \in none : AuthenticFor(sub, signed')
    OBVIOUS
  <2>. HIDE DEF none
  <2>. QED BY <1>11, <2>1, <2>2, AuthenticGrows
<1>. QED
  BY <1>9, <1>11, <1>12, <1>14, <1>15, <1>16, <1>17 DEF IInv

\* A vote set handler that panics leaves what it had stored by then.
LEMMA ReceiveVoteSetPanicsKeeps ==
  ASSUME IInv, NEW l \in Links, ReceiveVoteSetPanics(l)
  PROVE  IInv'
<1>. DEFINE n      == l.to
            remote == Head(net[l])
<1>1. n \in Nodes /\ state[n] \in GoodStates(signed)
  BY DEF Links, IInv
<1>2. remote \in Genuine(signed)
  BY ReceivedType DEF IInv, ReceiveVoteSetPanics, Receive
<1>3. PICK vals \in ReadBeforeLock(n) :
        /\ state' = [state EXCEPT ![n] = Adopt(state[n], remote, vals).s]
        /\ UNCHANGED mapped \/ \E h \in Hashes : mapped' = [mapped EXCEPT ![n] = @ \cup {h}]
  BY DEF ReceiveVoteSetPanics
<1>. DEFINE a == Adopt(state[n], remote, vals)
<1>4. vals \in ValidatorSets
  BY <1>1, ReadValSets DEF IInv
<1>5. a.s \in GoodStates(signed)
  BY <1>1, <1>2, <1>4, AdoptGood
<1>6. state' \in [Nodes -> GoodStates(signed)] /\ mapped' \in [Nodes -> SUBSET Hashes]
  <2>1. state' = [state EXCEPT ![n] = a.s]
    BY <1>3
  <2>2. state \in [Nodes -> GoodStates(signed)] /\ mapped \in [Nodes -> SUBSET Hashes]
    BY DEF IInv
  <2>3. mapped' \in [Nodes -> SUBSET Hashes]
    BY <1>1, <1>3, <2>2
  <2>. HIDE DEF a, n
  <2>4. state' \in [Nodes -> GoodStates(signed)]
    BY <1>1, <1>5, <2>1, <2>2
  <2>. QED BY <2>3, <2>4
<1>7. net' \in [Links -> Seq(Genuine(signed))] /\ peers' \subseteq Topology
  BY DropLinksType DEF ReceiveVoteSetPanics, IInv
<1>. QED
  BY <1>6, <1>7 DEF IInv, ReceiveVoteSetPanics, Receive, SubmissionsAuthentic, SignedFor

\* The states ReceiveMaj saves are good: the new majority is valid and converged.
LEMMA MajorityGood ==
  ASSUME NEW sg, NEW s \in GoodStates(sg), NEW remote \in Genuine(sg),
         NEW v \in ValidatorSets, IsValid(remote, v), HasConverged(remote, v)
  PROVE  /\ AfterMajority(remote, v) \in GoodStates(sg)
         /\ RecallMajority(s, remote, v) \in GoodStates(sg)
<1>1. remote.nonce \in Nat /\ Justified(remote.nonce + 1, sg)
  BY ConvergedJustifies, VoteSetShape DEF Genuine
<1>2. AfterMajority(remote, v) \in GoodStates(sg)
  <2>. DEFINE k == remote.nonce + 1
              new == [cur |-> NoVoteSet, nonce |-> k, prevMaj |-> remote, prevVals |-> v]
  <2>1. k \in Nat /\ Justified(k, sg)
    BY <1>1
  <2>. HIDE DEF k
  <2>2. new \in GoodStates(sg)
    BY <2>1 DEF GoodStates
  <2>. QED BY <2>2 DEF AfterMajority, k
<1>3. RecallMajority(s, remote, v) \in GoodStates(sg)
  BY GoodStateFields DEF RecallMajority, GoodStates, NonceOf
<1>. QED BY <1>2, <1>3

\* The majority handler keeps only valid, converged majorities.
LEMMA ReceiveMajKeeps ==
  ASSUME IInv, NEW l \in Links, ReceiveMaj(l)
  PROVE  IInv'
<1>. DEFINE n      == l.to
            s      == state[n]
            remote == Head(net[l])
<1>1. n \in Nodes /\ s \in GoodStates(signed)
  BY DEF Links, IInv
<1>2. remote \in Genuine(signed) /\ Consumed(l) \in [Links -> Seq(Genuine(signed))]
  BY ReceivedType DEF IInv, ReceiveMaj, Receive
<1>3. \A v \in SignedBy(s, ValSetOf(n), remote) : v \in ValidatorSets /\ IsValid(remote, v)
  <2>1. ValSetOf(n) \in ValidatorSets
    BY <1>1, ReadValSets DEF IInv
  <2>2. s.prevVals \in ValidatorSets \cup {NoValSet}
    BY <1>1, GoodStateFields
  <2>. HIDE DEF s, remote
  <2>. QED BY <2>1, <2>2 DEF SignedBy
<1>4. /\ UNCHANGED <<epoch, voting, committing, submitted, faults, peers, mapped, signed>>
      /\ \/ UNCHANGED <<state, disk>>
         \/ \E v \in SignedBy(s, ValSetOf(n), remote) :
              /\ HasConverged(remote, v)
              /\ \E new \in {s, RecallMajority(s, remote, v),
                             AfterMajority(remote, v)} :
                   /\ state' = [state EXCEPT ![n] = new]
                   /\ disk' = [disk EXCEPT ![n] = new]
      /\ \/ net' = Consumed(l)
         \/ net' = Broadcast(Consumed(l), n, "Maj", remote, {})
  BY DEF ReceiveMaj, Receive
<1>5. net' \in [Links -> Seq(Genuine(signed))]
  <2>. DEFINE G == Genuine(signed)
              q == Consumed(l)
  <2>1. q \in [Links -> Seq(G)] /\ remote \in G
    BY <1>2
  <2>2. Broadcast(q, n, "Maj", remote, {}) \in [Links -> Seq(G)]
    <3>. HIDE DEF G, q, remote
    <3>. QED BY <2>1, BroadcastType
  <2>. QED BY <1>4, <2>1, <2>2
<1>6. ASSUME NEW v \in SignedBy(s, ValSetOf(n), remote), HasConverged(remote, v)
      PROVE  /\ AfterMajority(remote, v) \in GoodStates(signed)
             /\ RecallMajority(s, remote, v) \in GoodStates(signed)
  <2>1. v \in ValidatorSets /\ IsValid(remote, v) /\ HasConverged(remote, v)
    BY <1>3, <1>6
  <2>. HIDE DEF s, remote
  <2>. QED BY <1>1, <1>2, <2>1, MajorityGood
<1>7. \/ UNCHANGED <<state, disk>>
      \/ \E new \in GoodStates(signed) : /\ state' = [state EXCEPT ![n] = new]
                                       /\ disk' = [disk EXCEPT ![n] = new]
  <2>. HIDE DEF s, remote, n
  <2>. QED BY <1>1, <1>4, <1>6
<1>8. state' \in [Nodes -> GoodStates(signed)] /\ disk' \in [Nodes -> GoodStates(signed)]
  <2>1. CASE UNCHANGED <<state, disk>>
    BY <2>1 DEF IInv
  <2>2. CASE \E new \in GoodStates(signed) : /\ state' = [state EXCEPT ![n] = new]
                                            /\ disk' = [disk EXCEPT ![n] = new]
    <3>. DEFINE G == GoodStates(signed)
    <3>1. state \in [Nodes -> G] /\ disk \in [Nodes -> G]
      BY DEF IInv
    <3>2. PICK new \in G : /\ state' = [state EXCEPT ![n] = new]
                           /\ disk' = [disk EXCEPT ![n] = new]
      BY <2>2
    <3>. HIDE DEF G, n
    <3>3. state' \in [Nodes -> G] /\ disk' \in [Nodes -> G]
      BY <1>1, <3>1, <3>2
    <3>. QED BY <3>3 DEF G
  <2>. QED BY <1>7, <2>1, <2>2
<1>. QED
  BY <1>4, <1>5, <1>8 DEF IInv, SubmissionsAuthentic, SignedFor

\* Connections come and go without touching a node.
LEMMA NetworkKeeps ==
  ASSUME IInv, NEW pair \in Topology, Connect(pair) \/ Disconnect(pair)
  PROVE  IInv'
<1>1. CASE Connect(pair)
  BY <1>1 DEF IInv, Connect, SubmissionsAuthentic, SignedFor
<1>2. CASE Disconnect(pair)
  <2>1. net' \in [Links -> Seq(Genuine(signed))]
    BY <1>2, DropLinksType DEF Disconnect, IInv
  <2>0. faults \in Nat /\ peers \subseteq Topology
    BY DEF IInv
  <2>2. faults' \in Nat /\ peers' \subseteq Topology
    BY <1>2, <2>0 DEF Disconnect
  <2>3. UNCHANGED <<state, disk, epoch, voting, committing, mapped, signed, submitted>>
    BY <1>2 DEF Disconnect
  <2>. QED
    BY <2>1, <2>2, <2>3 DEF IInv, SubmissionsAuthentic, SignedFor
<1>. QED BY <1>1, <1>2

\* A node that commits a block moves along the history of validator sets.
LEMMA AdvanceEpochKeeps ==
  ASSUME IInv, NEW n \in Nodes, AdvanceEpoch(n)
  PROVE  IInv'
<1>1. epoch' \in [Nodes -> DOMAIN ValHistory]
  <2>. DEFINE D == DOMAIN ValHistory
              N == Len(ValHistory)
  <2>1. D = 1 .. N /\ N \in Nat
    BY HistoryLength
  <2>2. epoch[n] \in D /\ epoch[n] < N
    BY DEF IInv, AdvanceEpoch
  <2>3. epoch[n] + 1 \in D
    <3>. HIDE DEF D, N
    <3>. QED BY <2>1, <2>2
  <2>4. epoch \in [Nodes -> D] /\ epoch' = [epoch EXCEPT ![n] = epoch[n] + 1]
    BY DEF IInv, AdvanceEpoch
  <2>. HIDE DEF D
  <2>5. epoch' \in [Nodes -> D]
    BY <2>3, <2>4
  <2>. QED BY <2>5 DEF D
<1>. QED
  BY <1>1 DEF IInv, AdvanceEpoch, SubmissionsAuthentic, SignedFor

-----------------------------------------------------------------------------
\* The invariant holds when the nodes start with nothing loaded or saved.
LEMMA InitEstablishes == Init => IInv
<1>. SUFFICES ASSUME Init PROVE IInv
  OBVIOUS
<1>1. NewReactorState \in GoodStates(signed)
  BY DEF NewReactorState, GoodStates
<1>2. 1 \in DOMAIN ValHistory
  <2>. DEFINE D == DOMAIN ValHistory
              N == Len(ValHistory)
  <2>1. D = 1 .. N /\ N \in Nat /\ N > 0
    BY HistoryLength, ValHistoryAssumption
  <2>. HIDE DEF D, N
  <2>2. 1 \in D
    BY <2>1
  <2>. QED BY <2>2 DEF D
<1>3. net \in [Links -> Seq(Genuine(signed))]
  BY DEF Init
<1>4. state \in [Nodes -> GoodStates(signed)] /\ disk \in [Nodes -> GoodStates(signed)]
  <2>. HIDE DEF NewReactorState
  <2>. QED BY <1>1 DEF Init
<1>5. epoch \in [Nodes -> DOMAIN ValHistory]
  BY <1>2 DEF Init
<1>6. peers \subseteq Topology
  BY ReactorAssumption DEF Init
<1>. QED
  BY <1>3, <1>4, <1>5, <1>6 DEF Init, IInv, SubmissionsAuthentic

\* Every step of every thread of every node preserves the invariant.
LEMMA NextPreserves == IInv /\ [Next]_vars => IInv'
<1>. SUFFICES ASSUME IInv, [Next]_vars PROVE IInv'
  OBVIOUS
<1>1. ASSUME NEW n \in Nodes, NodeStep(n)
      PROVE  IInv'
  BY <1>1, VoteBeginKeeps, VoteFinishKeeps, VoteSignFailsKeeps, CommitBeginKeeps,
     CommitInvalidKeeps, CommitPendingKeeps, CommitConvergedKeeps, CrashKeeps
     DEF NodeStep, CommitEnd
<1>2. ASSUME NEW n \in Nodes, Crash(n) \/ CrashAfterSubmit(n) \/ AdvanceEpoch(n)
      PROVE  IInv'
  BY <1>2, CrashKeeps, CrashAfterSubmitKeeps, AdvanceEpochKeeps
<1>3. ASSUME NEW l \in Links, Handle(l)
      PROVE  IInv'
  BY <1>3, ReceiveVoteSetKeeps, ReceiveVoteSetAndVoteKeeps, ReceiveVoteSetPanicsKeeps,
     ReceiveMajKeeps DEF Handle
<1>4. ASSUME NEW pair \in Topology, Connect(pair) \/ Disconnect(pair)
      PROVE  IInv'
  BY <1>4, NetworkKeeps
<1>5. CASE UNCHANGED vars
  BY <1>5 DEF vars, IInv, SubmissionsAuthentic, SignedFor
<1>. QED
  BY <1>1, <1>2, <1>3, <1>4, <1>5 DEF Next

\* The inductive invariant holds in every reachable state.
THEOREM Invariance == Spec => []IInv
BY InitEstablishes, NextPreserves, PTL DEF Spec

\* The reactor's state stays well formed: the arrays of every vote set in
\* memory, on disk and in flight have one slot per validator.
THEOREM TypeCorrect == Spec => []TypeOK
<1>1. IInv => TypeOK
  <2>. SUFFICES ASSUME IInv PROVE TypeOK
    OBVIOUS
  <2>1. Genuine(signed) \subseteq VoteSets
    BY DEF Genuine
  <2>2. GoodStates(signed) \subseteq ReactorStates
    BY <2>1 DEF GoodStates, ReactorStates
  <2>3. net \in [Links -> Seq(VoteSets)]
    BY <2>1, QueuesGrow DEF IInv
  <2>. QED
    BY <2>2, <2>3 DEF IInv, TypeOK
<1>. QED
  BY <1>1, Invariance, PTL

\* Every message SubmitMultiSignedMessage is handed carries a threshold of
\* signatures that its validators really made for it.
THEOREM Authenticity == Spec => []SubmissionsAuthentic
<1>1. IInv => SubmissionsAuthentic
  BY DEF IInv
<1>. QED
  BY <1>1, Invariance, PTL

\* Two different messages submitted for one nonce and validator set have a
\* signer in common: quorums intersect, and submissions are authentic.
THEOREM Agreement == Spec => []DisagreementNeedsEquivocation
<1>1. IInv => DisagreementNeedsEquivocation
  <2>. SUFFICES ASSUME IInv, NEW s \in submitted, NEW t \in submitted,
                       s.nonce = t.nonce, s.vals = t.vals, s.hash # t.hash
                PROVE  \E i \in DOMAIN s.vals : /\ SignedFor(i, s.nonce, s.vals, s.hash)
                                                /\ SignedFor(i, s.nonce, s.vals, t.hash)
    BY DEF DisagreementNeedsEquivocation
  <2>1. s.vals \in ValidatorSets
    BY DEF IInv, Submissions
  <2>2. /\ s.agree \subseteq DOMAIN s.vals /\ t.agree \subseteq DOMAIN s.vals
        /\ Reached(VotingPower(s.vals, s.agree), s.vals)
        /\ Reached(VotingPower(s.vals, t.agree), s.vals)
    BY DEF IInv, SubmissionsAuthentic
  <2>3. PICK i \in DOMAIN s.vals : i \in s.agree /\ i \in t.agree
    BY <2>1, <2>2, QuorumAssumption
  <2>4. SignedFor(i, s.nonce, s.vals, s.hash) /\ SignedFor(i, s.nonce, s.vals, t.hash)
    BY <2>3 DEF IInv, SubmissionsAuthentic
  <2>. QED BY <2>4
<1>. QED
  BY <1>1, Invariance, PTL

\* No node is past a nonce without a threshold of signatures at that nonce or
\* at the one before its own.
THEOREM NoRunningAhead == Spec => []NonceJustified
<1>1. IInv => NonceJustified
  <2>. SUFFICES ASSUME IInv, NEW n \in Nodes, state[n].nonce > 1
                PROVE  \E vals \in ValidatorSets, k \in {state[n].nonce - 1, state[n].nonce} :
                         \E Q \in SUBSET (DOMAIN vals) :
                           /\ Reached(VotingPower(vals, Q), vals)
                           /\ \A i \in Q : \E h \in Hashes : SignedFor(i, k, vals, h)
    BY DEF NonceJustified
  <2>1. Justified(state[n].nonce, signed)
    BY GoodStateFields DEF IInv
  <2>. QED BY <2>1 DEF Justified, SignedFor
<1>. QED
  BY <1>1, Invariance, PTL

\* The last majority a node keeps, in memory and on disk, is one that its peers
\* accept: valid and converged for the validator set kept with it.
THEOREM MajorityKept == Spec => []LastMajorityAcceptable
<1>1. IInv => LastMajorityAcceptable
  <2>. SUFFICES ASSUME IInv, NEW n \in Nodes, NEW s \in {state[n], disk[n]},
                       s.prevMaj # NoVoteSet
                PROVE  IsValid(s.prevMaj, s.prevVals) /\ HasConverged(s.prevMaj, s.prevVals)
    BY DEF LastMajorityAcceptable
  <2>0. state[n] \in GoodStates(signed) /\ disk[n] \in GoodStates(signed)
    BY DEF IInv
  <2>1. s \in GoodStates(signed)
    BY <2>0
  <2>. QED BY <2>1, GoodStateFields
<1>. QED
  BY <1>1, Invariance, PTL

=============================================================================
