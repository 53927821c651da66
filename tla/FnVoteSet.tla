------------------------------ MODULE FnVoteSet ------------------------------
(***************************************************************************)
(* The vote sets of the fn-consensus reactor (src/fnConsensus/types.go):   *)
(* the votes a group of validators cast on the message one registered Fn   *)
(* wants multi-signed, and the operations the reactor performs on them.    *)
(*                                                                         *)
(* A validator set is a sequence of [addr, power] records; it stands for   *)
(* its own hash.  A message is known only by its hash.  A signature is the *)
(* record of the bytes that were signed, so it can be copied, not forged.  *)
(***************************************************************************)
EXTENDS Integers, Sequences, FiniteSets, Functions

CONSTANTS
  Nodes,             \* the nodes; a validator's address is its node
  ValHistory,        \* the validator sets the chain goes through, in order
  Hashes,            \* hashes of the messages a Fn may return
  NoHash, NoSig,     \* nil entries of Hashes and ValidatorSignatures
  SigningThreshold   \* "Maj23" or "All"

ValidatorSets == Range(ValHistory)

ASSUME ValHistoryAssumption ==
  /\ ValHistory \in Seq(Seq([addr : Nodes, power : Nat \ {0}]))
  /\ Len(ValHistory) > 0

ASSUME ThresholdAssumption == SigningThreshold \in {"Maj23", "All"}

-----------------------------------------------------------------------------
\* Voting power

\* A table, so that TLC sums each set of validators once.
VotingPowers ==
  [vals \in ValidatorSets |->
     [S \in SUBSET (DOMAIN vals) |->
        SumFunctionOnSet([i \in DOMAIN vals |-> vals[i].power], S)]]

VotingPower(vals, S) == VotingPowers[vals][S]

TotalVotingPower(vals) == VotingPower(vals, DOMAIN vals)

\* The comparison HasConverged and ToMajResponse make with the total power.
Reached(power, vals) ==
  IF SigningThreshold = "All"
    THEN power = TotalVotingPower(vals)
    ELSE power >= (TotalVotingPower(vals) * 2) \div 3 + 1

\* Two sets of validators that each reach the threshold share a validator:
\* what 2/3 + 1 is for.  A sum over a set is beyond the provers, so the fact
\* is an assumption on the validator sets, which TLC evaluates.
ASSUME QuorumAssumption ==
  \A vals \in ValidatorSets : \A Q1, Q2 \in SUBSET (DOMAIN vals) :
    /\ Reached(VotingPower(vals, Q1), vals)
    /\ Reached(VotingPower(vals, Q2), vals)
    => Q1 \cap Q2 # {}

ASSUME PowerAssumption ==
  \A vals \in ValidatorSets : \A Q \in SUBSET (DOMAIN vals) :
    VotingPower(vals, Q) \in Nat

\* Position of a node in a validator set: the set of its indices (at most one).
IndexOf(vals, n) == {i \in DOMAIN vals : vals[i].addr = n}

-----------------------------------------------------------------------------
\* Vote sets

Signatures ==
  [signer : Nodes, addr : Nodes, nonce : Nat, vals : ValidatorSets, hash : Hashes]

ASSUME NilAssumption == NoHash \notin Hashes /\ NoSig \notin Signatures

\* FnVoteSet, with the hashes of its payload's response.
VoteSets ==
  {vs \in [nonce  : Nat \ {0},
           vals   : ValidatorSets,
           power  : Nat,
           votes  : SUBSET Nat,
           hashes : Seq(Hashes \cup {NoHash}),
           sigs   : Seq(Signatures \cup {NoSig})] :
     /\ vs.votes \subseteq DOMAIN vs.vals
     /\ Len(vs.hashes) = Len(vs.vals)
     /\ Len(vs.sigs) = Len(vs.vals)}

\* SignBytes: what node n signs when it votes h in slot i of a vote set.
SignatureOf(n, nonce, vals, i, h) ==
  [signer |-> n, addr |-> vals[i].addr, nonce |-> nonce, vals |-> vals, hash |-> h]

\* NewFnExecutionResponse and NewVoteSet: the vote of node n alone.
NewVoteSet(n, nonce, vals, i, h) ==
  [nonce  |-> nonce,
   vals   |-> vals,
   power  |-> vals[i].power,
   votes  |-> {i},
   hashes |-> [j \in DOMAIN vals |-> IF j = i THEN h ELSE NoHash],
   sigs   |-> [j \in DOMAIN vals |->
                 IF j = i THEN SignatureOf(n, nonce, vals, i, h) ELSE NoSig]]

\* Mutated HasConverged: any vote is enough.
HasConvergedOnAnyVote(vs, vals) == vs.power > 0

HasConverged(vs, vals) == Reached(vs.power, vals)

\* The slots of vs that voted for h.
AgreeVotes(vs, h) == {i \in DOMAIN vs.hashes : vs.hashes[i] = h}

\* Mutated ToMajResponse: the threshold is compared with the power of all votes.
MajHashesOfAllVotes(vs, vals) ==
  {h \in Hashes : /\ AgreeVotes(vs, h) # {}
                  /\ Reached(VotingPower(vals, vs.votes \cap DOMAIN vals), vals)}

\* ToMajResponse: the hash the threshold agrees on, as a set of at most one.
MajHashes(vs, vals) ==
  {h \in Hashes : Reached(VotingPower(vals, AgreeVotes(vs, h) \cap DOMAIN vals), vals)}

\* GetByIndex returns nil past the end of the set, which ToMajResponse uses.
MajResponsePanics(vs, vals) ==
  \E i \in DOMAIN vs.hashes : vs.hashes[i] # NoHash /\ i \notin DOMAIN vals

AgreeIndex(agree, i) == Cardinality({j \in agree : j <= i}) - 1

\* VerifyValidatorSign
VerifyValidatorSign(vs, i) ==
  vs.sigs[i] = SignatureOf(vs.vals[i].addr, vs.nonce, vs.vals, i, vs.hashes[i])

IsValid(vs, vals) ==
  /\ vs.vals = vals
  /\ \A i \in DOMAIN vals :
       /\ (i \in vs.votes) <=> (vs.hashes[i] # NoHash)
       /\ i \in vs.votes => VerifyValidatorSign(vs, i)
  /\ vs.power = VotingPower(vals, vs.votes)

\* CannonicalCompare; the lengths agree when the validator sets do.
CannonicalCompare(vs, other) == vs.nonce = other.nonce /\ vs.vals = other.vals

\* The payload is merged before the votes, each by its own bit array.
Merge(vs, other) ==
  LET new == other.votes \ vs.votes IN
  [nonce  |-> vs.nonce,
   vals   |-> vs.vals,
   power  |-> vs.power + VotingPower(vs.vals, new),
   votes  |-> vs.votes \cup new,
   hashes |-> [i \in DOMAIN vs.hashes |->
                 IF vs.hashes[i] # NoHash THEN vs.hashes[i] ELSE other.hashes[i]],
   sigs   |-> [i \in DOMAIN vs.sigs |-> IF i \in new THEN other.sigs[i] ELSE vs.sigs[i]]]

\* AddSignature indexes past the end of a vote set of a smaller validator set.
AddVotePanics(vs, nonce, i) == vs.nonce = nonce /\ i \notin DOMAIN vs.hashes

\* AddVote: the vote set afterwards, whether the vote was signed, and whether
\* AddVote returned no error.  The response is written before the signature is
\* made, and the bit and signature before the address is compared.
AddVote(vs, n, nonce, vals, i, h, signOK) ==
  IF vs.nonce # nonce \/ vs.hashes[i] # NoHash
    THEN [vs |-> vs, signed |-> FALSE, ok |-> FALSE]
  ELSE IF ~signOK
    THEN [vs |-> [vs EXCEPT !.hashes[i] = h], signed |-> FALSE, ok |-> FALSE]
  ELSE LET same == vs.vals[i].addr = vals[i].addr IN
       [vs     |-> [nonce  |-> vs.nonce,
                    vals   |-> vs.vals,
                    power  |-> IF same THEN vs.power + vals[i].power ELSE vs.power,
                    votes  |-> vs.votes \cup {i},
                    hashes |-> [vs.hashes EXCEPT ![i] = h],
                    sigs   |-> [vs.sigs EXCEPT ![i] = SignatureOf(n, nonce, vs.vals, i, h)]],
        signed |-> TRUE,
        ok     |-> same]

NumberOfVotes(vs) == Cardinality(vs.votes)

=============================================================================
