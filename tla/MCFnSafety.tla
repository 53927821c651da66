----------------------------- MODULE MCFnSafety -----------------------------
(* Several small instances of FnConsensus, for one run of TLC.             *)
EXTENDS MCFnConsensus

CONSTANTS h1, h2

-----------------------------------------------------------------------------
\* A later state to start from: n1 and n2 have moved on to nonce 2 after the
\* validators in slots S agreed on h at nonce 1, n3 still holds their votes in
\* memory, and whose turn it was has submitted (n3 has not had its turn yet).
Agreed(vals, S, h) ==
  [nonce  |-> 1,
   vals   |-> vals,
   power  |-> VotingPower(vals, S),
   votes  |-> S,
   hashes |-> [i \in DOMAIN vals |-> IF i \in S THEN h ELSE NoHash],
   sigs   |-> [i \in DOMAIN vals |->
                IF i \in S THEN SignatureOf(vals[i].addr, 1, vals, i, h) ELSE NoSig]]

LateInit(vals, S, h) ==
  LET vs   == Agreed(vals, S, h)
      done == [cur |-> NoVoteSet, nonce |-> 2, prevMaj |-> vs, prevVals |-> vs.vals]
      late == [NewReactorState EXCEPT !.cur = vs, !.nonce = 1]
  IN  /\ state      = [n \in Nodes |-> IF n = n3 THEN late ELSE done]
      /\ disk       = [n \in Nodes |-> IF n = n3 THEN NewReactorState ELSE done]
      /\ epoch      = [n \in Nodes |-> 1]
      /\ peers      = Star
      /\ net        = [l \in Links |-> <<>>]
      /\ voting     = [n \in Nodes |-> Idle]
      /\ committing = [n \in Nodes |-> Idle]
      /\ mapped     = [n \in Nodes |-> {h}]
      /\ signed     = {vs.sigs[i] : i \in S}
      /\ submitted  = {sub \in Submit(n2, vs, vs.vals) : n2 = vs.vals[2].addr /\ 2 \in S}
      /\ faults     = 0

-----------------------------------------------------------------------------
\* One run covers several instances, which differ in the validator sets and in
\* what is bounded; the instance is chosen at the start.
VARIABLE instance

\* Two validators disagree; one crash or lost connection.
Disagree == INSTANCE FnConsensus WITH
  ValHistory <- MCTwo, Topology <- Pair, InitialPeers <- Pair, FnErrors <- FALSE,
  SignErrors <- FALSE, Starters <- {n1, n2}, Committers <- {n2}, MaxNonce <- 1, MaxFaults <- 1

\* Two validators go through two nonces; one crash or lost connection.
Rounds == INSTANCE FnConsensus WITH
  ValHistory <- MCTwo, Hashes <- {h1}, Topology <- Pair, InitialPeers <- Pair, FnErrors <- FALSE,
  SignErrors <- FALSE, Starters <- {n1, n2}, Committers <- {n1, n2}, MaxNonce <- 2, MaxFaults <- 1

\* The Fn and the private validator fail.
Errors == INSTANCE FnConsensus WITH
  ValHistory <- MCTwo, Hashes <- {h1}, Topology <- Pair, InitialPeers <- Pair, FnErrors <- TRUE,
  SignErrors <- TRUE, Starters <- {n1, n2}, Committers <- {n1, n2}, MaxNonce <- 1, MaxFaults <- 0

\* Three validators of unequal power, of which one may be missing.
Weighted == INSTANCE FnConsensus WITH
  ValHistory <- MCThree, Topology <- Star, InitialPeers <- Star, FnErrors <- FALSE,
  SignErrors <- FALSE, Starters <- {n1}, Committers <- {n1, n2}, MaxNonce <- 1, MaxFaults <- 0

\* A validator joins, or leaves, in the second nonce.
Joining == INSTANCE FnConsensus WITH
  ValHistory <- MCJoin, Hashes <- {h1}, Topology <- Star, InitialPeers <- Star, FnErrors <- FALSE,
  SignErrors <- FALSE, Starters <- {n1, n2}, Committers <- {n3}, MaxNonce <- 2, MaxFaults <- 0

Leaving == INSTANCE FnConsensus WITH
  ValHistory <- MCLeave, Hashes <- {h1}, Topology <- Star, InitialPeers <- Star, FnErrors <- FALSE,
  SignErrors <- FALSE, Starters <- {n1}, Committers <- {n3}, MaxNonce <- 2, MaxFaults <- 0

SafetyInit ==
  \/ instance = "disagree" /\ Disagree!Init
  \/ instance = "rounds" /\ Rounds!Init
  \/ instance = "errors" /\ Errors!Init
  \/ instance = "weighted" /\ Weighted!Init
  \/ instance = "joining" /\ LateInit(Two, {1, 2}, h1)
  \/ instance = "leaving" /\ LateInit(Three, {1, 3}, h1)

SafetyNext ==
  /\ \/ instance = "disagree" /\ Disagree!Next
     \/ instance = "rounds" /\ Rounds!Next
     \/ instance = "errors" /\ Errors!Next
     \/ instance = "weighted" /\ Weighted!Next
     \/ instance = "joining" /\ Joining!Next
     \/ instance = "leaving" /\ Leaving!Next
  /\ UNCHANGED instance

SafetySpec == SafetyInit /\ [][SafetyNext]_<<vars, instance>>

=============================================================================
