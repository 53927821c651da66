------------------------------ MODULE MCGateway ------------------------------
(* Instances of GatewayBridge for one run of TLC: the token differs, and    *)
(* what is bounded.  u1, u2 and e1, e2 are interchangeable in all of them.  *)
EXTENDS Naturals, Sequences, FiniteSets, TLC

CONSTANTS u1, u2, u3, e1, e2, e3, e4, o1, o2, o3, t1, t2,
          GatewayAddr, NoUser, NoReceipt, NoSig, NoExec

VARIABLES gw, exec, identity, mapped, eth, orc, txs, applied, faults, instance

Symmetry == Permutations({u1, u2}) \cup Permutations({e1, e2}) \cup Permutations({o1, o2})

vars == <<gw, exec, identity, mapped, eth, orc, txs, applied, faults, instance>>

\* ETH, two users with two addresses, an oracle that fails and restarts.
Eth == INSTANCE GatewayBridge WITH
  Users <- {u1, u2}, EthAddrs <- {e1, e2}, TokenIDs <- {t1}, Oracles <- {o3},
  Kind <- "ETH", CheckTxHash <- FALSE, Blacklist <- {}, Confirmations <- 0, Amounts <- {1},
  SharedTx <- FALSE, ResetAllowed <- FALSE, MaxEvents <- 2, MaxNonce <- 1, MaxFaults <- 2

\* The native coin, two oracles whose batches overlap.
Overlap == INSTANCE GatewayBridge WITH
  Users <- {u3}, EthAddrs <- {e3}, TokenIDs <- {t1}, Oracles <- {o1, o2},
  Kind <- "DiademCoin", CheckTxHash <- FALSE, Blacklist <- {}, Confirmations <- 0, Amounts <- {1},
  SharedTx <- FALSE, ResetAllowed <- FALSE, MaxEvents <- 2, MaxNonce <- 1, MaxFaults <- 1

\* Two unique tokens, whose contract may refuse.
Unique == INSTANCE GatewayBridge WITH
  Users <- {u1, u2}, EthAddrs <- {e3, e4}, TokenIDs <- {t1, t2}, Oracles <- {o3},
  Kind <- "ERC721", CheckTxHash <- FALSE, Blacklist <- {}, Confirmations <- 0, Amounts <- {1},
  SharedTx <- FALSE, ResetAllowed <- FALSE, MaxEvents <- 3, MaxNonce <- 1, MaxFaults <- 0

\* Amounts of a multi-fungible token.
Fungible == INSTANCE GatewayBridge WITH
  Users <- {u3}, EthAddrs <- {e1, e2}, TokenIDs <- {t1}, Oracles <- {o3},
  Kind <- "ERC721X", CheckTxHash <- FALSE, Blacklist <- {}, Confirmations <- 0, Amounts <- {1, 2},
  SharedTx <- FALSE, ResetAllowed <- FALSE, MaxEvents <- 3, MaxNonce <- 1, MaxFaults <- 0

\* Transaction hashes are checked, and the last block is set back.
Reset == INSTANCE GatewayBridge WITH
  Users <- {u3}, EthAddrs <- {e3}, TokenIDs <- {t1}, Oracles <- {o3},
  Kind <- "ETH", CheckTxHash <- TRUE, Blacklist <- {}, Confirmations <- 0, Amounts <- {1},
  SharedTx <- FALSE, ResetAllowed <- TRUE, MaxEvents <- 3, MaxNonce <- 1, MaxFaults <- 2

\* One user who withdraws again after a withdrawal is completed.
Again == INSTANCE GatewayBridge WITH
  Users <- {u3}, EthAddrs <- {e3}, TokenIDs <- {t1}, Oracles <- {o3},
  Kind <- "ETH", CheckTxHash <- FALSE, Blacklist <- {}, Confirmations <- 0, Amounts <- {1},
  SharedTx <- FALSE, ResetAllowed <- FALSE, MaxEvents <- 3, MaxNonce <- 2, MaxFaults <- 2

Init ==
  \/ instance = "again" /\ Again!Init
  \/ instance = "eth" /\ Eth!Init
  \/ instance = "overlap" /\ Overlap!Init
  \/ instance = "unique" /\ Unique!Init
  \/ instance = "fungible" /\ Fungible!Init
  \/ instance = "reset" /\ Reset!Init

Next ==
  /\ \/ instance = "eth" /\ Eth!Next
     \/ instance = "again" /\ Again!Next
     \/ instance = "overlap" /\ Overlap!Next
     \/ instance = "unique" /\ Unique!Next
     \/ instance = "fungible" /\ Fungible!Next
     \/ instance = "reset" /\ Reset!Next
  /\ UNCHANGED instance

Spec == Init /\ [][Next]_vars

-----------------------------------------------------------------------------
\* Properties, each for the instances in which it could fail.

\* What the gateway holds on Ethereum is what users hold, plus what is on its
\* way in or out, whatever times out, restarts or is refused (GatewayBridge!Backed).
Backed ==
  /\ instance = "eth" => Eth!Backed
  /\ instance = "unique" => Unique!Backed
  /\ instance = "fungible" => Fungible!Backed

\* ProcessEventBatch applies an event at most once, with overlapping batches
\* and with the last block set back (GatewayBridge!AppliedOnce).
AppliedOnce ==
  /\ instance = "overlap" => Overlap!AppliedOnce
  /\ instance = "reset" => Reset!AppliedOnce

\* No oracle of the coin starts past a deposit that has not been applied
\* (GatewayBridge!NothingSkipped).
NothingSkipped == instance = "overlap" => Overlap!NothingSkipped

\* With one oracle the signature stored with a receipt is one for that receipt
\* (GatewayBridge!SignatureMatchesReceipt).
SignatureMatchesReceipt ==
  /\ instance = "eth" => Eth!SignatureMatchesReceipt
  /\ instance = "again" => Again!SignatureMatchesReceipt

=============================================================================
