---------------------------- MODULE MCApplication ----------------------------
(* Instances of Application. *)
EXTENDS Application

CONSTANTS n1, n2, a1, a2

\* One account that sends two transactions, the first with a call that fails in
\* a block only.
MCTxs == {[origin |-> a1, nonce |-> 1, outcome |-> "ok"],
          [origin |-> a1, nonce |-> 1, outcome |-> "evmfails"],
          [origin |-> a1, nonce |-> 2, outcome |-> "ok"]}

=============================================================================
