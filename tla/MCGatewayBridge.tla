-------------------------- MODULE MCGatewayBridge --------------------------
(* An instance of GatewayBridge for TLC.                                   *)
EXTENDS GatewayBridge, TLC

CONSTANTS u1, u2, e1, e2, o1, t1

\* Ether needs no contract mapping: there is none, and none is added.
LiveNext == Next /\ UNCHANGED mapped

LiveSpec == Init /\ [][LiveNext]_vars /\ Fairness

=============================================================================
