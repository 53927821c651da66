---------------------------- MODULE MCFnConsensus ----------------------------
\* Small instances of FnConsensus for TLC.
EXTENDS FnConsensus, TLC

CONSTANTS n1, n2, n3

Val(n, p) == [addr |-> n, power |-> p]

\* Two validators that must both vote; three of which one may be missing: 3 of 4.
Two == <<Val(n1, 1), Val(n2, 1)>>

Three == <<Val(n1, 2), Val(n2, 1), Val(n3, 1)>>

\* The set grows, or shrinks, while votes of the old one are in progress.
MCTwo == <<Two>>

MCThree == <<Three>>

MCJoin == <<Two, Three>>

MCLeave == <<Three, <<Val(n1, 2), Val(n2, 1)>>>>

\* All of them, for what does not depend on their order.
MCAll == <<Two, Three, <<Val(n1, 2), Val(n2, 1)>>>>

AllPairs == {{m, n} : m, n \in Nodes} \ {{n} : n \in Nodes}

Star == {{n1, n2}, {n1, n3}}

Pair == {{n1, n2}}

\* Progress is claimed of runs in which nothing crashes, no connection is lost
\* and the validators stay the same.
LiveNext == Next /\ UNCHANGED <<faults, epoch>>

LiveSpec == Init /\ [][LiveNext]_vars /\ Fairness

=============================================================================
