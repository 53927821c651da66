--------------------------- MODULE IAVLStoreProofs ---------------------------
(***************************************************************************)
(* The last two versions of the app store are never deleted, for every     *)
(* configuration of the store.                                             *)
(***************************************************************************)
EXTENDS IAVLStore, TLAPS

\* RecentKept without intervals, which the provers handle badly.
Recent ==
  \A v \in Nat : 1 <= v /\ latest - 1 <= v /\ v <= latest => v \in versions

\* Nothing that is deleted is newer than latest - 2, so the last two versions
\* are safe as soon as the numbers are numbers.
IInv ==
  /\ latest \in Nat /\ oldestVer \in Nat
  /\ versions \subseteq Nat
  /\ Recent

\* At least two versions are kept, unless all are.
LEMMA KeptTwo == Kept \in Nat /\ (Kept = 0 \/ Kept >= 2)
BY ConfigAssumption DEF Kept

\* A batch ends at least two versions before the latest.
LEMMA BatchEnds ==
  ASSUME latest \in Nat, oldestVer \in Nat
  PROVE  EndOfBatch \in Int /\ EndOfBatch <= latest - 2
BY KeptTwo, ConfigAssumption DEF EndOfBatch, Least

\* A batch is not empty when prune has something to do.
LEMMA BatchBegins ==
  ASSUME latest \in Nat, oldestVer \in Nat, oldestVer <= latest - Kept, Kept # 0
  PROVE  oldestVer <= EndOfBatch
BY KeptTwo, ConfigAssumption DEF EndOfBatch, Least

\* The last two versions survive SaveVersion, both ways of pruning, with and
\* without errors, and a restart at any point, for every MaxVersions and
\* BatchSize.
THEOREM LastTwoKept == Spec => []RecentKept
<1>1. Init => IInv
  BY DEF Init, IInv, Recent
<1>2. IInv /\ [Next]_vars => IInv'
  <2> SUFFICES ASSUME IInv, [Next]_vars PROVE IInv'
    OBVIOUS
  <2>0. latest \in Nat /\ oldestVer \in Nat /\ versions \subseteq Nat /\ Recent
    BY DEF IInv
  <2>a. ASSUME NEW n \in Int, n <= latest - 2, latest' = latest,
               versions' \subseteq versions, oldestVer' \in Nat,
               \A v \in versions : v \in versions' \/ v <= n
        PROVE  IInv'
    BY <2>0, <2>a DEF IInv, Recent
  <2>1. CASE SaveVersion
    <3>1. latest' = latest + 1 /\ versions' = versions \cup {latest + 1}
      BY <2>1 DEF SaveVersion
    <3>2. oldestVer' \in Nat
      BY <2>0, <2>1 DEF SaveVersion
    <3> QED BY <2>0, <3>1, <3>2 DEF IInv, Recent
  <2>2. CASE Prune
    <3>1. latest' = latest /\ oldestVer' = oldestVer
      BY <2>2 DEF Prune
    <3>2. versions' = versions \/ (Kept # 0 /\ versions' = versions \ {latest - Kept})
      BY <2>2 DEF Prune
    <3>3. versions' \subseteq versions /\ \A v \in versions : v \in versions' \/ v <= latest - 2
      BY <2>0, <3>2, KeptTwo
    <3> QED BY <2>0, <2>a, <3>1, <3>3
  <2>3. CASE PruneBatch
    <3> DEFINE e == EndOfBatch
    <3>1. e \in Int /\ e <= latest - 2 /\ oldestVer <= e
      BY <2>0, <2>3, BatchEnds, BatchBegins DEF PruneBatch
    <3>2. latest' = latest
      BY <2>3 DEF PruneBatch
    <3>3. \/ versions' = versions \ (oldestVer .. e) /\ oldestVer' = e + 1
          \/ \E failed \in versions \cap (oldestVer .. e) :
               versions' = versions \ (oldestVer .. failed - 1) /\ oldestVer' = failed
      BY <2>3 DEF PruneBatch
    <3> HIDE DEF e
    <3>4. /\ versions' \subseteq versions /\ oldestVer' \in Nat
          /\ \A v \in versions : v \in versions' \/ v <= e
      BY <2>0, <3>1, <3>3
    <3> QED BY <2>a, <3>1, <3>2, <3>4
  <2>4. CASE Restart
    <3>1. versions' = versions /\ latest' = latest
      BY <2>4 DEF Restart
    <3>2. oldestVer' = 0 \/ oldestVer' \in versions
      BY <2>4 DEF Restart
    <3>3. CASE oldestVer' \in versions
      BY <2>0, <3>1, <3>3 DEF IInv, Recent
    <3>4. CASE oldestVer' = 0
      BY <2>0, <3>1, <3>4 DEF IInv, Recent
    <3> QED BY <3>2, <3>3, <3>4
  <2>5. CASE UNCHANGED vars
    BY <2>0, <2>5 DEF vars, IInv, Recent
  <2> QED BY <2>1, <2>2, <2>3, <2>4, <2>5 DEF Next
<1>3. IInv => RecentKept
  BY DEF IInv, Recent, RecentKept
<1> QED BY <1>1, <1>2, <1>3, PTL DEF Spec

=============================================================================
