----------------------------- MODULE CoinProofs -----------------------------
(***************************************************************************)
(* Proofs about the native coin contract, for any accounts, spenders,      *)
(* genesis and bounds.                                                     *)
(***************************************************************************)
EXTENDS Coin, TLAPS

\* What the handlers of coin.go keep true of balances and allowances.
Inv ==
  /\ balance \in [Accounts -> Nat]
  /\ selfMoved \in Nat
  /\ allowance \in [Accounts -> [Spenders -> Nat]]
  /\ granted \in [Accounts -> [Spenders -> Nat]]
  /\ spent \in [Accounts -> [Spenders -> Nat]]
  /\ SpentWithinGrant

\* The balances Init of coin.go stores are naturals.
LEMMA InitialBalances ==
  ASSUME Init
  PROVE  balance \in [Accounts -> Nat]
<1> DEFINE Entries == [owner : Accounts, balance : Nat]
<1>1. \A i \in DOMAIN Genesis : Genesis[i] \in Entries
  <2>1. Genesis \in Seq(Entries)
    BY GenesisAssumption
  <2> HIDE DEF Entries
  <2> QED BY <2>1
<1>2. \A i \in DOMAIN Genesis : Genesis[i].balance \in Nat
  BY <1>1
<1>3. \A a \in Accounts :
        EntriesOf(a) # {} => (CHOOSE i \in EntriesOf(a) : TRUE) \in DOMAIN Genesis
  BY DEF EntriesOf
<1>4. SUFFICES ASSUME NEW a \in Accounts PROVE balance[a] \in Nat
  BY DEF Init
<1>5. CASE EntriesOf(a) = {}
  BY <1>5 DEF Init
<1>6. CASE EntriesOf(a) # {}
  BY <1>2, <1>3, <1>6 DEF Init
<1> QED BY <1>5, <1>6

\* Transfer and TransferFrom of coin.go move a balance the sender has.
LEMMA MovedBalances ==
  ASSUME Inv, NEW from \in Accounts, NEW to \in Accounts, NEW amount \in Nat,
         Move(from, to, amount)
  PROVE  balance' \in [Accounts -> Nat] /\ selfMoved' \in Nat
BY DEF Inv, Move, Moved

\* Whatever is approved, spent, moved, minted and burned, in any order, a
\* spender never takes more than the owner's last Approve granted
\* (Approve and TransferFrom of coin.go).
THEOREM Allowances == Spec => []SpentWithinGrant
<1>1. Init => Inv
  <2> SUFFICES ASSUME Init PROVE Inv
    OBVIOUS
  <2>1. balance \in [Accounts -> Nat]
    BY InitialBalances
  <2> QED BY <2>1 DEF Init, Inv, SpentWithinGrant
<1>2. Inv /\ [Next]_vars => Inv'
  <2> SUFFICES ASSUME Inv, [Next]_vars PROVE Inv'
    OBVIOUS
  <2> USE BoundAssumption, AccountsAssumption DEF Amounts
  <2>1. ASSUME NEW amount \in Amounts, MintToGateway(amount) PROVE Inv'
    BY <2>1 DEF Inv, MintToGateway, SpentWithinGrant
  <2>2. ASSUME NEW amount \in Amounts, NEW a \in Accounts, Burn(a, amount) PROVE Inv'
    BY <2>2 DEF Inv, Burn, SpentWithinGrant
  <2>3. ASSUME NEW amount \in Amounts, NEW a \in Accounts, NEW b \in Accounts,
               Transfer(a, b, amount)
        PROVE  Inv'
    <3>1. balance' \in [Accounts -> Nat] /\ selfMoved' \in Nat
      BY <2>3, MovedBalances DEF Transfer
    <3> QED BY <2>3, <3>1 DEF Inv, Transfer, SpentWithinGrant
  <2>4. ASSUME NEW amount \in Amounts, NEW a \in Accounts, NEW s \in Spenders,
               Approve(a, s, amount)
        PROVE  Inv'
    BY <2>4 DEF Inv, Approve, SpentWithinGrant
  <2>5. ASSUME NEW amount \in Amounts, NEW a \in Accounts, NEW b \in Accounts,
               NEW s \in Spenders, TransferFrom(s, a, b, amount)
        PROVE  Inv'
    <3>1. balance' \in [Accounts -> Nat] /\ selfMoved' \in Nat
      BY <2>5, MovedBalances DEF TransferFrom
    <3>2. allowance[a][s] - amount \in Nat /\ spent[a][s] + amount \in Nat
      BY <2>5 DEF Inv, TransferFrom
    <3>3. /\ allowance' \in [Accounts -> [Spenders -> Nat]]
          /\ spent' \in [Accounts -> [Spenders -> Nat]]
      BY <2>5, <3>2 DEF Inv, TransferFrom
    <3>4. SpentWithinGrant'
      BY <2>5 DEF Inv, TransferFrom, SpentWithinGrant
    <3> QED BY <2>5, <3>1, <3>3, <3>4 DEF Inv, TransferFrom
  <2>6. CASE UNCHANGED vars
    BY <2>6 DEF Inv, vars, SpentWithinGrant
  <2> QED BY <2>1, <2>2, <2>3, <2>4, <2>5, <2>6 DEF Next
<1>3. Inv => SpentWithinGrant
  BY DEF Inv
<1> QED BY <1>1, <1>2, <1>3, PTL DEF Spec

=============================================================================
