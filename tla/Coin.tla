-------------------------------- MODULE Coin --------------------------------
(***************************************************************************)
(* The native coin contract (src/builtin/plugins/coin/coin.go): an ERC20   *)
(* ledger whose coins are minted and burned by the Transfer Gateway.       *)
(*                                                                         *)
(* A call runs in a transaction of its own, so a handler is one action and *)
(* a handler that returns an error changes nothing.  Amounts are BigUInts, *)
(* which do not overflow; the 10^18 of Init is a change of unit.           *)
(***************************************************************************)
EXTENDS Integers, Sequences, FiniteSets, Functions

CONSTANTS
  Accounts,      \* addresses
  Gateway,       \* the address "diademcoin-gateway" resolves to
  Spenders,      \* the addresses allowances are given to
  Genesis,       \* InitRequest.Accounts: a sequence of [owner, balance]
  MaxAmount,     \* bound on the amount of a request
  MaxBalance,    \* bound on a balance
  MaxSelfMoved   \* bound on selfMoved

ASSUME AccountsAssumption == Gateway \in Accounts /\ Spenders \subseteq Accounts

ASSUME GenesisAssumption ==
  /\ Genesis \in Seq([owner : Accounts, balance : Nat])
  /\ \A i, j \in DOMAIN Genesis : Genesis[i].owner = Genesis[j].owner => i = j

ASSUME BoundAssumption == MaxAmount \in Nat /\ MaxBalance \in Nat /\ MaxSelfMoved \in Nat

VARIABLES
  balance,       \* Account.Balance; an account not stored has 0
  totalSupply,   \* Economy.TotalSupply
  allowance,     \* Allowance.Amount of an owner and a spender
  selfMoved,     \* history: what accounts have transferred to themselves
  granted,       \* history: the amount of the last Approve
  spent          \* history: what was spent since the last Approve

vars == <<balance, totalSupply, allowance, selfMoved, granted, spent>>

Amounts == 0 .. MaxAmount

\* The entries of Genesis that give account a its balance.
EntriesOf(a) == {i \in DOMAIN Genesis : Genesis[i].owner = a}

\* Each entry sets an account and adds to the supply.
Init ==
  /\ balance = [a \in Accounts |->
                  IF EntriesOf(a) = {} THEN 0
                  ELSE Genesis[CHOOSE i \in EntriesOf(a) : TRUE].balance]
  /\ totalSupply = SumFunctionOnSet([i \in DOMAIN Genesis |-> Genesis[i].balance],
                                    DOMAIN Genesis)
  /\ allowance = [a \in Accounts |-> [s \in Spenders |-> 0]]
  /\ selfMoved = 0
  /\ granted = allowance
  /\ spent = allowance

-----------------------------------------------------------------------------

MintToGateway(amount) ==
  /\ balance[Gateway] + amount <= MaxBalance
  /\ balance' = [balance EXCEPT ![Gateway] = @ + amount]
  /\ totalSupply' = totalSupply + amount
  /\ UNCHANGED <<allowance, selfMoved, granted, spent>>

\* Mutated Burn: the supply is left as it was.
BurnKeepsSupply(owner, amount) ==
  /\ balance[owner] >= amount /\ totalSupply >= amount
  /\ balance' = [balance EXCEPT ![owner] = @ - amount]
  /\ UNCHANGED <<totalSupply, allowance, selfMoved, granted, spent>>

\* Burn, called by the gateway on an owner who withdraws.
Burn(owner, amount) ==
  /\ balance[owner] >= amount /\ totalSupply >= amount
  /\ balance' = [balance EXCEPT ![owner] = @ - amount]
  /\ totalSupply' = totalSupply - amount
  /\ UNCHANGED <<allowance, selfMoved, granted, spent>>

\* Both accounts are loaded before either is changed; the receiver's is
\* saved last.
Moved(from, to, amount) ==
  [[balance EXCEPT ![from] = @ - amount] EXCEPT ![to] = balance[to] + amount]

Move(from, to, amount) ==
  /\ balance[from] >= amount
  /\ balance[to] + amount <= MaxBalance
  /\ balance' = Moved(from, to, amount)
  /\ selfMoved' = IF from = to THEN selfMoved + amount ELSE selfMoved
  /\ selfMoved' <= MaxSelfMoved
  /\ UNCHANGED totalSupply

\* The sender of the message is the account debited.
Transfer(from, to, amount) ==
  /\ Move(from, to, amount)
  /\ UNCHANGED <<allowance, granted, spent>>

Approve(owner, spender, amount) ==
  /\ allowance' = [allowance EXCEPT ![owner][spender] = amount]
  /\ granted' = [granted EXCEPT ![owner][spender] = amount]
  /\ spent' = [spent EXCEPT ![owner][spender] = 0]
  /\ UNCHANGED <<balance, totalSupply, selfMoved>>

\* Mutated TransferFrom: the allowance is checked and not used up.
TransferFromKeepsAllowance(spender, from, to, amount) ==
  /\ allowance[from][spender] >= amount
  /\ Move(from, to, amount)
  /\ spent' = [spent EXCEPT ![from][spender] = @ + amount]
  /\ UNCHANGED <<allowance, granted>>

TransferFrom(spender, from, to, amount) ==
  /\ allowance[from][spender] >= amount
  /\ Move(from, to, amount)
  /\ allowance' = [allowance EXCEPT ![from][spender] = @ - amount]
  /\ spent' = [spent EXCEPT ![from][spender] = @ + amount]
  /\ UNCHANGED granted

Next ==
  \E amount \in Amounts :
    \/ MintToGateway(amount)
    \/ \E a \in Accounts :
         \/ Burn(a, amount)
         \/ \E b \in Accounts : Transfer(a, b, amount)
         \/ \E s \in Spenders : Approve(a, s, amount)
         \/ \E s \in Spenders, b \in Accounts : TransferFrom(s, a, b, amount)

Spec == Init /\ [][Next]_vars

-----------------------------------------------------------------------------
\* Properties

\* The state of coin.go: balances, the supply and allowances are naturals.
TypeOK ==
  /\ balance \in [Accounts -> Nat]
  /\ totalSupply \in Nat
  /\ selfMoved \in Nat
  /\ allowance \in [Accounts -> [Spenders -> Nat]]
  /\ granted \in [Accounts -> [Spenders -> Nat]]
  /\ spent \in [Accounts -> [Spenders -> Nat]]

SumOfBalances == SumFunctionOnSet(balance, Accounts)

\* The balances of coin.go add up to the supply, but for the amounts accounts
\* have transferred to themselves: Transfer and TransferFrom credit such an
\* account without the debit they made.
SupplyAccounted == SumOfBalances = totalSupply + selfMoved

\* However Approve and TransferFrom of coin.go interleave, what a spender
\* took since an owner's last Approve is what that Approve granted less the
\* allowance left, so it is never more than was granted.
SpentWithinGrant ==
  \A a \in Accounts, s \in Spenders :
    allowance[a][s] + spent[a][s] = granted[a][s]

=============================================================================
