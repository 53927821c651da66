------------------------------- MODULE ETHCoin -------------------------------
(***************************************************************************)
(* The ETH of the chain (src/builtin/plugins/ethcoin/eth_coin.go): the Go  *)
(* contract, and the EVM, which keeps no balances of its own but reads and *)
(* writes the accounts of this contract (src/evm/evm.go, loom_statedb.go,  *)
(* src/plugin/account_balance_manager.go).                                 *)
(*                                                                         *)
(* A transaction that fails is rolled back.  One that succeeds may hold a  *)
(* call that was reverted inside the EVM: the value that call moved stays  *)
(* moved, because the EVM's journal does not know these accounts.          *)
(***************************************************************************)
EXTENDS Integers, Functions

CONSTANTS
  Accounts,      \* addresses; those in EvmContracts have code in the EVM
  EvmContracts,
  Gateway,       \* the address "gateway" resolves to
  Spenders,      \* the addresses allowances are given to
  MaxAmount,     \* bound on the amount of a request
  MaxBalance,    \* bound on a balance
  MaxSupply,     \* bound on the total supply
  MaxSelfMoved   \* bound on selfMoved

VARIABLES
  balance,       \* Account.Balance; an account not stored has 0
  totalSupply,   \* Economy.TotalSupply
  allowance,     \* Allowance.Amount of an owner and a spender
  selfMoved,     \* history: what accounts have transferred to themselves
  destroyed,     \* history: what contracts left to themselves when they ended
  granted,       \* history: the amount of the last Approve
  spent          \* history: what was spent since the last Approve

vars == <<balance, totalSupply, allowance, selfMoved, destroyed, granted, spent>>

Amounts == 0 .. MaxAmount

Init ==
  /\ balance = [a \in Accounts |-> 0]
  /\ totalSupply = 0
  /\ allowance = [a \in Accounts |-> [s \in Spenders |-> 0]]
  /\ selfMoved = 0 /\ destroyed = 0
  /\ granted = allowance /\ spent = allowance

-----------------------------------------------------------------------------
\* The Go contract

MintToGateway(amount) ==
  /\ balance[Gateway] + amount <= MaxBalance /\ totalSupply + amount <= MaxSupply
  /\ balance' = [balance EXCEPT ![Gateway] = @ + amount]
  /\ totalSupply' = totalSupply + amount
  /\ UNCHANGED <<allowance, selfMoved, destroyed, granted, spent>>

\* Both accounts are loaded before either is saved; the receiver's is saved last.
Moved(from, to, amount) ==
  [[balance EXCEPT ![from] = @ - amount] EXCEPT ![to] = balance[to] + amount]

Move(from, to, amount) ==
  /\ balance[from] >= amount
  /\ balance[to] + amount <= MaxBalance
  /\ balance' = Moved(from, to, amount)
  /\ selfMoved' = IF from = to THEN selfMoved + amount ELSE selfMoved
  /\ selfMoved' <= MaxSelfMoved
  /\ UNCHANGED <<totalSupply, destroyed>>

Transfer(from, to, amount) ==
  /\ Move(from, to, amount)
  /\ UNCHANGED <<allowance, granted, spent>>

Approve(owner, spender, amount) ==
  /\ allowance' = [allowance EXCEPT ![owner][spender] = amount]
  /\ granted' = [granted EXCEPT ![owner][spender] = amount]
  /\ spent' = [spent EXCEPT ![owner][spender] = 0]
  /\ UNCHANGED <<balance, totalSupply, selfMoved, destroyed>>

TransferFrom(spender, from, to, amount) ==
  /\ allowance[from][spender] >= amount
  /\ Move(from, to, amount)
  /\ allowance' = [allowance EXCEPT ![from][spender] = @ - amount]
  /\ spent' = [spent EXCEPT ![from][spender] = @ + amount]
  /\ UNCHANGED granted

-----------------------------------------------------------------------------
\* The EVM

\* Mutated Transfer: an amount sent to oneself goes through the contract too.
EvmTransferToSelf(from, to, amount) == balance' = [balance EXCEPT ![to] = @ + amount]

\* CanTransfer and Transfer of evmAccountBalanceManager, the value of a call or
\* of a creation: nothing is done when it is zero or comes back to the sender.
EvmTransfer(from, to, amount) ==
  balance' = IF from = to THEN balance ELSE Moved(from, to, amount)

EvmCall(from, to, amount) ==
  /\ balance[from] >= amount
  /\ balance[to] + amount <= MaxBalance
  /\ EvmTransfer(from, to, amount)
  /\ UNCHANGED <<totalSupply, allowance, selfMoved, destroyed, granted, spent>>

\* SELFDESTRUCT: the interpreter adds the balance to the heir's, then Suicide
\* sets the contract's to zero.  The contract is gone when the transaction ends,
\* and may do it again until then.
Suicide(contract, heir) ==
  /\ balance[heir] + balance[contract] <= MaxBalance
  /\ balance' = [[balance EXCEPT ![heir] = @ + balance[contract]] EXCEPT ![contract] = 0]
  /\ destroyed' = IF heir = contract THEN destroyed + balance[contract] ELSE destroyed
  /\ UNCHANGED <<totalSupply, allowance, selfMoved, granted, spent>>

Next ==
  \/ \E amount \in Amounts :
       \/ MintToGateway(amount)
       \/ \E a \in Accounts :
            \/ \E b \in Accounts : Transfer(a, b, amount) \/ EvmCall(a, b, amount)
            \/ \E s \in Spenders : Approve(a, s, amount)
            \/ \E s \in Spenders, b \in Accounts : TransferFrom(s, a, b, amount)
  \/ \E contract \in EvmContracts, heir \in Accounts : Suicide(contract, heir)

Spec == Init /\ [][Next]_vars

-----------------------------------------------------------------------------
\* Properties

\* The coin contract, of which a contract that destroys itself to its own
\* advantage burns its balance.
Ledger == INSTANCE Coin WITH
  totalSupply <- totalSupply - destroyed, Genesis <- <<>>, MaxAmount <- MaxBalance

\* A step of the ledger, unless an account transferred to itself before.
LedgerStep == selfMoved' = 0 => [Ledger!Next]_(Ledger!vars)

\* eth_coin.go, with the EVM moving its balances behind its back, is a coin
\* like that of coin.go, as long as no account transfers to itself: each of its
\* steps moves, mints, grants or burns as a step of the coin contract may, so
\* that ETH is accounted for as the coins of that ledger are.
ImplementsCoin ==
  /\ Ledger!Init
  /\ [][LedgerStep]_vars

=============================================================================
