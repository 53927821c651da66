-------------------------------- MODULE DPOS --------------------------------
(***************************************************************************)
(* The first DPOS contract (src/builtin/plugins/dpos): accounts spread a   *)
(* fixed number of votes over candidates, and anyone may call Elect once a *)
(* cycle, which counts each vote with the coins its voter holds then.      *)
(*                                                                         *)
(* Addresses are numbers, in the order of their bytes; keys are those of   *)
(* the addresses.  A call that returns an error changes nothing.           *)
(***************************************************************************)
EXTENDS Integers, SequencesExt, FiniteSets, Functions

CONSTANTS
  Accounts,        \* addresses, numbers
  Contract,        \* the address of the contract
  Genesis,         \* the validators of InitRequest
  Coins,           \* the coins of each account at the start
  VoteAllocation, WitnessCount, WitnessSalary, MinPowerFraction, Cycle, \* Params
  Amounts,         \* the amounts of Vote requests; negative to take votes back
  MaxTime          \* bound on the time of blocks

VARIABLES
  state,           \* [witnesses, last]: State
  candidates,      \* the candidate list, as a set: it is always sorted
  voterBalance,    \* Voter.Balance
  votes,           \* votes[c]: the vote set of c, what each of its voters gave it
  coins,           \* balances of the coin contract
  time

vars == <<state, candidates, voterBalance, votes, coins, time>>

Ordered(S) == SetToSortSeq(S, <)

Init ==
  /\ state = [witnesses |-> Ordered(Genesis), last |-> 0]
  /\ candidates = {}
  /\ voterBalance = [a \in Accounts |-> VoteAllocation]
  /\ votes = [c \in Accounts |-> <<>>]
  /\ coins = Coins
  /\ time = 0

-----------------------------------------------------------------------------

\* CandidateList.Set keeps an entry that is there.
RegisterCandidate(c) ==
  /\ candidates' = candidates \cup {c}
  /\ UNCHANGED <<state, voterBalance, votes, coins, time>>

\* CandidateList.Delete compares each candidate with itself, so all are deleted.
\* The votes stay where they are.
UnregisterCandidate(c) ==
  /\ c \in candidates
  /\ candidates' = {}
  /\ UNCHANGED <<state, voterBalance, votes, coins, time>>

\* What a voter has given a candidate
VoteOf(c, voter) == IF voter \in DOMAIN votes[c] THEN votes[c][voter] ELSE 0

\* Mutated Vote: votes that are taken back may be more than were given.
VoteUnchecked(voter, c, amount) ==
  /\ voterBalance[voter] >= amount
  /\ c \in candidates
  /\ voterBalance' = [voterBalance EXCEPT ![voter] = @ - amount]
  /\ votes' = [votes EXCEPT ![c] =
       (voter :> (IF VoteOf(c, voter) + amount < 0 THEN 0 ELSE VoteOf(c, voter) + amount)) @@ @]
  /\ UNCHANGED <<state, candidates, coins, time>>

\* A vote of nothing leaves an entry too.
Vote(voter, c, amount) ==
  /\ voterBalance[voter] >= amount
  /\ c \in candidates
  /\ VoteOf(c, voter) + amount >= 0
  /\ voterBalance' = [voterBalance EXCEPT ![voter] = @ - amount]
  /\ votes' = [votes EXCEPT ![c] = (voter :> (VoteOf(c, voter) + amount)) @@ @]
  /\ UNCHANGED <<state, candidates, coins, time>>

-----------------------------------------------------------------------------
\* Elect

\* Each vote counts as often as its voter has coins.
PowerOf(c) ==
  SumFunctionOnSet([v \in DOMAIN votes[c] |-> votes[c][v] * coins[v]], DOMAIN votes[c])

\* sort.Reverse(byPower)
Above(c, d) == PowerOf(c) > PowerOf(d) \/ (PowerOf(c) = PowerOf(d) /\ c > d)

runElection(results) == SetToSortSeq(results, Above)

TotalSupply == SumFunctionOnSet(coins, Accounts \cup {Contract})

\* The salaries are those of the witnesses that go.
ElectFrom(results) ==
  LET witnesses == SubSeq(runElection(results), 1,
                          IF Cardinality(results) < WitnessCount THEN Cardinality(results)
                          ELSE WitnessCount)
      salaries == WitnessSalary * Len(state.witnesses)
  IN /\ MinPowerFraction > 0 =>
          SumFunctionOnSet([c \in results |-> PowerOf(c)], results)
            >= TotalSupply \div MinPowerFraction
     /\ witnesses # <<>>
     /\ coins[Contract] >= salaries
     /\ coins' = [a \in DOMAIN coins |->
                    IF a = Contract THEN coins[a] - salaries
                    ELSE coins[a] + (IF a \in Range(state.witnesses) THEN WitnessSalary ELSE 0)]
     /\ state' = [witnesses |-> Ordered(Range(witnesses)), last |-> time]

\* A transaction of anyone.  Candidates whose votes were all taken back still
\* take part, with no power.
Elect ==
  /\ time - state.last >= Cycle
  /\ ElectFrom({c \in candidates : votes[c] # <<>>})
  /\ UNCHANGED <<candidates, voterBalance, votes, time>>

-----------------------------------------------------------------------------

\* A transfer in the coin contract, to the accounts or to the contract
Transfer(from, to) ==
  /\ from # to /\ coins[from] > 0
  /\ coins' = [coins EXCEPT ![from] = @ - 1, ![to] = @ + 1]
  /\ UNCHANGED <<state, candidates, voterBalance, votes, time>>

NewBlock ==
  /\ time < MaxTime
  /\ time' = time + 1
  /\ UNCHANGED <<state, candidates, voterBalance, votes, coins>>

Next ==
  \/ \E c \in Accounts : RegisterCandidate(c) \/ UnregisterCandidate(c)
  \/ \E v, c \in Accounts, amount \in Amounts : Vote(v, c, amount)
  \/ Elect
  \/ \E a \in Accounts, b \in Accounts \cup {Contract} : Transfer(a, b)
  \/ NewBlock

Spec == Init /\ [][Next]_vars

-----------------------------------------------------------------------------
\* Properties

VotesIn(v) == SumFunctionOnSet([c \in Accounts |-> VoteOf(c, v)], Accounts)

\* Whatever candidates come and go, with the votes for them left where they are,
\* Vote of dpos.go neither makes nor loses votes: what an account has left and
\* what it has given adds up to the allocation, and none of it is negative.
VotesConserved ==
  \A v \in Accounts :
    /\ voterBalance[v] + VotesIn(v) = VoteAllocation
    /\ voterBalance[v] >= 0 /\ \A c \in Accounts : VoteOf(c, v) >= 0

=============================================================================
