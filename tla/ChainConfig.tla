----------------------------- MODULE ChainConfig -----------------------------
(***************************************************************************)
(* The activation of features: the ChainConfig contract, in which the      *)
(* owner adds features and validators vote for them, EnableFeatures, which *)
(* every node runs at the start of a block, and the routine by which a     *)
(* validator votes for the features its build supports.                    *)
(*                                                                         *)
(* Nodes execute the same blocks, so the contract is modelled once.  A     *)
(* node whose build does not support what a block activates stops there.   *)
(***************************************************************************)
EXTENDS Integers, FiniteSets, FiniteSetsExt

CONSTANTS
  Nodes,            \* nodes of validators and of former validators
  ValidatorSets,    \* the validator sets elections may choose
  Features,
  Builds,           \* build numbers
  ParamChoices,     \* what the owner may call SetParams with
  NoFeature, Idle,  \* no record of a feature, a routine between two rounds
  MaxOwnerCalls,    \* bound on the calls of the owner
  MaxElections,     \* bound on changes of the validator set
  MaxManualVotes    \* bound on votes that are not cast by the routine

\* Past this age of a WAITING feature no further block matters.
MaxAge == Max({p.confirmations : p \in ParamChoices} \cup {0}) + 1

VARIABLES
  features,    \* the records of the contract; age stands for the block height
  params,      \* VoteThreshold and NumBlockConfirmations
  active,      \* the features that are set in the state of the chain
  validators,  \* the validators in office
  build,       \* the build each node runs
  stopped,     \* the nodes that panicked at a block they do not support
  routine,     \* the features the routine of a node is about to vote for
  calls        \* owner calls, elections and manual votes so far

contractVars == <<features, params, active>>
vars == <<contractVars, validators, build, stopped, routine, calls>>

Record(status, b, auto) ==
  [status |-> status, votes |-> {}, age |-> 0, build |-> b, auto |-> auto]

Has(f) == features[f] # NoFeature

In(f, status) == Has(f) /\ features[f].status = status

\* Init of the contract, in the genesis block.
Init ==
  /\ features \in [Features -> {NoFeature} \cup
                     {Record(status, Min(Builds), FALSE) : status \in {"PENDING", "WAITING"}}]
  /\ params \in {p \in ParamChoices : p.threshold <= 100}
  /\ active = {}
  /\ validators \in ValidatorSets
  /\ build = [n \in Nodes |-> Min(Builds)]
  /\ stopped = {}
  /\ routine = [n \in Nodes |-> Idle]
  /\ calls = [owner |-> 0, elections |-> 0, votes |-> 0]

-----------------------------------------------------------------------------
\* Calls of the owner

OwnerCall ==
  /\ calls.owner < MaxOwnerCalls
  /\ calls' = [calls EXCEPT !.owner = @ + 1]
  /\ UNCHANGED <<active, validators, build, stopped, routine>>

AddFeature(f, b, auto) ==
  /\ OwnerCall
  /\ ~Has(f)
  /\ features' = [features EXCEPT ![f] = Record("PENDING", b, auto)]
  /\ UNCHANGED params

\* Mutated RemoveFeature: an enabled feature may go.
RemoveAnyFeature(f) ==
  /\ OwnerCall
  /\ Has(f)
  /\ features' = [features EXCEPT ![f] = NoFeature]
  /\ UNCHANGED params

\* RemoveFeature asks the state of the chain, not the record.
RemoveFeature(f) ==
  /\ OwnerCall
  /\ Has(f) /\ f \notin active
  /\ features' = [features EXCEPT ![f] = NoFeature]
  /\ UNCHANGED params

\* Zero leaves a parameter as it is.
SetParams(p) ==
  /\ OwnerCall
  /\ p.threshold <= 100
  /\ params' = [threshold |-> IF p.threshold # 0 THEN p.threshold ELSE params.threshold,
                confirmations |-> IF p.confirmations # 0 THEN p.confirmations
                                                         ELSE params.confirmations]
  /\ UNCHANGED features

-----------------------------------------------------------------------------
\* Votes

\* enableFeature returns no error.
CanVote(n, f) ==
  /\ n \in validators
  /\ Has(f) /\ ~In(f, "ENABLED") /\ n \notin features[f].votes

\* EnableFeature: one failing name fails the transaction.
EnableFeature(n, names) ==
  features' = IF \A f \in names : CanVote(n, f)
                THEN [f \in Features |->
                        IF f \in names THEN [features[f] EXCEPT !.votes = @ \cup {n}]
                                       ELSE features[f]]
                ELSE features

\* A validator votes by hand, whatever its build.
VoteManually(n, f) ==
  /\ calls.votes < MaxManualVotes
  /\ calls' = [calls EXCEPT !.votes = @ + 1]
  /\ CanVote(n, f)
  /\ EnableFeature(n, {f})
  /\ UNCHANGED <<params, active, validators, build, stopped, routine>>

\* Mutated VoteToEnablePendingFeatures: hasVoted is not asked.
SupportedEvenIfVoted(n) ==
  {f \in Features : In(f, "PENDING") /\ features[f].build <= build[n] /\ features[f].auto}

\* The features VoteToEnablePendingFeatures finds in the list.
Supported(n) ==
  {f \in Features : /\ In(f, "PENDING") /\ features[f].build <= build[n]
                    /\ features[f].auto /\ n \notin features[f].votes}

\* A round of the routine: it reads the list ...
ListFeatures(n) ==
  /\ routine[n] = Idle /\ n \in validators /\ n \notin stopped
  /\ Supported(n) # {}
  /\ routine' = [routine EXCEPT ![n] = Supported(n)]
  /\ UNCHANGED <<contractVars, validators, build, stopped, calls>>

\* ... and its transaction is executed, or fails, in a later block.
VoteToEnablePendingFeatures(n) ==
  /\ routine[n] # Idle
  /\ EnableFeature(n, routine[n])
  /\ routine' = [routine EXCEPT ![n] = Idle]
  /\ UNCHANGED <<params, active, validators, build, stopped, calls>>

-----------------------------------------------------------------------------
\* Blocks

\* getFeature: all who have voted, in percent of the validators in office.
Percentage(f) == (Cardinality(features[f].votes) * 100) \div Cardinality(validators)

\* EnableFeatures for one feature
Updated(f) ==
  LET r == features[f] IN
  IF In(f, "PENDING") /\ Percentage(f) >= params.threshold
    THEN [r EXCEPT !.status = "WAITING", !.age = 0]
  ELSE IF In(f, "WAITING") /\ r.age + 1 > params.confirmations
    THEN [r EXCEPT !.status = "ENABLED", !.age = 0]
  ELSE IF In(f, "WAITING")
    THEN [r EXCEPT !.age = Min({@ + 1, MaxAge})]
  ELSE r

Activated == {f \in Features : In(f, "WAITING") /\ Updated(f).status = "ENABLED"}

\* Mutated EnableFeatures: the build number is not compared.
UnsupportingNone == {}

\* ErrFeatureNotSupported: the nodes that panic at this block.
Unsupporting == {n \in Nodes : \E f \in Activated : build[n] < features[f].build}

\* Tendermint: more than two thirds of the validators are needed for a block.
QuorumRuns == 3 * Cardinality(validators \ stopped) > 2 * Cardinality(validators)

\* BeginBlock: EnableFeatures and SetFeature, in one storeTx.
BeginBlock ==
  /\ QuorumRuns
  /\ features' = [f \in Features |-> Updated(f)]
  /\ active' = active \cup Activated
  /\ stopped' = stopped \cup Unsupporting
  /\ UNCHANGED <<params, validators, build, routine, calls>>

\* EndBlock: the validators of the next blocks.
Election(new) ==
  /\ calls.elections < MaxElections
  /\ calls' = [calls EXCEPT !.elections = @ + 1]
  /\ new # validators /\ validators' = new
  /\ UNCHANGED <<contractVars, build, stopped, routine>>

\* A node is restarted with a newer build and executes the blocks it has missed,
\* the one that activates a feature it does not support again included.
Upgrade(n) ==
  \E b \in Builds :
    /\ b > build[n]
    /\ build' = [build EXCEPT ![n] = b]
    /\ stopped' = IF \E f \in active : b < features[f].build
                    THEN stopped ELSE stopped \ {n}
    /\ routine' = [routine EXCEPT ![n] = Idle]
    /\ UNCHANGED <<contractVars, validators, calls>>

Next ==
  \/ \E f \in Features :
       \/ \E b \in Builds, auto \in BOOLEAN : AddFeature(f, b, auto)
       \/ RemoveFeature(f)
       \/ \E n \in Nodes : VoteManually(n, f)
  \/ \E p \in ParamChoices : SetParams(p)
  \/ \E new \in ValidatorSets : Election(new)
  \/ \E n \in Nodes : ListFeatures(n) \/ VoteToEnablePendingFeatures(n) \/ Upgrade(n)
  \/ BeginBlock

Spec == Init /\ [][Next]_vars

\* The routine runs by a timer, and blocks are made while a quorum runs.
Fairness ==
  /\ WF_vars(BeginBlock)
  /\ \A n \in Nodes : WF_vars(ListFeatures(n)) /\ WF_vars(VoteToEnablePendingFeatures(n))

-----------------------------------------------------------------------------
\* Properties

\* A feature is set in the state of the chain exactly when its record is ENABLED,
\* although RemoveFeature looks at the one and EnableFeatures at the other.
RecordMatchesState == \A f \in Features : f \in active <=> In(f, "ENABLED")

\* "panic to prevent the node from processing any further blocks until it's
\* upgraded": a node that runs supports every feature of the chain.
RunningNodesSupport ==
  \A n \in Nodes \ stopped : \A f \in active : features[f].build <= build[n]

\* Every validator runs a build that has the feature.
Supportable(f) == \A n \in validators : n \notin stopped /\ build[n] >= features[f].build

\* A feature that is to be enabled automatically, and that the builds of all
\* validators support, is activated in the end unless the owner removes it:
\* transactions made stale by other votes, removals and elections are sent again.
AutoEnabled ==
  \A f \in Features :
    (Has(f) /\ features[f].auto /\ Supportable(f))
      ~> (~Has(f) \/ In(f, "ENABLED") \/ ~Supportable(f))

=============================================================================
