--------------------------- MODULE GatewayMappings ---------------------------
(***************************************************************************)
(* Contract mappings of the Transfer Gateway                               *)
(* (src/builtin/plugins/gateway/gateway_contract_mapping.go and its copy   *)
(* in v1), the owner and the oracles of the gateway (gateway.go), and the  *)
(* part of the oracles that verifies who created a contract of Ethereum    *)
(* (src/gateway/oracle.go).                                                *)
(*                                                                         *)
(* A mapping is asked for by the creator of the local contract with a      *)
(* signature of the foreign contract's creator.  It stays pending until an *)
(* oracle has looked the creator up.  Oracles ask, look up and answer      *)
(* independently, so an answer may be for a mapping that is gone.          *)
(***************************************************************************)
EXTENDS Naturals, FiniteSets, Sequences, Functions, TLC

CONSTANTS
  Creator,      \* the creator of each contract, foreign and local
  Foreign,      \* contracts of Ethereum
  Local,        \* contracts of the DApp chain
  Accounts,     \* those who may own the gateway or be oracles
  MaxMappings,  \* bound on the mappings asked for
  MaxChanges,   \* bound on the changes of the owner and the oracles
  MaxErrors     \* bound on the look-ups that fail

VARIABLES
  owner, oracles,  \* state.Owner, and who has the oracle role
  pending,         \* pending mappings by ID
  nextID,          \* state.NextContractMappingID
  mapping,         \* contractAddrMappingKey, in both directions
  asked,           \* what an oracle got from UnverifiedContractCreators
  sent,            \* transactions of oracles in flight
  changes, errors

vars == <<owner, oracles, pending, nextID, mapping, asked, sent, changes, errors>>

Init ==
  /\ owner \in Accounts
  /\ oracles \in {{a} : a \in Accounts}
  /\ pending = <<>> /\ nextID = 1 /\ mapping = <<>>
  /\ asked = [a \in Accounts |-> <<>>]
  /\ sent = {}
  /\ changes = 0 /\ errors = 0

-----------------------------------------------------------------------------
\* The contract

\* Mutated contractMappingExists: pending mappings are not looked at.
ConfirmedMappingExists(f, l) == f \in DOMAIN mapping \/ l \in DOMAIN mapping

contractMappingExists(f, l) ==
  \/ f \in DOMAIN mapping \/ l \in DOMAIN mapping
  \/ \E id \in DOMAIN pending : pending[id].foreign = f \/ pending[id].local = l

\* signer is who signed the request, tx the creation transaction it names: that
\* of the contract tx.
AddContractMapping(caller, f, l, signer, tx) ==
  /\ caller = Creator[l]
  /\ ~contractMappingExists(f, l)
  /\ nextID <= MaxMappings
  /\ pending' = (nextID :> [foreign |-> f, local |-> l, creator |-> signer, tx |-> tx]) @@ pending
  /\ nextID' = nextID + 1
  /\ UNCHANGED <<owner, oracles, mapping, asked, sent, changes, errors>>

Confirmed(map, f, l) == (f :> l) @@ (l :> f) @@ map

AddAuthorizedContractMapping(caller, f, l) ==
  /\ caller = owner
  /\ ~contractMappingExists(f, l)
  /\ mapping' = Confirmed(mapping, f, l)
  /\ UNCHANGED <<owner, oracles, pending, nextID, asked, sent, changes, errors>>

\* The pending mapping goes in any case; those that are gone are passed over.
confirmContractMapping(acc, creator) ==
  LET p == acc.pending[creator.id] IN
  IF creator.id \notin DOMAIN acc.pending THEN acc
  ELSE [pending |-> Restrict(acc.pending, DOMAIN acc.pending \ {creator.id}),
        mapping |-> IF p.creator = creator.creator /\ p.foreign = creator.contract
                    THEN Confirmed(acc.mapping, p.foreign, p.local) ELSE acc.mapping]

\* An empty list, or one of somebody who is no oracle any more, is refused.
VerifyContractCreators(tx) ==
  LET all[i \in 0 .. Len(tx.creators)] ==
        IF i = 0 THEN [pending |-> pending, mapping |-> mapping]
        ELSE confirmContractMapping(all[i - 1], tx.creators[i])
      new == all[Len(tx.creators)]
  IN  /\ sent' = sent \ {tx}
      /\ IF tx.creators = <<>> \/ tx.oracle \notin oracles THEN UNCHANGED <<pending, mapping>>
         ELSE pending' = new.pending /\ mapping' = new.mapping
      /\ UNCHANGED <<owner, oracles, nextID, asked, changes, errors>>

OwnerCall(caller) ==
  /\ caller = owner /\ changes < MaxChanges
  /\ changes' = changes + 1
  /\ UNCHANGED <<pending, nextID, mapping, asked, sent, errors>>

AddOracle(caller, a) ==
  OwnerCall(caller) /\ a \notin oracles /\ oracles' = oracles \cup {a} /\ UNCHANGED owner

RemoveOracle(caller, a) ==
  OwnerCall(caller) /\ a \in oracles /\ oracles' = oracles \ {a} /\ UNCHANGED owner

ReplaceOwner(caller, a) == OwnerCall(caller) /\ owner' = a /\ UNCHANGED oracles

-----------------------------------------------------------------------------
\* The oracles

\* A list of the pending mappings, in the order of their IDs
UnverifiedContractCreators(a) ==
  /\ a \in oracles /\ asked[a] = <<>> /\ pending # <<>>
  /\ ~\E tx \in sent : tx.oracle = a
  /\ asked' = [asked EXCEPT ![a] = <<[id \in DOMAIN pending |-> pending[id].tx]>>]
  /\ UNCHANGED <<owner, oracles, pending, nextID, mapping, sent, changes, errors>>

\* The creation transaction is looked up: its creator and its contract, or the
\* root address for both when there is no such transaction.
fetchMainnetContractCreator(id, tx) ==
  IF tx \in Foreign THEN [id |-> id, creator |-> Creator[tx], contract |-> tx]
  ELSE [id |-> id, creator |-> "root", contract |-> "root"]

\* Those whose look-up fails are left out of the answer.
verifyContractCreators(a, failed) ==
  LET list == asked[a][1]
      ids  == DOMAIN list \ failed
      Ordered[n \in 0 .. MaxMappings] ==
        IF n = 0 THEN <<>>
        ELSE IF n \notin ids THEN Ordered[n - 1]
        ELSE Append(Ordered[n - 1], fetchMainnetContractCreator(n, list[n]))
  IN  /\ errors + Cardinality(failed) <= MaxErrors
      /\ errors' = errors + Cardinality(failed)
      /\ asked' = [asked EXCEPT ![a] = <<>>]
      /\ sent' = sent \cup {[oracle |-> a, creators |-> Ordered[MaxMappings]]}
      /\ UNCHANGED <<owner, oracles, pending, nextID, mapping, changes>>

Next ==
  \/ \E c \in Range(Creator), f \in Foreign, l \in Local, s \in Range(Creator),
        tx \in Foreign \cup {"missing"} :
       AddContractMapping(c, f, l, s, tx)
  \/ \E c \in Accounts, f \in Foreign, l \in Local : AddAuthorizedContractMapping(c, f, l)
  \/ \E tx \in sent : VerifyContractCreators(tx)
  \/ \E c, a \in Accounts : AddOracle(c, a) \/ RemoveOracle(c, a) \/ ReplaceOwner(c, a)
  \/ \E a \in Accounts :
       \/ UnverifiedContractCreators(a)
       \/ asked[a] # <<>> /\ \E failed \in SUBSET DOMAIN asked[a][1] : verifyContractCreators(a, failed)

-----------------------------------------------------------------------------
\* Properties

\* The two directions of the mapping agree, so no contract stands for two, in
\* whatever order mappings are asked for, authorized and verified.
MappingsInverse == \A c \in DOMAIN mapping : mapping[c] \in DOMAIN mapping /\ mapping[mapping[c]] = c

=============================================================================
