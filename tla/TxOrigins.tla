------------------------------ MODULE TxOrigins ------------------------------
(***************************************************************************)
(* Who a transaction comes from, and what it may deploy: accounts of other *)
(* chains that the chain accepts once validators have enabled them         *)
(* (src/auth), the contract that maps them to accounts of this chain       *)
(* (src/builtin/plugins/address_mapper), the list of deployers             *)
(* (deployer_whitelist, src/throttle/deployer-middleware.go), the handlers *)
(* of deploy and migration transactions (src/vm/handler.go,                *)
(* src/tx_handler) and the registry of contracts (src/registry).           *)
(*                                                                         *)
(* An account is [chain, local].  The order of the middlewares is that of  *)
(* src/cmd/diadem/loom.go; a transaction that fails changes nothing.       *)
(***************************************************************************)
EXTENDS Integers, SequencesExt

CONSTANTS
  Home,            \* the id of this chain
  Chains,          \* the configured chains, with the AccountType of each
  Locals,          \* local addresses
  Names,           \* contract names; "" is none, "bad name" not a valid one
  RegistryVersion, \* 1 or 2
  DeployerFlags,   \* the flags a deployer is added with
  MaxContracts     \* bound on the contracts

Parties == [chain : DOMAIN Chains \cup {Home}, local : Locals]

VARIABLES
  enabled,         \* the features: chains, "deployer-whitelist", "migration"
  mapping,         \* the stored AddressMappings, from each account to another
  deployers,       \* the flags of each account in the list
  contracts,       \* the contracts created: [origin, vm], in their order
  names,           \* the contract of each name that is registered
  records,         \* [name, owner] of the contracts that have a record
  migrated         \* the migration has been run

vars == <<enabled, mapping, deployers, contracts, names, records, migrated>>

\* The first local address of this chain is the owner of the list.
Owner == [chain |-> Home, local |-> CHOOSE l \in Locals : TRUE]

AllFlags == {"evm", "go", "migration"}

Init ==
  /\ enabled = {}
  /\ mapping = <<>>
  /\ deployers = Owner :> AllFlags
  /\ contracts = <<>> /\ names = <<>> /\ records = <<>>
  /\ migrated = FALSE

-----------------------------------------------------------------------------
\* Authentication

NoAccount == [chain |-> "", local |-> ""]

\* getEnabledChains
EnabledChains == {c \in DOMAIN Chains : c \in enabled}

AccountType(chain) == IF chain \in EnabledChains THEN Chains[chain] ELSE "native"

\* getMappedAccountAddress
Mapped(a) ==
  IF a \in DOMAIN mapping /\ mapping[a].chain = Home THEN mapping[a] ELSE NoAccount

\* Mutated Origin: an account without a mapping stands for itself.
OriginUnmapped(a) ==
  IF EnabledChains = {} THEN IF a.chain = Home THEN a ELSE NoAccount
  ELSE IF a.chain \notin EnabledChains \cup {Home} THEN NoAccount
  ELSE IF AccountType(a.chain) = "native" \/ Mapped(a) = NoAccount THEN a
  ELSE Mapped(a)

\* The origin of a transaction signed by an account that names itself as the
\* sender: SignatureTxMiddleware, with which the handlers refuse a sender of
\* another chain, or NewMultiChainSignatureTxMiddleware, which replaces it.
Origin(a) ==
  IF EnabledChains = {} THEN IF a.chain = Home THEN a ELSE NoAccount
  ELSE IF a.chain \notin EnabledChains \cup {Home} THEN NoAccount
  ELSE IF AccountType(a.chain) = "native" THEN a
  ELSE Mapped(a)

\* ResolveAccountAddress, with which queries look up the same account
ResolveAccountAddress(a) ==
  IF EnabledChains # {}
  THEN IF a.chain \in EnabledChains \cup {Home}
       THEN IF AccountType(a.chain) = "native" THEN a ELSE Mapped(a)
       ELSE NoAccount
  ELSE IF a.chain # Home THEN NoAccount ELSE a

\* A transaction: its account has an origin.
From(a) == Origin(a) # NoAccount

-----------------------------------------------------------------------------
\* The address mapper

\* verifySig: for two accounts of one chain the signer must be the first.
SignedBy(from, to, chain, signer) ==
  signer = IF chain = from.chain THEN from.local ELSE to.local

\* Mutated AddIdentityMapping: only the first account must be free.
AddIdentityMappingOver(a, from, to, signer) ==
  /\ From(a) /\ from # to
  /\ \/ Origin(a) = from /\ SignedBy(from, to, to.chain, signer)
     \/ Origin(a) = to /\ SignedBy(from, to, from.chain, signer)
  /\ from \notin DOMAIN mapping
  /\ mapping' = (from :> to) @@ (to :> from) @@ mapping
  /\ UNCHANGED <<enabled, deployers, contracts, names, records, migrated>>

AddIdentityMapping(a, from, to, signer) ==
  /\ From(a) /\ from # to
  /\ \/ Origin(a) = from /\ SignedBy(from, to, to.chain, signer)
     \/ Origin(a) = to /\ SignedBy(from, to, from.chain, signer)
  /\ from \notin DOMAIN mapping /\ to \notin DOMAIN mapping
  /\ mapping' = (from :> to) @@ (to :> from) @@ mapping
  /\ UNCHANGED <<enabled, deployers, contracts, names, records, migrated>>

-----------------------------------------------------------------------------
\* Deployers

AddDeployer(a, d, flags) ==
  /\ From(a) /\ Origin(a) = Owner
  /\ flags # {} /\ d \notin DOMAIN deployers
  /\ deployers' = (d :> flags) @@ deployers
  /\ UNCHANGED <<enabled, mapping, contracts, names, records, migrated>>

RemoveDeployer(a, d) ==
  /\ From(a) /\ Origin(a) = Owner
  /\ d \in DOMAIN deployers
  /\ deployers' = [x \in DOMAIN deployers \ {d} |-> deployers[x]]
  /\ UNCHANGED <<enabled, mapping, contracts, names, records, migrated>>

\* The middleware
Allowed(origin, flag) ==
  "deployer-whitelist" \in enabled =>
    origin \in DOMAIN deployers /\ flag \in deployers[origin]

-----------------------------------------------------------------------------
\* Deployment

CanRegister(name) == name # "bad name" /\ name \notin DOMAIN names

\* Mutated RegisterV2: the name is not looked up.
RegisterOver(name, c, owner) ==
  /\ names' = IF name \in {"", "bad name"} THEN names ELSE (name :> c) @@ names
  /\ records' = (c :> [name |-> name, owner |-> owner]) @@ records

\* Register of the first version, which keeps records by name only.
RegisterV1(name, c) ==
  /\ names' = IF name = "" \/ ~CanRegister(name) THEN names ELSE (name :> c) @@ names
  /\ UNCHANGED records

\* Register of the second keeps the address by name and a record for every
\* contract, named or not.  A name that is not valid or is taken is an error
\* before anything is set.
RegisterV2(name, c, owner) ==
  /\ names' = IF name = "" \/ ~CanRegister(name) THEN names ELSE (name :> c) @@ names
  /\ records' = IF name # "" /\ ~CanRegister(name) THEN records
                ELSE (c :> [name |-> name, owner |-> owner]) @@ records

Register(name, c, owner) ==
  IF RegistryVersion = 1 THEN RegisterV1(name, c) ELSE RegisterV2(name, c, owner)

\* DeployTxHandler drops the error of Register: the contract is deployed.
Deploy(a, vm, name) ==
  /\ From(a) /\ Allowed(Origin(a), vm)
  /\ Len(contracts) < MaxContracts
  /\ contracts' = Append(contracts, [origin |-> Origin(a), vm |-> vm])
  /\ Register(name, Len(contracts) + 1, Origin(a))
  /\ UNCHANGED <<enabled, mapping, deployers, migrated>>

\* DeployContract of a migration fails with Register.
DeployContract(origin, name) ==
  /\ CanRegister(name) /\ Len(contracts) < MaxContracts
  /\ contracts' = Append(contracts, [origin |-> origin, vm |-> "go"])
  /\ Register(name, Len(contracts) + 1, origin)

\* MigrationTxHandler, with the migration to the third DPOS contract: it deploys
\* that contract.
Migrate(a, name) ==
  /\ From(a) /\ Allowed(Origin(a), "migration")
  /\ "migration" \in enabled /\ ~migrated
  /\ DeployContract(Origin(a), name)
  /\ migrated' = TRUE
  /\ UNCHANGED <<enabled, mapping, deployers>>

\* Features are enabled at the start of a block, and never disabled.
EnableFeature(f) ==
  /\ f \notin enabled
  /\ enabled' = enabled \cup {f}
  /\ UNCHANGED <<mapping, deployers, contracts, names, records, migrated>>

Next ==
  \/ \E a \in Parties :
       \/ \E from, to \in Parties, signer \in Locals : AddIdentityMapping(a, from, to, signer)
       \/ \E d \in Parties : AddDeployer(a, d, DeployerFlags) \/ RemoveDeployer(a, d)
       \/ \E vm \in {"evm", "go"}, name \in Names : Deploy(a, vm, name)
       \/ Migrate(a, "dposV3")
  \/ \E f \in DOMAIN Chains \cup {"deployer-whitelist", "migration"} : EnableFeature(f)

Spec == Init /\ [][Next]_vars

-----------------------------------------------------------------------------
\* Properties

\* An account acts for the same account of this chain for ever, whichever chains
\* are enabled and whoever adds mappings, and queries look up that account: what
\* a client has signed for with one key is never found under another address.
OriginStable ==
  \A a \in Parties :
    /\ Origin(a) # NoAccount => Origin(a)' = Origin(a)
    /\ ResolveAccountAddress(a)' = Origin(a)'

\* An account of this chain speaks for itself and for at most one other account:
\* the mappings are pairs, whatever order and side they are added from.
OneIdentity ==
  \A a, b, c \in Parties :
    (Origin(a) # NoAccount /\ Origin(a) = Origin(b) /\ Origin(b) = Origin(c))
      => a = b \/ b = c \/ a = c

\* A name leads to one contract, whose record has that name: the errors of
\* Register that DeployTxHandler drops leave no name and no record behind.
NamesConsistent ==
  RegistryVersion = 2 =>
    /\ \A n \in DOMAIN names : names[n] \in DOMAIN records /\ records[names[n]].name = n
    /\ \A c \in DOMAIN records :
         records[c].name # "" => records[c].name \in DOMAIN names /\ names[records[c].name] = c

=============================================================================
