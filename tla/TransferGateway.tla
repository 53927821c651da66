--------------------------- MODULE TransferGateway ---------------------------
(***************************************************************************)
(* The Transfer Gateway contract of the DAppChain                          *)
(* (src/builtin/plugins/gateway/gateway.go), for one token of one kind:    *)
(* its state, and what its handlers compute from it.                       *)
(*                                                                         *)
(* The state is one record.  An address with no stored account has the     *)
(* zero account.  The local ledger of the token is part of the record,     *)
(* since the handlers change both in one transaction.  A withdrawal hash   *)
(* is the record of what is hashed, and a signature the hash it signs.     *)
(***************************************************************************)
EXTENDS Integers, Sequences, FiniteSets, Functions, FiniteSetsExt

CONSTANTS
  Users,                      \* accounts of the DAppChain
  EthAddrs,                   \* accounts of Ethereum
  TokenIDs,                   \* token ids; a single one for a fungible token
  Kind,                       \* the token's kind
  CheckTxHash,                \* is the feature tg:check-txhash enabled?
  GatewayAddr,                \* the contract's own address
  NoUser, NoReceipt, NoSig    \* nil

ASSUME KindAssumption ==
  /\ Kind \in {"ETH", "DiademCoin", "ERC20", "ERC721", "ERC721X"}
  /\ Kind \in {"ETH", "DiademCoin", "ERC20"} => \E id \in TokenIDs : TokenIDs = {id}
  /\ CheckTxHash \in BOOLEAN

ASSUME NilUserAssumption == NoUser \notin Users /\ GatewayAddr \notin Users

\* Tokens of these kinds live in an EVM contract mapped to the one on Ethereum.
HasContract == Kind \in {"ERC20", "ERC721", "ERC721X"}

Holders == Users \cup {GatewayAddr}

Hashes == [to : EthAddrs, nonce : Nat, id : TokenIDs, amount : Nat]

Receipts == [to : EthAddrs, nonce : Nat, id : TokenIDs, amount : Nat]

TokenAmounts == [id : TokenIDs, amount : Nat]

ASSUME NilReceiptAssumption == NoReceipt \notin Receipts /\ NoSig \notin Hashes

\* GatewayState, LocalAccount (the receipt, and apart from it its signature),
\* ForeignAccount, UnclaimedToken, the index of depositors, the hashes seen, and
\* the token's ledger.
GatewayStates ==
  [last        : Nat,
   withdrawers : Seq(Users),
   receipt     : [Users -> Receipts \cup {NoReceipt}],
   sig         : [Users -> Hashes \cup {NoSig}],
   foreign     : [EthAddrs -> [nonce : Nat, withdrawer : Users \cup {NoUser}]],
   unclaimed   : [EthAddrs -> Seq(TokenAmounts)],
   depositors  : SUBSET EthAddrs,
   seen        : SUBSET Nat,
   bal         : [TokenIDs -> [Holders -> Nat]]]

InitGateway ==
  [last        |-> 0,
   withdrawers |-> <<>>,
   receipt     |-> [u \in Users |-> NoReceipt],
   sig         |-> [u \in Users |-> NoSig],
   foreign     |-> [e \in EthAddrs |-> [nonce |-> 0, withdrawer |-> NoUser]],
   unclaimed   |-> [e \in EthAddrs |-> <<>>],
   depositors  |-> {},
   seen        |-> {},
   bal         |-> [id \in TokenIDs |-> [h \in Holders |-> 0]]]

-----------------------------------------------------------------------------
\* Deposits

\* What the gateway mints to itself before it hands n of token id on.
ToMint(bal, id, n) ==
  LET available == bal[id][GatewayAddr] IN
  CASE Kind = "ERC721"  -> IF \E h \in Holders : bal[id][h] > 0 THEN 0 ELSE 1
    [] Kind = "ERC721X" -> IF available < n THEN n - available ELSE 0
    [] OTHER            -> IF available < n THEN n ELSE 0

\* A call into a token's EVM contract may fail; ethcoin and coin do not.
Outcomes == IF HasContract THEN {"ok", "mint fails", "transfer fails"} ELSE {"ok"}

\* The ledger after the transfer to user, and whether there was no error.
\* What was minted stays with the gateway when the transfer fails.
transferTokenDeposit(bal, user, mapped, id, n, outcome) ==
  LET mint   == ToMint(bal, id, n)
      minted == [bal EXCEPT ![id][GatewayAddr] = @ + mint]
  IN CASE user = NoUser \/ (HasContract /\ ~mapped)    -> [bal |-> bal, ok |-> FALSE]
       [] mint > 0 /\ outcome = "mint fails"           -> [bal |-> bal, ok |-> FALSE]
       [] \/ outcome = "transfer fails"
          \/ minted[id][GatewayAddr] < n               -> [bal |-> minted, ok |-> FALSE]
       [] OTHER -> [bal |-> [minted EXCEPT ![id] = [@ EXCEPT ![GatewayAddr] = @ - n,
                                                             ![user] = @ + n]],
                    ok  |-> TRUE]

\* Unclaimed ids of an ERC721 are listed; otherwise amounts add up by id.
AddedAmount(amounts, id, n) ==
  LET same == {i \in DOMAIN amounts : amounts[i].id = id} IN
  IF Kind = "ERC721" \/ same = {}
    THEN Append(amounts, [id |-> id, amount |-> n])
    ELSE [amounts EXCEPT ![Min(same)] = [id |-> id, amount |-> @.amount + n]]

storeUnclaimedToken(g, e, id, n) ==
  [g EXCEPT !.unclaimed[e] = AddedAmount(@, id, n), !.depositors = @ \cup {e}]

\* The deposit ev of ProcessEventBatch: credited, or kept as unclaimed.
Deposited(g, ev, user, mapped, outcome) ==
  LET t     == transferTokenDeposit(g.bal, user, mapped, ev.id, ev.amount, outcome)
      moved == [g EXCEPT !.bal = t.bal]
  IN IF t.ok THEN moved ELSE storeUnclaimedToken(moved, ev.owner, ev.id, ev.amount)

\* Mutated Reclaimed: what was handed out stays listed.
ReclaimedTwice(c, e, user, mapped, outcome) ==
  LET amounts == c.unclaimed[e]
      after[i \in 0 .. Len(amounts)] ==
        IF i = 0 THEN c.bal
        ELSE transferTokenDeposit(after[i - 1], user, mapped, amounts[i].id,
                                  amounts[i].amount, outcome).bal
  IN [c EXCEPT !.bal = after[Len(amounts)]]

\* reclaimDepositorTokensForContract, on the ledger, the unclaimed amounts and
\* the depositors: hand out what can be handed out, keep the rest.
Reclaimed(c, e, user, mapped, outcome) ==
  LET amounts == c.unclaimed[e]
      after[i \in 0 .. Len(amounts)] ==
        IF i = 0 THEN [bal |-> c.bal, failed |-> <<>>]
        ELSE LET t == transferTokenDeposit(after[i - 1].bal, user, mapped, amounts[i].id,
                                           amounts[i].amount, outcome)
             IN [bal    |-> t.bal,
                 failed |-> IF t.ok THEN after[i - 1].failed
                            ELSE Append(after[i - 1].failed, amounts[i])]
      failed == after[Len(amounts)].failed
  IN [bal        |-> after[Len(amounts)].bal,
      unclaimed  |-> [c.unclaimed EXCEPT ![e] = failed],
      depositors |-> IF failed = <<>> THEN c.depositors \ {e} ELSE c.depositors]

Claims(g) == [bal |-> g.bal, unclaimed |-> g.unclaimed, depositors |-> g.depositors]

WithClaims(g, c) ==
  [g EXCEPT !.bal = c.bal, !.unclaimed = c.unclaimed, !.depositors = c.depositors]

-----------------------------------------------------------------------------
\* Withdrawals

\* WithdrawToken, WithdrawETH and WithdrawDiademCoin: the checks.  A transfer
\* to the gateway needs the balance (and an allowance); so does a burn.
CanWithdraw(g, u, e, mapped, id, n) ==
  /\ g.receipt[u] = NoReceipt
  /\ g.foreign[e].withdrawer = NoUser
  /\ HasContract => mapped
  /\ g.bal[id][u] >= n
  /\ u \notin Range(g.withdrawers)

\* The token goes to the gateway, the native coin is burned.
Withdrawn(g, u, e, id, n) ==
  [g EXCEPT
     !.bal[id] = IF Kind = "DiademCoin" THEN [@ EXCEPT ![u] = @ - n]
                 ELSE [@ EXCEPT ![u] = @ - n, ![GatewayAddr] = @ + n],
     !.receipt[u] = [to |-> e, nonce |-> g.foreign[e].nonce, id |-> id, amount |-> n],
     !.foreign[e] = [nonce |-> @.nonce, withdrawer |-> u],
     !.withdrawers = Append(@, u)]

HashOf(r) == [to |-> r.to, nonce |-> r.nonce, id |-> r.id, amount |-> r.amount]

\* PendingWithdrawals fails when a listed withdrawer has no receipt.
PendingWithdrawalsFails(g) == \E u \in Range(g.withdrawers) : g.receipt[u] = NoReceipt

Unsigned(g) ==
  SelectSeq(g.withdrawers, LAMBDA u : g.sig[u] = NoSig)

PendingWithdrawals(g) ==
  [i \in DOMAIN Unsigned(g) |->
     [owner |-> Unsigned(g)[i], hash |-> HashOf(g.receipt[Unsigned(g)[i]])]]

\* doConfirmWithdrawalReceipt: the request names the owner, and its
\* WithdrawalHash is not read.
ConfirmOutcome(g, u) ==
  CASE g.receipt[u] = NoReceipt    -> "missing"
    [] g.sig[u] # NoSig            -> "signed"
    [] OTHER                       -> "ok"

Confirmed(g, u, sig) == [g EXCEPT !.sig[u] = sig]

\* removeTokenWithdrawer: the last entry takes the place of the one removed.
WithoutWithdrawer(ws, u) ==
  LET i == Min({j \in DOMAIN ws : ws[j] = u})
      moved == [ws EXCEPT ![i] = ws[Len(ws)]]
  IN SubSeq(moved, 1, Len(ws) - 1)

\* completeTokenWithdraw fails when there is nothing pending to the owner.
HasPending(g, e) ==
  LET u == g.foreign[e].withdrawer IN u # NoUser /\ g.receipt[u] # NoReceipt

\* removeTokenWithdrawer, its last step, fails when the user is not listed.
Listed(g, e) == g.foreign[e].withdrawer \in Range(g.withdrawers)

\* Mutated Completed: the withdrawer list is left alone.
CompletedStillListed(g, e) ==
  LET u == g.foreign[e].withdrawer IN
  [g EXCEPT !.receipt[u] = NoReceipt,
            !.sig[u] = NoSig,
            !.foreign[e] = [nonce |-> @.nonce + 1, withdrawer |-> NoUser]]

\* completeTokenWithdraw; the event's token and amount are not compared with
\* the receipt's.
Completed(g, e) ==
  LET u == g.foreign[e].withdrawer IN
  [g EXCEPT !.receipt[u] = NoReceipt,
            !.sig[u] = NoSig,
            !.foreign[e] = [nonce |-> @.nonce + 1, withdrawer |-> NoUser],
            !.withdrawers = IF Listed(g, e) THEN WithoutWithdrawer(@, u) ELSE @]

-----------------------------------------------------------------------------
\* One event of ProcessEventBatch

AlreadySeen(g, ev) == CheckTxHash /\ ev.tx \in g.seen

\* Does ev change anything?  Otherwise the batch goes on without it.
Applies(g, ev) ==
  /\ ~AlreadySeen(g, ev)
  /\ ev.type = "withdrawal" => HasPending(g, ev.owner)

\* Does ev count as processed?
Counts(g, ev) == Applies(g, ev) /\ (ev.type = "withdrawal" => Listed(g, ev.owner))

Applied(g, ev, user, mapped, outcome) ==
  LET new == IF ev.type = "deposit" THEN Deposited(g, ev, user, mapped, outcome)
             ELSE Completed(g, ev.owner)
  IN [new EXCEPT !.seen = IF CheckTxHash /\ Counts(g, ev) THEN @ \cup {ev.tx} ELSE @]

=============================================================================
