------------------------ MODULE GatewayBridgeProofs ------------------------
(***************************************************************************)
(* Proofs about the bridge, for any users, Ethereum addresses, tokens,     *)
(* oracles and bounds: the three records every pending withdrawal has in   *)
(* the gateway contract agree.                                             *)
(***************************************************************************)
EXTENDS GatewayBridge, SequenceTheorems, TLAPS

Fields ==
  {"last", "withdrawers", "receipt", "sig", "foreign", "unclaimed", "depositors", "seen", "bal"}

ForeignAccounts == [nonce : Nat, withdrawer : Users \cup {NoUser}]

\* The types of the parts of a contract state that withdrawals are kept in.
Typed(g) ==
  /\ DOMAIN g = Fields
  /\ g.withdrawers \in Seq(Users)
  /\ g.receipt \in [Users -> Receipts \cup {NoReceipt}]
  /\ g.foreign \in [EthAddrs -> ForeignAccounts]

Good(g) == Typed(g) /\ Linked(g)

\* Two states with the same records of withdrawals.
SameWithdrawals(g, h) ==
  /\ DOMAIN h = DOMAIN g
  /\ h.withdrawers = g.withdrawers
  /\ h.receipt = g.receipt
  /\ h.foreign = g.foreign

-----------------------------------------------------------------------------
\* Handlers that leave the records of withdrawals alone

\* Goodness depends on the records of withdrawals alone.
LEMMA SameIsGood ==
  ASSUME NEW g, NEW h, Good(g), SameWithdrawals(g, h)
  PROVE  Good(h)
BY DEF Good, Typed, Linked, SameWithdrawals

\* A deposit changes the ledger and what is unclaimed.
LEMMA DepositedSame ==
  ASSUME NEW g, NEW ev, NEW user, NEW map, NEW outcome, DOMAIN g = Fields
  PROVE  SameWithdrawals(g, Deposited(g, ev, user, map, outcome))
<1> DEFINE t == transferTokenDeposit(g.bal, user, map, ev.id, ev.amount, outcome)
           moved == [g EXCEPT !.bal = t.bal]
<1>1. Deposited(g, ev, user, map, outcome) =
        IF t.ok THEN moved ELSE storeUnclaimedToken(moved, ev.owner, ev.id, ev.amount)
  BY DEF Deposited
<1> HIDE DEF t
<1>2. SameWithdrawals(g, moved) /\ DOMAIN moved = Fields
  BY DEF SameWithdrawals, Fields
<1> HIDE DEF moved
<1>3. SameWithdrawals(g, storeUnclaimedToken(moved, ev.owner, ev.id, ev.amount))
  BY <1>2 DEF SameWithdrawals, Fields, storeUnclaimedToken
<1> QED BY <1>1, <1>2, <1>3

\* Reclaiming changes the ledger and what is unclaimed.
LEMMA ClaimsSame ==
  ASSUME NEW g, NEW c, DOMAIN g = Fields
  PROVE  SameWithdrawals(g, WithClaims(g, c))
BY DEF SameWithdrawals, Fields, WithClaims

\* A confirmation sets a signature.
LEMMA ConfirmedSame ==
  ASSUME NEW g, NEW u, NEW s, DOMAIN g = Fields
  PROVE  SameWithdrawals(g, Confirmed(g, u, s))
BY DEF SameWithdrawals, Fields, Confirmed

-----------------------------------------------------------------------------
\* The list of withdrawers

\* The list names nobody twice.
NoTwice(ws) == \A i, j \in DOMAIN ws : ws[i] = ws[j] => i = j

\* removeTokenWithdrawer removes one entry and keeps the others, though not
\* their order.
LEMMA WithoutWithdrawerRange ==
  ASSUME NEW ws \in Seq(Users), NoTwice(ws), NEW u \in Range(ws)
  PROVE  /\ WithoutWithdrawer(ws, u) \in Seq(Users)
         /\ NoTwice(WithoutWithdrawer(ws, u))
         /\ Range(WithoutWithdrawer(ws, u)) = Range(ws) \ {u}
<1> DEFINE n == Len(ws)
           S == {j \in DOMAIN ws : ws[j] = u}
           moved(k) == [ws EXCEPT ![k] = ws[n]]
<1>1. PICK k \in DOMAIN ws : ws[k] = u
  BY DEF Range
<1>2. S = {k}
  BY <1>1 DEF NoTwice
<1>3. n \in Nat /\ DOMAIN ws = 1 .. n /\ k \in 1 .. n
  BY <1>1
<1>4. Min(S) = k
  BY <1>2, <1>3 DEF Min
<1>5. WithoutWithdrawer(ws, u) = SubSeq(moved(k), 1, n - 1)
  BY <1>4 DEF WithoutWithdrawer
<1>6. moved(k) \in Seq(Users) /\ Len(moved(k)) = n
  BY <1>3
<1> DEFINE w == SubSeq(moved(k), 1, n - 1)
<1>7. /\ w \in Seq(Users) /\ DOMAIN w = 1 .. n - 1
      /\ \A i \in 1 .. n - 1 : w[i] = IF i = k THEN ws[n] ELSE ws[i]
  BY <1>3, <1>6
<1>8. NoTwice(w)
  BY <1>3, <1>7 DEF NoTwice
<1> HIDE DEF w
<1>9. Range(w) = Range(ws) \ {u}
  <2>1. ASSUME NEW x \in Range(w) PROVE x \in Range(ws) \ {u}
    <3>1. PICK i \in 1 .. n - 1 : x = IF i = k THEN ws[n] ELSE ws[i]
      BY <1>7 DEF Range
    <3> QED BY <1>1, <1>3, <3>1 DEF Range, NoTwice
  <2>2. ASSUME NEW x \in Range(ws) \ {u} PROVE x \in Range(w)
    <3>1. PICK i \in 1 .. n : x = ws[i] /\ i # k
      BY <1>1, <1>3 DEF Range
    <3>2. \E j \in DOMAIN w : w[j] = x
      <4>1. CASE i = n
        <5>1. k \in 1 .. n - 1
          BY <1>3, <3>1, <4>1
        <5>2. w[k] = x
          BY <1>7, <3>1, <4>1, <5>1
        <5> QED BY <1>7, <5>1, <5>2
      <4>2. CASE i # n
        <5> HIDE DEF n
        <5>1. i \in 1 .. n - 1
          BY <1>3, <4>2
        <5>2. w[i] = x
          BY <1>7, <3>1, <5>1
        <5> QED BY <1>7, <5>1, <5>2
      <4> QED BY <4>1, <4>2
    <3> QED BY <3>2 DEF Range
  <2> QED BY <2>1, <2>2
<1> QED BY <1>5, <1>7, <1>8, <1>9 DEF w

-----------------------------------------------------------------------------
\* Handlers that change the records of withdrawals

\* completeTokenWithdraw ends exactly one withdrawal.
LEMMA CompletedGood ==
  ASSUME NEW g, NEW e \in EthAddrs, Good(g), HasPending(g, e)
  PROVE  Good(Completed(g, e)) /\ Listed(g, e)
<1> DEFINE u == g.foreign[e].withdrawer
           h == Completed(g, e)
<1>1. /\ u \in Users /\ g.receipt[u] # NoReceipt /\ g.receipt[u].to = e
      /\ Listed(g, e)
  BY NilUserAssumption DEF Good, Typed, ForeignAccounts, HasPending, Linked, Listed
<1>2. /\ DOMAIN h = Fields
      /\ h.receipt = [g.receipt EXCEPT ![u] = NoReceipt]
      /\ h.foreign = [g.foreign EXCEPT ![e] = [nonce |-> g.foreign[e].nonce + 1,
                                               withdrawer |-> NoUser]]
      /\ h.withdrawers = WithoutWithdrawer(g.withdrawers, u)
  BY <1>1 DEF Good, Typed, Fields, Completed
<1>3. NoTwice(g.withdrawers)
  BY DEF Good, Linked, NoTwice
<1>4. /\ h.withdrawers \in Seq(Users)
      /\ NoTwice(h.withdrawers)
      /\ Range(h.withdrawers) = Range(g.withdrawers) \ {u}
  <2>1. g.withdrawers \in Seq(Users) /\ u \in Range(g.withdrawers)
    BY <1>1 DEF Good, Typed, Listed
  <2> DEFINE ws == g.withdrawers
  <2>2. ws \in Seq(Users) /\ NoTwice(ws) /\ u \in Range(ws)
    BY <1>3, <2>1
  <2> HIDE DEF ws, u
  <2>3. /\ WithoutWithdrawer(ws, u) \in Seq(Users)
        /\ NoTwice(WithoutWithdrawer(ws, u))
        /\ Range(WithoutWithdrawer(ws, u)) = Range(ws) \ {u}
    BY <2>2, WithoutWithdrawerRange
  <2> QED BY <1>2, <2>3 DEF ws
<1> HIDE DEF h
<1>5. Typed(h)
  <2>1. g.foreign[e].nonce + 1 \in Nat
    BY DEF Good, Typed, ForeignAccounts
  <2>2. [nonce |-> g.foreign[e].nonce + 1, withdrawer |-> NoUser] \in ForeignAccounts
    BY <2>1 DEF ForeignAccounts
  <2>3. h.foreign \in [EthAddrs -> ForeignAccounts]
    BY <1>2, <2>2 DEF Good, Typed
  <2>4. h.receipt \in [Users -> Receipts \cup {NoReceipt}]
    BY <1>2 DEF Good, Typed
  <2> QED BY <1>2, <1>4, <2>3, <2>4 DEF Typed
<1>6. \A v \in Users : (h.receipt[v] # NoReceipt) <=> v \in Range(h.withdrawers)
  BY <1>1, <1>2, <1>4 DEF Good, Typed, Linked
<1>7. \A v \in Users, f \in EthAddrs :
        (h.foreign[f].withdrawer = v) <=> (h.receipt[v] # NoReceipt /\ h.receipt[v].to = f)
  <2> SUFFICES ASSUME NEW v \in Users, NEW f \in EthAddrs
               PROVE  (h.foreign[f].withdrawer = v) <=>
                        (h.receipt[v] # NoReceipt /\ h.receipt[v].to = f)
    OBVIOUS
  <2>1. (g.foreign[f].withdrawer = v) <=> (g.receipt[v] # NoReceipt /\ g.receipt[v].to = f)
    BY DEF Good, Linked
  <2>2. h.receipt[v] = IF v = u THEN NoReceipt ELSE g.receipt[v]
    BY <1>2 DEF Good, Typed
  <2>3. h.foreign[f].withdrawer = IF f = e THEN NoUser ELSE g.foreign[f].withdrawer
    BY <1>2 DEF Good, Typed
  <2> QED BY <1>1, <2>1, <2>2, <2>3, NilUserAssumption
<1>8. \A v \in Users :
        h.receipt[v] # NoReceipt => h.receipt[v].nonce = h.foreign[h.receipt[v].to].nonce
  <2> SUFFICES ASSUME NEW v \in Users, h.receipt[v] # NoReceipt
               PROVE  h.receipt[v].nonce = h.foreign[h.receipt[v].to].nonce
    OBVIOUS
  <2>1. v # u /\ h.receipt[v] = g.receipt[v] /\ g.receipt[v] # NoReceipt
    BY <1>1, <1>2 DEF Good, Typed
  <2>2. g.receipt[v].to \in EthAddrs /\ g.receipt[v].to # e
    <3>1. g.receipt[v].to \in EthAddrs
      BY <2>1 DEF Good, Typed, Receipts
    <3>2. g.foreign[g.receipt[v].to].withdrawer = v
      BY <2>1, <3>1 DEF Good, Linked
    <3> QED BY <2>1, <3>1, <3>2
  <2>3. h.foreign[g.receipt[v].to] = g.foreign[g.receipt[v].to]
    BY <1>2, <2>2 DEF Good, Typed
  <2> QED BY <2>1, <2>3 DEF Good, Linked
<1> QED BY <1>1, <1>4, <1>5, <1>6, <1>7, <1>8 DEF Good, Linked, NoTwice, h

\* A withdrawal of WithdrawToken, WithdrawETH or WithdrawDiademCoin starts one.
LEMMA WithdrawnGood ==
  ASSUME NEW g, NEW u \in Users, NEW e \in EthAddrs, NEW map, NEW id \in TokenIDs,
         NEW n \in Nat, Good(g), CanWithdraw(g, u, e, map, id, n)
  PROVE  Good(Withdrawn(g, u, e, id, n))
<1> DEFINE h == Withdrawn(g, u, e, id, n)
           r == [to |-> e, nonce |-> g.foreign[e].nonce, id |-> id, amount |-> n]
           a == [nonce |-> g.foreign[e].nonce, withdrawer |-> u]
<1>1. /\ g.receipt[u] = NoReceipt /\ u \notin Range(g.withdrawers)
      /\ g.foreign[e].withdrawer = NoUser
  BY DEF CanWithdraw
<1>2. /\ DOMAIN h = Fields
      /\ h.receipt = [g.receipt EXCEPT ![u] = r]
      /\ h.foreign = [g.foreign EXCEPT ![e] = a]
      /\ h.withdrawers = Append(g.withdrawers, u)
  BY DEF Good, Typed, Fields, Withdrawn
<1>3. r \in Receipts /\ r # NoReceipt /\ a \in ForeignAccounts
  <2>1. g.foreign[e].nonce \in Nat
    BY DEF Good, Typed, ForeignAccounts
  <2> QED BY <2>1, NilReceiptAssumption DEF Receipts, ForeignAccounts
<1>4. /\ r.to = e /\ r.nonce = g.foreign[e].nonce
      /\ a.nonce = g.foreign[e].nonce /\ a.withdrawer = u
  OBVIOUS
<1> HIDE DEF h, r, a
<1>5. /\ h.withdrawers \in Seq(Users)
      /\ NoTwice(h.withdrawers)
      /\ Range(h.withdrawers) = Range(g.withdrawers) \cup {u}
  <2> DEFINE ws == g.withdrawers
  <2>1. ws \in Seq(Users) /\ NoTwice(ws) /\ u \notin Range(ws) /\ h.withdrawers = Append(ws, u)
    BY <1>1, <1>2 DEF Good, Typed, Linked, NoTwice
  <2> HIDE DEF ws
  <2>2. /\ DOMAIN ws = 1 .. Len(ws) /\ Len(ws) \in Nat
        /\ Append(ws, u) \in Seq(Users)
        /\ DOMAIN Append(ws, u) = 1 .. Len(ws) + 1
        /\ \A i \in 1 .. Len(ws) + 1 :
             Append(ws, u)[i] = IF i = Len(ws) + 1 THEN u ELSE ws[i]
    BY <2>1
  <2>3. NoTwice(Append(ws, u))
    BY <2>1, <2>2 DEF NoTwice, Range
  <2>4. Range(Append(ws, u)) = Range(ws) \cup {u}
    BY <2>2 DEF Range
  <2> QED BY <2>1, <2>2, <2>3, <2>4 DEF ws
<1>6. Typed(h)
  BY <1>2, <1>3, <1>5 DEF Good, Typed
<1>7. \A v \in Users : h.receipt[v] = IF v = u THEN r ELSE g.receipt[v]
  BY <1>2 DEF Good, Typed
<1>8. \A f \in EthAddrs : h.foreign[f] = IF f = e THEN a ELSE g.foreign[f]
  BY <1>2 DEF Good, Typed
<1>9. \A v \in Users : (h.receipt[v] # NoReceipt) <=> v \in Range(h.withdrawers)
  BY <1>3, <1>5, <1>7 DEF Good, Linked
<1>10. \A v \in Users, f \in EthAddrs :
         (h.foreign[f].withdrawer = v) <=> (h.receipt[v] # NoReceipt /\ h.receipt[v].to = f)
  <2> SUFFICES ASSUME NEW v \in Users, NEW f \in EthAddrs
               PROVE  (h.foreign[f].withdrawer = v) <=>
                        (h.receipt[v] # NoReceipt /\ h.receipt[v].to = f)
    OBVIOUS
  <2>1. (g.foreign[f].withdrawer = v) <=> (g.receipt[v] # NoReceipt /\ g.receipt[v].to = f)
    BY DEF Good, Linked
  <2> QED BY <1>1, <1>3, <1>4, <1>7, <1>8, <2>1, NilUserAssumption
<1>11. \A v \in Users :
         h.receipt[v] # NoReceipt => h.receipt[v].nonce = h.foreign[h.receipt[v].to].nonce
  <2> SUFFICES ASSUME NEW v \in Users, h.receipt[v] # NoReceipt
               PROVE  h.receipt[v].nonce = h.foreign[h.receipt[v].to].nonce
    OBVIOUS
  <2>1. CASE v = u
    BY <1>4, <1>7, <1>8, <2>1
  <2>2. CASE v # u
    <3>1. h.receipt[v] = g.receipt[v] /\ g.receipt[v] # NoReceipt
      BY <1>7, <2>2
    <3>2. g.receipt[v].to \in EthAddrs
      BY <3>1 DEF Good, Typed, Receipts
    <3>3. g.foreign[g.receipt[v].to].withdrawer = v
      BY <3>1, <3>2 DEF Good, Linked
    <3>4. g.receipt[v].to # e
      BY <1>1, <3>3, NilUserAssumption
    <3> QED BY <1>8, <3>1, <3>2, <3>4 DEF Good, Linked
  <2> QED BY <2>1, <2>2
<1> QED BY <1>5, <1>6, <1>9, <1>10, <1>11 DEF Good, Linked, NoTwice, h

\* An event of ProcessEventBatch that applies keeps the records in agreement.
LEMMA AppliedGood ==
  ASSUME NEW g, NEW ev, ev.owner \in EthAddrs, NEW user, NEW map, NEW outcome,
         ev.type \in {"deposit", "withdrawal"}, Good(g), Applies(g, ev)
  PROVE  Good(Applied(g, ev, user, map, outcome))
<1> DEFINE new == IF ev.type = "deposit" THEN Deposited(g, ev, user, map, outcome)
                  ELSE Completed(g, ev.owner)
           seen == IF CheckTxHash /\ Counts(g, ev) THEN new.seen \cup {ev.tx} ELSE new.seen
<1>1. Applied(g, ev, user, map, outcome) = [new EXCEPT !.seen = seen]
  BY DEF Applied
<1>2. Good(new)
  <2>1. CASE ev.type = "deposit"
    <3>1. SameWithdrawals(g, Deposited(g, ev, user, map, outcome))
      BY DepositedSame DEF Good, Typed
    <3> QED BY <2>1, <3>1, SameIsGood
  <2>2. CASE ev.type # "deposit"
    BY <2>2, CompletedGood DEF Applies
  <2> QED BY <2>1, <2>2
<1> HIDE DEF new, seen
<1>3. SameWithdrawals(new, [new EXCEPT !.seen = seen])
  BY <1>2 DEF Good, Typed, Fields, SameWithdrawals
<1> QED BY <1>1, <1>2, <1>3, SameIsGood

-----------------------------------------------------------------------------

IsSeq(s) == s \in Seq(Range(s))

EventsOK(events) ==
  /\ IsSeq(events)
  /\ \A i \in DOMAIN events :
       /\ events[i].type \in {"deposit", "withdrawal"}
       /\ events[i].owner \in EthAddrs

\* Batches name events there are.
BatchesOK ==
  /\ DOMAIN txs = Oracles
  /\ \A o \in Oracles : \A t \in txs[o] :
       t.req.type = "batch" => t.req.events \subseteq DOMAIN eth.events

\* The inductive invariant: the records agree in the committed state and in the
\* copy a batch works on, and batches are made of events.
IInv ==
  /\ Good(gw)
  /\ exec # NoExec => Good(exec.g) /\ exec.left \subseteq DOMAIN eth.events
  /\ DOMAIN eth = {"events", "height", "nonce", "locked"}
  /\ EventsOK(eth.events)
  /\ BatchesOK

\* Another event of Ethereum.
LEMMA AppendEvent ==
  ASSUME NEW s, EventsOK(s), NEW ev, ev.type \in {"deposit", "withdrawal"},
         ev.owner \in EthAddrs
  PROVE  EventsOK(Append(s, ev)) /\ DOMAIN s \subseteq DOMAIN Append(s, ev)
<1> DEFINE S == Range(s)
<1>1. s \in Seq(S) /\ DOMAIN s = 1 .. Len(s) /\ Len(s) \in Nat
  BY DEF EventsOK, IsSeq
<1> HIDE DEF S
<1>2. /\ DOMAIN Append(s, ev) = 1 .. Len(s) + 1 /\ Append(s, ev) \in Seq(S \cup {ev})
      /\ Len(Append(s, ev)) = Len(s) + 1
      /\ \A i \in 1 .. Len(s) + 1 : Append(s, ev)[i] = IF i = Len(s) + 1 THEN ev ELSE s[i]
  BY <1>1
<1> DEFINE a == Append(s, ev)
<1> HIDE DEF a
<1>3. IsSeq(a)
  BY <1>2, SeqOfRange DEF IsSeq, a
<1>4. \A i \in DOMAIN a : a[i].type \in {"deposit", "withdrawal"} /\ a[i].owner \in EthAddrs
  BY <1>1, <1>2 DEF EventsOK, a
<1> QED BY <1>1, <1>2, <1>3, <1>4 DEF EventsOK, a

\* Steps of oracles that send nothing, or give up on what they sent.
LEMMA GivenUpBatches ==
  ASSUME BatchesOK, eth' = eth, NEW o \in Oracles,
         txs' = [txs EXCEPT ![o] = GivenUp(@)]
  PROVE  BatchesOK'
BY DEF BatchesOK, GivenUp

\* A transaction that is done leaves no new one.
LEMMA DoneBatches ==
  ASSUME BatchesOK, eth' = eth, NEW o, NEW t, NEW result, Done(o, t, result)
  PROVE  BatchesOK'
<1>1. DOMAIN txs' = Oracles /\ \A p \in Oracles : txs'[p] \subseteq txs[p]
  BY DEF BatchesOK, Done
<1> QED BY <1>1 DEF BatchesOK

\* A new event leaves batches valid.
LEMMA MoreEvents ==
  ASSUME BatchesOK, txs' = txs, DOMAIN eth.events \subseteq DOMAIN eth'.events
  PROVE  BatchesOK'
BY DEF BatchesOK

\* The states the bridge starts in (Gateway.Init).
LEMMA InitIInv == Init => IInv
<1> SUFFICES ASSUME Init PROVE IInv
  OBVIOUS
<1>1. Good(gw)
  <2>1. gw = InitGateway
    BY DEF Init
  <2>2. Typed(InitGateway)
    BY DEF Typed, InitGateway, Fields, ForeignAccounts
  <2>3. Linked(InitGateway)
    BY NilUserAssumption DEF Linked, InitGateway, Range
  <2> QED BY <2>1, <2>2, <2>3 DEF Good
<1>2. EventsOK(<<>>)
  BY DEF EventsOK, IsSeq, Range
<1>3. /\ DOMAIN eth = {"events", "height", "nonce", "locked"}
      /\ eth.events = <<>> /\ exec = NoExec
      /\ BatchesOK
  BY DEF Init, BatchesOK
<1> QED BY <1>1, <1>2, <1>3 DEF IInv

\* Every step of the bridge keeps the invariant.
LEMMA NextIInv == IInv /\ [Next]_vars => IInv'
<1> SUFFICES ASSUME IInv, [Next]_vars PROVE IInv'
  OBVIOUS
<1>0. /\ Good(gw) /\ DOMAIN gw = Fields
      /\ EventsOK(eth.events) /\ BatchesOK
      /\ DOMAIN eth = {"events", "height", "nonce", "locked"}
  BY DEF IInv, Good, Typed
<1>1. ASSUME NEW type \in {"deposit", "withdrawal"}, NEW tx, NEW e \in EthAddrs, NEW id, NEW n,
             eth'.events = Append(eth.events, NewEvent(type, tx, e, id, n)),
             DOMAIN eth' = DOMAIN eth, UNCHANGED <<gw, exec, txs>>
      PROVE  IInv'
  <2> DEFINE ev == NewEvent(type, tx, e, id, n)
  <2>1. ev.type \in {"deposit", "withdrawal"} /\ ev.owner \in EthAddrs
    BY DEF NewEvent
  <2> HIDE DEF ev
  <2>2. EventsOK(eth'.events) /\ DOMAIN eth.events \subseteq DOMAIN eth'.events
    BY <1>0, <1>1, <2>1, AppendEvent DEF ev
  <2>3. BatchesOK'
    BY <1>0, <1>1, <2>2, MoreEvents
  <2> QED BY <1>0, <1>1, <2>2, <2>3 DEF IInv
<1>2. ASSUME NEW e \in EthAddrs, NEW id, NEW n, NEW tx, EthDeposit(e, id, n, tx)
      PROVE  IInv'
  <2>1. /\ eth'.events = Append(eth.events, NewEvent("deposit", tx, e, id, n))
        /\ DOMAIN eth' = DOMAIN eth /\ UNCHANGED <<gw, exec, txs>>
    BY <1>0, <1>2 DEF EthDeposit, chainVars
  <2> QED BY <1>1, <2>1
<1>3. ASSUME NEW e \in EthAddrs, NEW sig, EthWithdraw(e, sig)
      PROVE  IInv'
  <2>1. /\ eth'.events = Append(eth.events,
                                NewEvent("withdrawal", LastTx + 1, e, sig.id, sig.amount))
        /\ DOMAIN eth' = DOMAIN eth /\ UNCHANGED <<gw, exec, txs>>
    BY <1>0, <1>3 DEF EthWithdraw, chainVars
  <2> QED BY <1>1, <2>1
<1>4. CASE EthMine
  <2>1. /\ eth'.events = eth.events /\ DOMAIN eth' = DOMAIN eth /\ UNCHANGED <<gw, exec, txs>>
    BY <1>0, <1>4 DEF EthMine, chainVars
  <2>2. BatchesOK'
    BY <1>0, <2>1, MoreEvents
  <2> QED BY <1>0, <2>1, <2>2 DEF IInv
<1>5. ASSUME UNCHANGED <<gw, exec, eth, txs>> PROVE IInv'
  BY <1>0, <1>5 DEF IInv, BatchesOK
<1>6. ASSUME Good(gw'), UNCHANGED <<exec, eth, txs>> PROVE IInv'
  BY <1>0, <1>6 DEF IInv, BatchesOK
<1>7. ASSUME BatchesOK', UNCHANGED <<gw, exec, eth>> PROVE IInv'
  BY <1>0, <1>7 DEF IInv
<1>8. ASSUME NEW u \in Users, NEW e \in EthAddrs, AddIdentityMapping(u, e) PROVE IInv'
  BY <1>5, <1>8 DEF AddIdentityMapping, chainVars
<1>9. ASSUME NEW u \in Users, NEW e \in EthAddrs, NEW id \in TokenIDs, NEW n \in Amounts,
             Withdraw(u, e, id, n)
      PROVE  IInv'
  <2>1. Good(Withdrawn(gw, u, e, id, n))
    BY <1>0, <1>9, WithdrawnGood, AmountsAssumption DEF Withdraw
  <2> QED BY <1>6, <1>9, <2>1 DEF Withdraw
<1>10. CASE AddContractMapping
  BY <1>5, <1>10 DEF AddContractMapping, chainVars
<1>11. ASSUME NEW c, gw' = WithClaims(gw, c), UNCHANGED <<exec, eth, txs>> PROVE IInv'
  <2>1. Good(WithClaims(gw, c))
    BY <1>0, ClaimsSame, SameIsGood
  <2> QED BY <1>6, <1>11, <2>1
<1>12. ASSUME NEW e \in EthAddrs, NEW outcome, ReclaimDepositorTokens(e, outcome) PROVE IInv'
  BY <1>11, <1>12 DEF ReclaimDepositorTokens
<1>13. ASSUME NEW outcome, ReclaimContractTokens(outcome) PROVE IInv'
  BY <1>11, <1>13 DEF ReclaimContractTokens
<1>14. ASSUME NEW n, ResetMainnetBlock(n) PROVE IInv'
  <2>1. SameWithdrawals(gw, [gw EXCEPT !.last = n])
    BY <1>0 DEF SameWithdrawals, Fields
  <2>2. Good([gw EXCEPT !.last = n])
    BY <1>0, <2>1, SameIsGood
  <2> QED BY <1>6, <1>14, <2>2 DEF ResetMainnetBlock
<1>15. ASSUME NEW o \in Oracles, pollMainnet(o) PROVE IInv'
  <2>1. BatchesOK'
    <3>1. CASE UNCHANGED txs
      BY <1>0, <1>15, <3>1 DEF BatchesOK, pollMainnet
    <3>2. CASE ~UNCHANGED txs
      <4>1. PICK S \in SUBSET (DOMAIN eth.events) : Send(o, [type |-> "batch", events |-> S])
        BY <1>15, <3>2 DEF pollMainnet, FetchEvents
      <4> QED BY <1>0, <1>15, <4>1 DEF BatchesOK, Send, pollMainnet
    <3> QED BY <3>1, <3>2
  <2> QED BY <1>7, <1>15, <2>1 DEF pollMainnet, chainVars
<1>16. ASSUME NEW o \in Oracles,
              signPendingWithdrawals(o) \/ RpcError(o) \/ CleanPool(o)
       PROVE  IInv'
  BY <1>5, <1>16 DEF signPendingWithdrawals, RpcError, CleanPool, chainVars
<1>17. ASSUME NEW o \in Oracles, SendConfirmation(o) PROVE IInv'
  <2>1. BatchesOK'
    BY <1>0, <1>17 DEF BatchesOK, Send, SendConfirmation
  <2> QED BY <1>7, <1>17, <2>1 DEF SendConfirmation, chainVars
<1>18. ASSUME NEW o \in Oracles, Timeout(o) \/ Restart(o) PROVE IInv'
  <2>1. BatchesOK'
    BY <1>0, <1>18, GivenUpBatches DEF Timeout, Restart
  <2> QED BY <1>7, <1>18, <2>1 DEF Timeout, Restart, chainVars
<1>19. ASSUME NEW o \in Oracles, NEW t \in txs[o], Confirm(o, t) PROVE IInv'
  <2>1. BatchesOK'
    BY <1>0, <1>19, DoneBatches DEF Confirm
  <2>2. Good(gw')
    <3>1. Good(Confirmed(gw, t.req.owner, t.req.sig))
      BY <1>0, ConfirmedSame, SameIsGood
    <3> QED BY <1>0, <1>19, <3>1 DEF Confirm
  <2> QED BY <1>0, <1>19, <2>1, <2>2 DEF IInv, Confirm
<1>20. ASSUME NEW o \in Oracles, NEW t \in txs[o], BeginBatch(o, t) PROVE IInv'
  <2>1. exec'.g = gw /\ exec'.left = t.req.events /\ UNCHANGED <<gw, eth, txs>>
    BY <1>20 DEF BeginBatch
  <2>2. t.req.events \subseteq DOMAIN eth.events
    BY <1>0, <1>20 DEF BatchesOK, BeginBatch
  <2> QED BY <1>0, <2>1, <2>2 DEF IInv, BatchesOK
<1>21. ASSUME NEW outcome, BatchEvent(outcome) PROVE IInv'
  <2>1. Good(exec.g) /\ exec.left \subseteq DOMAIN eth.events
    BY <1>21 DEF IInv, BatchEvent, Idle
  <2> DEFINE applies(i) == ~BlockProcessed(eth.events[i]) /\ Applies(exec.g, eth.events[i])
             after(i) == Applied(exec.g, eth.events[i], identity[eth.events[i].owner],
                                 mapped, outcome)
             block(i) == IF applies(i) /\ Counts(exec.g, eth.events[i])
                         THEN eth.events[i].block ELSE exec.lastEthBlock
             counted(i) == IF applies(i) THEN [exec.applied EXCEPT ![i] = @ + 1]
                           ELSE exec.applied
  <2>a. PICK i \in exec.left :
          exec' = [oracle |-> exec.oracle, tx |-> exec.tx, left |-> exec.left \ {i},
                   g |-> IF applies(i) THEN after(i) ELSE exec.g,
                   lastEthBlock |-> block(i), applied |-> counted(i)]
    BY <1>21, Zenon DEF BatchEvent
  <2> HIDE DEF applies, after, block, counted
  <2>2. /\ exec'.left = exec.left \ {i}
        /\ exec'.g = IF applies(i) THEN after(i) ELSE exec.g
    BY <2>a
  <2> DEFINE ev == eth.events[i]
  <2>3. ev.owner \in EthAddrs /\ ev.type \in {"deposit", "withdrawal"}
    BY <1>0, <2>1 DEF EventsOK
  <2>4. Good(exec'.g)
    <3>1. CASE exec'.g = exec.g
      BY <2>1, <3>1
    <3>2. CASE exec'.g # exec.g
      <4>1. Applies(exec.g, ev)
        BY <2>2, <3>2 DEF applies
      <4>2. exec'.g = Applied(exec.g, ev, identity[ev.owner], mapped, outcome)
        BY <2>2, <3>2 DEF after
      <4> HIDE DEF ev
      <4>3. Good(Applied(exec.g, ev, identity[ev.owner], mapped, outcome))
        BY <2>1, <2>3, <4>1, AppliedGood
      <4> QED BY <4>2, <4>3
    <3> QED BY <3>1, <3>2
  <2>5. exec'.left \subseteq DOMAIN eth.events /\ UNCHANGED <<gw, eth, txs>>
    BY <1>21, <2>1, <2>2 DEF BatchEvent
  <2> QED BY <1>0, <2>4, <2>5 DEF IInv, BatchesOK
<1>22. CASE EndBatch
  <2>1. Good(gw')
    <3>1. Good(exec.g) /\ DOMAIN exec.g = Fields
      BY <1>22 DEF IInv, EndBatch, Idle, Good, Typed
    <3> DEFINE g == exec.g
               b == exec.lastEthBlock
    <3>2. gw' = gw \/ gw' = [g EXCEPT !.last = b]
      BY <1>22 DEF EndBatch
    <3> HIDE DEF g, b
    <3>3. Good([g EXCEPT !.last = b])
      <4>1. SameWithdrawals(g, [g EXCEPT !.last = b])
        BY <3>1 DEF SameWithdrawals, Fields, g
      <4> QED BY <3>1, <4>1, SameIsGood DEF g
    <3> QED BY <1>0, <3>2, <3>3
  <2>2. BatchesOK'
    BY <1>0, <1>22, DoneBatches DEF EndBatch
  <2>3. exec' = NoExec /\ eth' = eth
    BY <1>22 DEF EndBatch
  <2> QED BY <1>0, <2>1, <2>2, <2>3 DEF IInv
<1>23. CASE UNCHANGED vars
  BY <1>5, <1>23 DEF vars
<1> QED
  BY <1>2, <1>3, <1>4, <1>8, <1>9, <1>10, <1>12, <1>13, <1>14, <1>15, <1>16, <1>17, <1>18,
     <1>19, <1>20, <1>21, <1>22, <1>23
  DEF Next, WithdrawToken, WithdrawETH, WithdrawDiademCoin

\* Whatever users, owners and oracles do, and whatever times out or restarts,
\* the local account, the foreign account and the list of withdrawers of the
\* gateway contract agree after every transaction and every event of a batch.
THEOREM RecordsAgree == Spec => []WithdrawalsLinked
<1>1. IInv => WithdrawalsLinked
  BY DEF IInv, Good, WithdrawalsLinked
<1> QED BY <1>1, InitIInv, NextIInv, PTL DEF Spec

=============================================================================
