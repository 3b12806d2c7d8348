------------------------- MODULE SellerEscrowProofs -------------------------
(***************************************************************************)
(* Proofs about SellerEscrow for every set of calls, sellers, sales and    *)
(* orders, and every number of requests.                                   *)
(***************************************************************************)
EXTENDS SellerEscrow, SumTheorems

-----------------------------------------------------------------------------
Labels == {"new", "createWallet", "creditSearch", "creditRead", "creditCheck", "creditWrite",
           "payoutSearch", "read", "ledger", "update"} \cup Outcomes

(* What a handler knows at the statement named: its wallet exists, and its operation was
   allowed on the row it has read. *)
HandlerOK(p) ==
  /\ pc[p] \in {"creditSearch", "creditRead", "creditCheck", "creditWrite",
                "payoutSearch", "ledger", "update"} => HasWallet(p)
  /\ pc[p] \in {"creditWrite", "ledger", "update"} =>
       Allowed(Type(p), snap[p], call[p].amount)

LEMMA CallType ==
  ASSUME TypeOK, NEW p \in Requests
  PROVE  /\ call[p].seller \in Sellers /\ call[p].amount \in Nat
         /\ call[p].op = "credit" <=> call[p] \in CreditCall
         /\ call[p].op = "payout" <=> call[p] \in SettleCall
         /\ call[p].op = "withdraw" <=> call[p] \in WithdrawCall
         /\ call[p].op \in {"credit", "payout", "withdraw"}
BY CallsAssumption DEF TypeOK, CreditCall, SettleCall, WithdrawCall

LEMMA TypeOfCall ==
  ASSUME TypeOK, NEW p \in Requests
  PROVE  /\ call[p].op = "credit" => Type(p) = "SELLER_ESCROW"
         /\ call[p].op = "payout" => Type(p) = "SELLER_ESCROW_SETTLE"
         /\ call[p].op = "withdraw" => Type(p) = "WITHDRAW"
BY DEF Type

(* What StoreWallet leaves, field by field. *)
LEMMA StoredFields ==
  ASSUME NEW w \in Wallet, NEW t \in {"SELLER_ESCROW", "SELLER_ESCROW_SETTLE", "WITHDRAW"},
         NEW a \in Nat, Allowed(t, w, a)
  PROVE  /\ Stored(Apply(t, w, a)) \in Wallet
         /\ Stored(Apply(t, w, a)).version = w.version + 1
         /\ Stored(Apply(t, w, a)).active + Stored(Apply(t, w, a)).held =
              w.active + w.held + (IF t = "SELLER_ESCROW" THEN a
                                   ELSE IF t = "WITHDRAW" THEN -a ELSE 0)
         /\ Stored(Apply(t, w, a)).active =
              w.active + (IF t = "SELLER_ESCROW_SETTLE" THEN a
                          ELSE IF t = "WITHDRAW" THEN -a ELSE 0)
<1> DEFINE active == w.active + ActiveMove(t, a)
           held == w.held + HeldMove(t, a)
           sum == IF t = "SELLER_ESCROW" THEN a ELSE IF t = "WITHDRAW" THEN -a ELSE 0
           move == IF t = "SELLER_ESCROW_SETTLE" THEN a ELSE IF t = "WITHDRAW" THEN -a ELSE 0
<1>1. w.active \in Nat /\ w.held \in Nat /\ w.version \in Nat
  BY DEF Wallet
<1>2. /\ t \in DebitsActive => w.active >= a
      /\ t \in DebitsHeld => w.held >= a
  BY DEF Allowed
<1>3. /\ active \in Nat /\ held \in Nat /\ active + held = w.active + w.held + sum
      /\ active = w.active + move
  BY <1>1, <1>2 DEF ActiveMove, HeldMove, CreditsActive, DebitsActive, CreditsHeld, DebitsHeld
<1> HIDE DEF active, held, sum, move
<1>4. /\ Apply(t, w, a) \in Wallet /\ Apply(t, w, a).version = w.version
      /\ Apply(t, w, a).active = active /\ Apply(t, w, a).held = held
  <2>1. Apply(t, w, a) = [w EXCEPT !.active = active, !.held = held]
    BY DEF Apply, active, held, Wallet
  <2> QED
    BY <1>3, <2>1 DEF Wallet
<1>5. /\ Stored(Apply(t, w, a)) \in Wallet
      /\ Stored(Apply(t, w, a)).version = w.version + 1
      /\ Stored(Apply(t, w, a)).active = active /\ Stored(Apply(t, w, a)).held = held
  BY <1>1, <1>4 DEF Stored, Wallet
<1> QED
  BY <1>3, <1>5 DEF sum, move

-----------------------------------------------------------------------------
(* One handler moves and knows what it must; the others still know what they did. *)
LEMMA HandlersKept ==
  ASSUME TypeOK, NEW p \in Requests, NEW label \in Labels, GoTo(p, label), call' = call,
         DOMAIN wallets \subseteq DOMAIN wallets',
         \A q \in Requests \ {p} : snap'[q] = snap[q],
         HandlerOK(p)'
  PROVE  pc' \in [Requests -> Labels] /\ \A q \in Requests : HandlerOK(q)'
<1>1. pc' \in [Requests -> Labels]
  BY DEF TypeOK, GoTo, Labels
<1>2. ASSUME NEW q \in Requests, q # p PROVE HandlerOK(q)'
  <2>1. pc'[q] = pc[q] /\ snap'[q] = snap[q] /\ call'[q] = call[q]
    BY <1>2 DEF TypeOK, GoTo
  <2>2. HandlerOK(q)
    BY DEF TypeOK, HandlerOK
  <2>3. (HasWallet(q) => HasWallet(q)') /\ Type(q)' = Type(q)
    BY DEF HasWallet, Type
  <2> QED
    BY <2>1, <2>2, <2>3 DEF HandlerOK
<1> QED
  BY <1>1, <1>2

LEMMA ProceedTyped ==
  ASSUME TypeOK, NEW p \in Requests, NEW label \in Labels, Proceed(p, label), HandlerOK(p)'
  PROVE  TypeOK'
<1>1. GoTo(p, label) /\ UNCHANGED <<wallets, receipts, call, snap, crashes>>
  BY DEF Proceed
<1>2. pc' \in [Requests -> Labels] /\ \A q \in Requests : HandlerOK(q)'
  BY <1>1, HandlersKept
<1> QED
  BY <1>1, <1>2 DEF TypeOK, Labels, HandlerOK

LEMMA QuitTyped ==
  ASSUME TypeOK, NEW p \in Requests, NEW outcome \in Outcomes \cup {"createWallet", "read"},
         Proceed(p, outcome)
  PROVE  TypeOK'
<1>1. pc'[p] = outcome
  BY DEF Proceed, GoTo, TypeOK
<1>2. HandlerOK(p)'
  BY <1>1 DEF HandlerOK, Outcomes
<1> QED
  BY <1>2, ProceedTyped DEF Labels

(* A handler whose wallet exists goes where it needs no more than that. *)
LEMMA WithWalletTyped ==
  ASSUME TypeOK, NEW p \in Requests, HasWallet(p),
         NEW label \in {"creditSearch", "creditRead", "creditCheck", "payoutSearch"},
         Proceed(p, label)
  PROVE  TypeOK'
<1>1. pc'[p] = label /\ UNCHANGED <<wallets, call>>
  BY DEF Proceed, GoTo, TypeOK
<1>2. HandlerOK(p)'
  BY <1>1 DEF HandlerOK, HasWallet
<1> QED
  BY <1>2, ProceedTyped DEF Labels

LEMMA KnowsWallet ==
  ASSUME TypeOK, NEW p \in Requests,
         pc[p] \in {"creditSearch", "creditRead", "creditCheck", "creditWrite",
                    "payoutSearch", "ledger", "update"}
  PROVE  HasWallet(p) /\ wallets[call[p].seller] \in Wallet
<1>1. HasWallet(p)
  BY DEF TypeOK
<1> QED
  BY <1>1 DEF TypeOK, HasWallet

LEMMA CreditStartTyped ==
  ASSUME TypeOK, NEW p \in Requests, CreditStart(p) PROVE TypeOK'
BY QuitTyped, WithWalletTyped DEF CreditStart

LEMMA CreateWalletTyped ==
  ASSUME TypeOK, NEW p \in Requests, CreateWallet(p) PROVE TypeOK'
<1>1. CASE Quit(p, "error")
  BY <1>1, QuitTyped DEF Quit, Outcomes
<1>2. CASE /\ ~HasWallet(p)
           /\ wallets' = [s \in DOMAIN wallets \cup {call[p].seller} |->
                            IF s = call[p].seller THEN NewWallet ELSE wallets[s]]
           /\ GoTo(p, "creditSearch")
           /\ UNCHANGED <<receipts, call, snap, crashes>>
  <2>1. call[p].seller \in Sellers
    BY CallType
  <2>2. NewWallet \in Wallet
    BY DEF NewWallet, Wallet
  <2>3. DOMAIN wallets' = DOMAIN wallets \cup {call[p].seller}
    BY <1>2
  <2>4. DOMAIN wallets' \subseteq Sellers /\ wallets' \in [DOMAIN wallets' -> Wallet]
    BY <1>2, <2>1, <2>2, <2>3 DEF TypeOK
  <2>5. pc'[p] = "creditSearch"
    BY <1>2 DEF GoTo, TypeOK
  <2>6. HandlerOK(p)'
    BY <1>2, <2>3, <2>5 DEF HandlerOK, HasWallet
  <2>7. pc' \in [Requests -> Labels] /\ \A q \in Requests : HandlerOK(q)'
    BY <1>2, <2>3, <2>6, HandlersKept DEF Labels
  <2> QED
    BY <1>2, <2>4, <2>7 DEF TypeOK, Labels, HandlerOK
<1> QED
  BY <1>1, <1>2 DEF CreateWallet

LEMMA CreditSearchTyped ==
  ASSUME TypeOK, NEW p \in Requests, CreditSearch(p) PROVE TypeOK'
BY KnowsWallet, QuitTyped, WithWalletTyped DEF CreditSearch, Outcomes

(* The handler takes a copy of its wallet. *)
LEMMA ReadTyped ==
  ASSUME TypeOK, NEW p \in Requests, HasWallet(p), NEW label \in Labels,
         snap' = [snap EXCEPT ![p] = wallets[call[p].seller]], GoTo(p, label),
         UNCHANGED <<wallets, receipts, call, crashes>>, HandlerOK(p)'
  PROVE  TypeOK'
<1>1. \A q \in Requests \ {p} : snap'[q] = snap[q]
  BY DEF TypeOK
<1>2. pc' \in [Requests -> Labels] /\ \A q \in Requests : HandlerOK(q)'
  BY <1>1, HandlersKept
<1>3. wallets[call[p].seller] \in Wallet
  BY DEF TypeOK, HasWallet
<1>4. snap' \in [Requests -> Wallet]
  BY <1>3 DEF TypeOK
<1> QED
  BY <1>2, <1>4 DEF TypeOK, Labels, HandlerOK

LEMMA CreditReadTyped ==
  ASSUME TypeOK, NEW p \in Requests, CreditRead(p) PROVE TypeOK'
<1>1. HasWallet(p)
  BY KnowsWallet DEF CreditRead
<1>2. /\ snap' = [snap EXCEPT ![p] = wallets[call[p].seller]] /\ GoTo(p, "creditCheck")
      /\ UNCHANGED <<wallets, receipts, call, crashes>>
  BY DEF CreditRead
<1>3. pc'[p] = "creditCheck"
  BY <1>2 DEF GoTo, TypeOK
<1>4. HandlerOK(p)'
  BY <1>1, <1>2, <1>3 DEF HandlerOK, HasWallet
<1> QED
  BY <1>1, <1>2, <1>4, ReadTyped DEF Labels

LEMMA CreditCheckTyped ==
  ASSUME TypeOK, NEW p \in Requests, CreditCheck(p) PROVE TypeOK'
<1>1. CASE \/ Quit(p, "ok") \/ Proceed(p, "error")
  BY <1>1, QuitTyped DEF Quit, Outcomes
<1>2. CASE Allowed(Type(p), snap[p], call[p].amount) /\ Proceed(p, "creditWrite")
  <2>1. HasWallet(p)
    BY KnowsWallet DEF CreditCheck
  <2>2. pc'[p] = "creditWrite" /\ UNCHANGED <<wallets, call, snap>>
    BY <1>2 DEF Proceed, GoTo, TypeOK
  <2>3. HandlerOK(p)'
    BY <1>2, <2>1, <2>2 DEF HandlerOK, HasWallet, Type
  <2> QED
    BY <1>2, <2>3, ProceedTyped DEF Labels
<1> QED
  BY <1>1, <1>2 DEF CreditCheck

(* The handler may record its row and store its wallet: what is stored is a wallet. *)
LEMMA StoreTyped ==
  ASSUME TypeOK, NEW p \in Requests, pc[p] \in {"creditWrite", "update"}, StoreWallet(p),
         GoTo(p, "ok"), UNCHANGED <<call, snap, crashes>>, receipts' \subseteq Receipt
  PROVE  TypeOK'
<1>1. HasWallet(p) /\ Allowed(Type(p), snap[p], call[p].amount) /\ snap[p] \in Wallet
  BY DEF TypeOK
<1>2. Type(p) \in {"SELLER_ESCROW", "SELLER_ESCROW_SETTLE", "WITHDRAW"}
  BY DEF Type
<1>3. Stored(Apply(Type(p), snap[p], call[p].amount)) \in Wallet
  BY <1>1, <1>2, CallType, StoredFields
<1>4. wallets' \in [DOMAIN wallets -> Wallet] /\ DOMAIN wallets' = DOMAIN wallets
  BY <1>3 DEF StoreWallet, TypeOK
<1>5. pc'[p] = "ok"
  BY DEF GoTo, TypeOK
<1>6. HandlerOK(p)'
  BY <1>5 DEF HandlerOK
<1>7. pc' \in [Requests -> Labels] /\ \A q \in Requests : HandlerOK(q)'
  BY <1>4, <1>6, HandlersKept DEF Labels, Outcomes
<1> QED
  BY <1>4, <1>7 DEF TypeOK, Labels, HandlerOK

LEMMA ReceiptTyped ==
  ASSUME TypeOK, NEW p \in Requests, call[p].op \in {"credit", "payout"},
         Allowed(Type(p), snap[p], call[p].amount)
  PROVE  ReceiptOf(p) \in Receipt
<1>1. call[p].amount \in Nat \ {0} /\ call[p].seller \in Sellers
  BY CallType DEF Allowed
<1>2. call[p].ref \in Correlations \cup Orders \cup {None}
  BY CallType DEF CreditCall, SettleCall
<1>3. Type(p) \in {"SELLER_ESCROW", "SELLER_ESCROW_SETTLE"}
  BY DEF Type
<1> QED
  BY <1>1, <1>2, <1>3 DEF ReceiptOf, Receipt

-----------------------------------------------------------------------------
(* Which call is at which statement. *)
OpAt(label, op) ==
  /\ label \in {"createWallet", "creditSearch", "creditRead", "creditCheck", "creditWrite"} =>
       op = "credit"
  /\ label \in {"payoutSearch", "read", "ledger"} => op = "payout"
  /\ label = "update" => op \in {"payout", "withdraw"}

OpsOK == \A p \in Requests : OpAt(pc[p], call[p].op)

LEMMA OpStep ==
  ASSUME TypeOK, OpsOK, NEW p \in Requests, NEW label, GoTo(p, label), call' = call,
         OpAt(label, call[p].op)
  PROVE  OpsOK'
<1>1. \A q \in Requests : pc'[q] = IF q = p THEN label ELSE pc[q]
  BY DEF GoTo, TypeOK
<1> QED
  BY <1>1 DEF OpsOK

LEMMA CreditWriteTyped ==
  ASSUME TypeOK, OpsOK, NEW p \in Requests, CreditWrite(p) PROVE TypeOK'
<1>1. CASE \/ Quit(p, "conflict") \/ Quit(p, "ok")
  BY <1>1, QuitTyped DEF Quit, Outcomes
<1>2. CASE /\ StoreWallet(p) /\ receipts' = receipts \cup {ReceiptOf(p)}
           /\ GoTo(p, "ok") /\ UNCHANGED <<call, snap, crashes>>
  <2>1. call[p].op = "credit" /\ Allowed(Type(p), snap[p], call[p].amount)
    BY DEF CreditWrite, OpsOK, OpAt, TypeOK
  <2>2. receipts' \subseteq Receipt
    BY <1>2, <2>1, ReceiptTyped DEF TypeOK
  <2> QED
    BY <1>2, <2>2, StoreTyped DEF CreditWrite
<1> QED
  BY <1>1, <1>2 DEF CreditWrite

LEMMA PayoutStartTyped ==
  ASSUME TypeOK, NEW p \in Requests, PayoutStart(p) PROVE TypeOK'
BY QuitTyped, WithWalletTyped DEF PayoutStart, Outcomes

LEMMA PayoutSearchTyped ==
  ASSUME TypeOK, NEW p \in Requests, PayoutSearch(p) PROVE TypeOK'
BY QuitTyped DEF PayoutSearch, Outcomes

LEMMA MutateReadTyped ==
  ASSUME TypeOK, NEW p \in Requests, MutateRead(p) PROVE TypeOK'
<1> DEFINE label == IF call[p].op = "payout" THEN "ledger" ELSE "update"
<1>1. CASE Quit(p, "error")
  BY <1>1, QuitTyped DEF Quit, Outcomes
<1>2. CASE /\ HasWallet(p)
           /\ Allowed(Type(p), wallets[call[p].seller], call[p].amount)
           /\ snap' = [snap EXCEPT ![p] = wallets[call[p].seller]]
           /\ GoTo(p, label)
           /\ UNCHANGED <<wallets, receipts, call, crashes>>
  <2>1. pc'[p] = label /\ snap'[p] = wallets[call[p].seller]
    BY <1>2 DEF GoTo, TypeOK
  <2>2. HandlerOK(p)'
    BY <1>2, <2>1 DEF HandlerOK, HasWallet, Type
  <2> QED
    BY <1>2, <2>2, ReadTyped DEF Labels
<1> QED
  BY <1>1, <1>2 DEF MutateRead

LEMMA MutateLedgerTyped ==
  ASSUME TypeOK, OpsOK, NEW p \in Requests, MutateLedger(p) PROVE TypeOK'
<1>1. CASE Quit(p, "error")
  BY <1>1, QuitTyped DEF Quit, Outcomes
<1>2. CASE /\ receipts' = receipts \cup {ReceiptOf(p)} /\ GoTo(p, "update")
           /\ UNCHANGED <<wallets, call, snap, crashes>>
  <2>1. /\ call[p].op = "payout" /\ HasWallet(p)
        /\ Allowed(Type(p), snap[p], call[p].amount)
    BY DEF MutateLedger, OpsOK, OpAt, TypeOK
  <2>2. receipts' \subseteq Receipt
    BY <1>2, <2>1, ReceiptTyped DEF TypeOK
  <2>3. pc'[p] = "update"
    BY <1>2 DEF GoTo, TypeOK
  <2>4. HandlerOK(p)'
    BY <1>2, <2>1, <2>3 DEF HandlerOK, HasWallet, Type
  <2>5. pc' \in [Requests -> Labels] /\ \A q \in Requests : HandlerOK(q)'
    BY <1>2, <2>4, HandlersKept DEF Labels
  <2> QED
    BY <1>2, <2>2, <2>5 DEF TypeOK, Labels, HandlerOK
<1> QED
  BY <1>1, <1>2 DEF MutateLedger

LEMMA MutateUpdateTyped ==
  ASSUME TypeOK, NEW p \in Requests, MutateUpdate(p) PROVE TypeOK'
<1>1. CASE Quit(p, "conflict")
  BY <1>1, QuitTyped DEF Quit, Outcomes
<1>2. CASE /\ StoreWallet(p) /\ GoTo(p, "ok") /\ UNCHANGED <<receipts, call, snap, crashes>>
  <2>1. receipts' \subseteq Receipt
    BY <1>2 DEF TypeOK
  <2> QED
    BY <1>2, <2>1, StoreTyped DEF MutateUpdate
<1> QED
  BY <1>1, <1>2 DEF MutateUpdate

LEMMA AbortTyped ==
  ASSUME TypeOK, NEW p \in Requests, Abort(p) PROVE TypeOK'
<1>1. /\ crashes < MaxCrashes /\ crashes' = crashes + 1 /\ GoTo(p, "aborted")
      /\ UNCHANGED <<wallets, receipts, call, snap>>
  BY DEF Abort
<1>2. pc'[p] = "aborted"
  BY <1>1 DEF GoTo, TypeOK
<1>3. HandlerOK(p)'
  BY <1>2 DEF HandlerOK
<1>4. pc' \in [Requests -> Labels] /\ \A q \in Requests : HandlerOK(q)'
  BY <1>1, <1>3, HandlersKept DEF Labels, Outcomes
<1>5. crashes' \in 0 .. MaxCrashes
  BY <1>1, BoundsAssumption DEF TypeOK
<1> QED
  BY <1>1, <1>4, <1>5 DEF TypeOK, Labels, HandlerOK

LEMMA NextOps == ASSUME TypeOK, OpsOK, [Next]_vars PROVE OpsOK'
<1>1. CASE UNCHANGED vars
  BY <1>1 DEF vars, OpsOK
<1>2. ASSUME NEW p \in Requests,
             \/ CreditStart(p) \/ CreateWallet(p) \/ CreditSearch(p)
             \/ CreditRead(p) \/ CreditCheck(p) \/ CreditWrite(p)
      PROVE  OpsOK'
  <2>1. call[p].op = "credit" /\ call' = call
    BY <1>2 DEF CreditStart, CreateWallet, CreditSearch, CreditRead, CreditCheck, CreditWrite,
       Quit, Proceed, OpsOK, OpAt
  <2>2. \E label \in {"creditSearch", "createWallet", "creditRead", "creditCheck",
                      "creditWrite"} \cup Outcomes : GoTo(p, label)
    BY <1>2 DEF CreditStart, CreateWallet, CreditSearch, CreditRead, CreditCheck, CreditWrite,
       Quit, Proceed, Outcomes
  <2> QED
    BY <2>1, <2>2, OpStep DEF OpAt, Outcomes
<1>3. ASSUME NEW p \in Requests, PayoutStart(p) \/ PayoutSearch(p) \/ MutateLedger(p)
      PROVE  OpsOK'
  <2>1. call[p].op = "payout" /\ call' = call
    BY <1>3 DEF PayoutStart, PayoutSearch, MutateLedger, Quit, Proceed, OpsOK, OpAt
  <2>2. \E label \in {"payoutSearch", "read", "update"} \cup Outcomes : GoTo(p, label)
    BY <1>3 DEF PayoutStart, PayoutSearch, MutateLedger, Quit, Proceed, Outcomes
  <2> QED
    BY <2>1, <2>2, OpStep DEF OpAt, Outcomes
<1>4. ASSUME NEW p \in Requests, MutateRead(p) PROVE OpsOK'
  <2>1. call[p].op \in {"payout", "withdraw"} /\ call' = call
    BY <1>4 DEF MutateRead, Quit, Proceed, OpsOK, OpAt
  <2>2. \/ GoTo(p, "error")
        \/ GoTo(p, IF call[p].op = "payout" THEN "ledger" ELSE "update")
    BY <1>4 DEF MutateRead, Quit, Proceed
  <2> QED
    BY <2>1, <2>2, OpStep DEF OpAt
<1>5. ASSUME NEW p \in Requests, MutateUpdate(p) \/ Abort(p) PROVE OpsOK'
  <2>1. call' = call /\ \E label \in Outcomes : GoTo(p, label)
    BY <1>5 DEF MutateUpdate, Abort, Quit, Proceed, Outcomes
  <2> QED
    BY <2>1, OpStep DEF OpAt, Outcomes
<1> QED
  BY <1>1, <1>2, <1>3, <1>4, <1>5 DEF Next

LEMMA InitTyped == Init => TypeOK /\ OpsOK
<1> SUFFICES ASSUME Init PROVE TypeOK /\ OpsOK
  OBVIOUS
<1>1. NewWallet \in Wallet
  BY DEF NewWallet, Wallet
<1>2. pc = [p \in Requests |-> "new"]
  BY DEF Init
<1> QED
  BY <1>1, <1>2, BoundsAssumption DEF Init, TypeOK, OpsOK, OpAt

LEMMA NextTyped == TypeOK /\ OpsOK /\ [Next]_vars => TypeOK' /\ OpsOK'
<1> SUFFICES ASSUME TypeOK, OpsOK, [Next]_vars PROVE TypeOK'
  BY NextOps
<1>1. CASE UNCHANGED vars
  BY <1>1 DEF vars, TypeOK, HasWallet, Type
<1> QED
  BY <1>1, CreditStartTyped, CreateWalletTyped, CreditSearchTyped, CreditReadTyped,
     CreditCheckTyped, CreditWriteTyped, PayoutStartTyped, PayoutSearchTyped,
     MutateReadTyped, MutateLedgerTyped, MutateUpdateTyped, AbortTyped DEF Next

(* No balance of a seller leaves its CHECK, every handler that is about to write one
   has found the wallet and was allowed to, and only sales and settlements are recorded. *)
THEOREM TypeCorrect == Spec => []TypeOK
BY InitTyped, NextTyped, PTL DEF Spec

-----------------------------------------------------------------------------
(* A version that still matches means that the row is the one the handler has read. *)
Fresh(p) ==
  pc[p] \in {"creditCheck", "creditWrite", "ledger", "update"} =>
    LET w == wallets[call[p].seller] IN
    /\ snap[p].version <= w.version
    /\ snap[p].version = w.version => snap[p] = w

(* A row that names no sale or order is of a request that has written it. *)
Ended == {"update"} \cup Outcomes
OwnRows == \A r \in receipts : \A p \in Requests : r.ref = p => pc[p] \in Ended

IInv == TypeOK /\ OpsOK /\ OwnRows /\ \A p \in Requests : Fresh(p)

LEMMA OwnStays ==
  ASSUME IInv, NEW p \in Requests, NEW label, GoTo(p, label), receipts' = receipts,
         pc[p] \notin Ended \/ label \in Outcomes
  PROVE  OwnRows'
<1>1. \A q \in Requests : pc'[q] = IF q = p THEN label ELSE pc[q]
  BY DEF GoTo, IInv, TypeOK
<1> QED
  BY <1>1 DEF IInv, OwnRows, Ended

LEMMA OwnAdded ==
  ASSUME IInv, NEW p \in Requests, NEW label \in Ended, GoTo(p, label),
         call[p].op \in {"credit", "payout"}, pc[p] \in {"creditWrite", "ledger"},
         receipts' = receipts \cup {ReceiptOf(p)}
  PROVE  OwnRows'
<1>1. \A q \in Requests : pc'[q] = IF q = p THEN label ELSE pc[q]
  BY DEF GoTo, IInv, TypeOK
<1>2. \A q \in Requests : ReceiptOf(p).ref = q => q = p
  <2>1. call[p].ref \in Correlations \cup Orders \cup {None}
    BY CallType DEF IInv, CreditCall, SettleCall
  <2> QED
    BY <2>1, RequestsAssumption DEF ReceiptOf
<1>3. ASSUME NEW r \in receipts', NEW q \in Requests, r.ref = q PROVE pc'[q] \in Ended
  <2>1. CASE r \in receipts
    BY <1>1, <1>3, <2>1 DEF IInv, OwnRows
  <2>2. CASE r = ReceiptOf(p)
    BY <1>1, <1>2, <1>3, <2>2
  <2> QED
    BY <2>1, <2>2
<1> QED
  BY <1>3 DEF OwnRows

(* What is about to be written is not there yet. *)
LEMMA NotWritten ==
  ASSUME IInv, NEW p \in Requests, ~Recorded(p), pc[p] \in {"creditWrite", "ledger"}
  PROVE  ReceiptOf(p) \notin receipts
<1>1. CASE call[p].ref = None
  <2>1. ReceiptOf(p).ref = p /\ pc[p] \notin Ended
    BY <1>1 DEF ReceiptOf, Ended, Outcomes
  <2> QED
    BY <2>1 DEF IInv, OwnRows
<1>2. CASE call[p].ref # None
  BY <1>2 DEF ReceiptOf, Recorded
<1> QED
  BY <1>1, <1>2

(* The handler's wallet and its copy stay, or it is at no statement that uses the copy. *)
LEMMA FreshStays ==
  ASSUME TypeOK, NEW q \in Requests, Fresh(q), call' = call, snap'[q] = snap[q],
         \/ pc'[q] \notin {"creditCheck", "creditWrite", "ledger", "update"}
         \/ pc'[q] \in {"creditCheck", "creditWrite", "ledger", "update"}
            /\ pc[q] \in {"creditCheck", "creditWrite", "ledger", "update"}
            /\ wallets'[call[q].seller] = wallets[call[q].seller]
  PROVE  Fresh(q)'
BY DEF Fresh

(* A step of p that touches neither wallets nor copies. *)
LEMMA FreshProceed ==
  ASSUME IInv, NEW p \in Requests, NEW label, GoTo(p, label),
         UNCHANGED <<wallets, call, snap>>,
         label \in {"creditCheck", "creditWrite", "ledger", "update"} =>
           pc[p] \in {"creditCheck", "creditWrite", "ledger", "update"}
  PROVE  \A q \in Requests : Fresh(q)'
<1> SUFFICES ASSUME NEW q \in Requests PROVE Fresh(q)'
  OBVIOUS
<1>1. pc'[q] = IF q = p THEN label ELSE pc[q]
  BY DEF GoTo, IInv, TypeOK
<1> QED
  BY <1>1, FreshStays DEF IInv

LEMMA FreshRead ==
  ASSUME IInv, NEW p \in Requests, NEW label, GoTo(p, label), HasWallet(p),
         snap' = [snap EXCEPT ![p] = wallets[call[p].seller]], UNCHANGED <<wallets, call>>
  PROVE  \A q \in Requests : Fresh(q)'
<1> SUFFICES ASSUME NEW q \in Requests PROVE Fresh(q)'
  OBVIOUS
<1>1. CASE q = p
  <2>1. snap'[q] = wallets'[call'[q].seller] /\ snap'[q] \in Wallet
    BY <1>1 DEF IInv, TypeOK, HasWallet
  <2> QED
    BY <2>1 DEF Fresh, Wallet
<1>2. CASE q # p
  <2>1. pc'[q] = pc[q] /\ snap'[q] = snap[q]
    BY <1>2 DEF GoTo, IInv, TypeOK
  <2> QED
    BY <2>1, FreshStays DEF IInv
<1> QED
  BY <1>1, <1>2

(* What a versioned write does to the wallet: the operation, on the row it replaces. *)
LEMMA Commit ==
  ASSUME IInv, NEW p \in Requests, pc[p] \in {"creditWrite", "update"},
         VersionMatches(p), StoreWallet(p)
  PROVE  LET s == call[p].seller IN
         /\ s \in DOMAIN wallets /\ DOMAIN wallets' = DOMAIN wallets
         /\ \A t \in DOMAIN wallets \ {s} : wallets'[t] = wallets[t]
         /\ wallets[s] \in Wallet /\ wallets'[s] \in Wallet
         /\ wallets'[s].version = wallets[s].version + 1
         /\ wallets'[s].active + wallets'[s].held =
              wallets[s].active + wallets[s].held +
                (IF call[p].op = "credit" THEN call[p].amount
                 ELSE IF call[p].op = "withdraw" THEN -call[p].amount ELSE 0)
         /\ wallets'[s].active =
              wallets[s].active + (IF call[p].op = "payout" THEN call[p].amount
                                   ELSE IF call[p].op = "withdraw" THEN -call[p].amount ELSE 0)
<1> DEFINE s == call[p].seller
           new == Stored(Apply(Type(p), snap[p], call[p].amount))
<1>1. /\ s \in DOMAIN wallets /\ snap[p] \in Wallet
      /\ Allowed(Type(p), snap[p], call[p].amount)
  BY DEF IInv, TypeOK, HasWallet
<1>2. snap[p] = wallets[s]
  BY DEF IInv, Fresh, VersionMatches
<1>3. Type(p) \in {"SELLER_ESCROW", "SELLER_ESCROW_SETTLE", "WITHDRAW"}
      /\ (Type(p) = "SELLER_ESCROW" <=> call[p].op = "credit")
      /\ (Type(p) = "SELLER_ESCROW_SETTLE" <=> call[p].op = "payout")
      /\ (Type(p) = "WITHDRAW" <=> call[p].op = "withdraw")
  BY CallType DEF Type, IInv
<1>4. call[p].amount \in Nat
  BY CallType DEF IInv
<1>5. /\ new \in Wallet /\ new.version = wallets[s].version + 1
      /\ new.active + new.held =
           wallets[s].active + wallets[s].held +
             (IF call[p].op = "credit" THEN call[p].amount
              ELSE IF call[p].op = "withdraw" THEN -call[p].amount ELSE 0)
      /\ new.active =
           wallets[s].active + (IF call[p].op = "payout" THEN call[p].amount
                                ELSE IF call[p].op = "withdraw" THEN -call[p].amount ELSE 0)
  <2>1. /\ new \in Wallet /\ new.version = snap[p].version + 1
        /\ new.active + new.held =
             snap[p].active + snap[p].held +
               (IF Type(p) = "SELLER_ESCROW" THEN call[p].amount
                ELSE IF Type(p) = "WITHDRAW" THEN -call[p].amount ELSE 0)
        /\ new.active =
             snap[p].active + (IF Type(p) = "SELLER_ESCROW_SETTLE" THEN call[p].amount
                               ELSE IF Type(p) = "WITHDRAW" THEN -call[p].amount ELSE 0)
    BY <1>1, <1>3, <1>4, StoredFields
  <2> HIDE DEF new
  <2> QED
    BY <1>2, <1>3, <2>1
<1> HIDE DEF new
<1>6. wallets' = [wallets EXCEPT ![s] = new]
  BY DEF StoreWallet, new
<1>7. wallets'[s] = new /\ DOMAIN wallets' = DOMAIN wallets
      /\ \A t \in DOMAIN wallets \ {s} : wallets'[t] = wallets[t]
  BY <1>1, <1>6 DEF IInv, TypeOK
<1> QED
  BY <1>1, <1>2, <1>5, <1>7

LEMMA FreshCommit ==
  ASSUME IInv, NEW p \in Requests, pc[p] \in {"creditWrite", "update"}, VersionMatches(p),
         StoreWallet(p), GoTo(p, "ok"), UNCHANGED <<call, snap>>
  PROVE  \A q \in Requests : Fresh(q)'
<1> SUFFICES ASSUME NEW q \in Requests PROVE Fresh(q)'
  OBVIOUS
<1>1. pc'[q] = IF q = p THEN "ok" ELSE pc[q]
  BY DEF GoTo, IInv, TypeOK
<1>2. CASE pc'[q] \notin {"creditCheck", "creditWrite", "ledger", "update"}
  BY <1>2 DEF Fresh
<1>3. CASE pc'[q] \in {"creditCheck", "creditWrite", "ledger", "update"}
  <2>1. pc[q] = pc'[q] /\ call[q].seller \in DOMAIN wallets
    BY <1>1, <1>3 DEF IInv, TypeOK, HasWallet
  <2>2. CASE call[q].seller = call[p].seller
    <3>1. /\ wallets'[call[q].seller].version = wallets[call[q].seller].version + 1
          /\ wallets[call[q].seller] \in Wallet
      BY <2>2, Commit
    <3>2. snap[q].version <= wallets[call[q].seller].version /\ snap[q] \in Wallet
      BY <1>3, <2>1 DEF IInv, Fresh, TypeOK
    <3> QED
      BY <3>1, <3>2 DEF Fresh, Wallet
  <2>3. CASE call[q].seller # call[p].seller
    <3>1. wallets'[call[q].seller] = wallets[call[q].seller]
      BY <2>1, <2>3, Commit
    <3> QED
      BY <1>3, <2>1, <3>1, FreshStays DEF IInv
  <2> QED
    BY <2>2, <2>3
<1> QED
  BY <1>2, <1>3

LEMMA FreshCreate ==
  ASSUME IInv, NEW p \in Requests, CreateWallet(p), ~HasWallet(p)
  PROVE  \A q \in Requests : Fresh(q)'
<1> SUFFICES ASSUME NEW q \in Requests PROVE Fresh(q)'
  OBVIOUS
<1>1. /\ wallets' = [s \in DOMAIN wallets \cup {call[p].seller} |->
                       IF s = call[p].seller THEN NewWallet ELSE wallets[s]]
      /\ GoTo(p, "creditSearch") /\ UNCHANGED <<call, snap>>
  BY DEF CreateWallet
<1>2. pc'[q] = IF q = p THEN "creditSearch" ELSE pc[q]
  BY <1>1 DEF GoTo, IInv, TypeOK
<1>3. CASE pc'[q] \notin {"creditCheck", "creditWrite", "ledger", "update"}
  BY <1>3 DEF Fresh
<1>4. CASE pc'[q] \in {"creditCheck", "creditWrite", "ledger", "update"}
  <2>1. pc[q] = pc'[q] /\ call[q].seller \in DOMAIN wallets
    BY <1>2, <1>4 DEF IInv, TypeOK, HasWallet
  <2>2. wallets'[call[q].seller] = wallets[call[q].seller]
    BY <1>1, <2>1 DEF HasWallet
  <2> QED
    BY <1>1, <1>4, <2>1, <2>2, FreshStays DEF IInv
<1> QED
  BY <1>3, <1>4

-----------------------------------------------------------------------------
(* What a seller owns, and the sales a step records. *)
Total(s) == IF s \in DOMAIN wallets THEN wallets[s].active + wallets[s].held ELSE 0

NewSales(s) ==
  {r \in receipts' \ receipts : r.seller = s /\ r.type = "SELLER_ESCROW"}

Unmoved(s) == Total(s)' = Total(s) /\ NewSales(s) = {}
SaleCredited(s) == \E r \in NewSales(s) : NewSales(s) = {r} /\ Total(s)' = Total(s) + r.amount
TakenOut(s) ==
  /\ NewSales(s) = {}
  /\ \E p \in Requests :
       /\ call[p].op = "withdraw" /\ call[p].seller = s /\ pc[p] = "update" /\ pc'[p] = "ok"
       /\ Total(s)' = Total(s) - call[p].amount

StepBalances == \A s \in Sellers : Unmoved(s) \/ SaleCredited(s) \/ TakenOut(s)

(* What a seller owns changes by the amount of the one sale the step records, which was not
   recorded before, or by a withdrawal that succeeds, and by nothing else. *)
ProceedsConserved == [][StepBalances]_vars

(* A step that changes neither wallets nor the rows of sales. *)
LEMMA NothingMoves ==
  ASSUME UNCHANGED <<wallets, receipts>> PROVE StepBalances
BY DEF StepBalances, Unmoved, Total, NewSales

LEMMA ProceedInvariant ==
  ASSUME IInv, NEW p \in Requests, NEW label, Proceed(p, label), TypeOK', OpsOK',
         label \in {"creditCheck", "creditWrite", "ledger", "update"} =>
           pc[p] \in {"creditCheck", "creditWrite", "ledger", "update"},
         pc[p] \notin Ended \/ label \in Outcomes
  PROVE  IInv' /\ StepBalances
<1>1. GoTo(p, label) /\ UNCHANGED <<wallets, receipts, call, snap>>
  BY DEF Proceed
<1> QED
  BY <1>1, FreshProceed, OwnStays, NothingMoves DEF IInv

LEMMA QuitInvariant ==
  ASSUME IInv, NEW p \in Requests, NEW outcome \in Outcomes, Proceed(p, outcome),
         TypeOK', OpsOK'
  PROVE  IInv' /\ StepBalances
BY ProceedInvariant DEF Outcomes

LEMMA ProceedsInvariant ==
  ASSUME IInv, NEW p \in Requests, TypeOK', OpsOK',
         \/ CreditStart(p) \/ CreditSearch(p) \/ CreditCheck(p)
         \/ PayoutStart(p) \/ PayoutSearch(p)
  PROVE  IInv' /\ StepBalances
<1>1. \/ \E outcome \in Outcomes : Proceed(p, outcome)
      \/ /\ pc[p] \notin Ended
         /\ \E label \in {"creditSearch", "createWallet", "creditRead", "payoutSearch", "read"} :
              Proceed(p, label)
      \/ pc[p] = "creditCheck" /\ Proceed(p, "creditWrite")
  BY DEF CreditStart, CreditSearch, CreditCheck, PayoutStart, PayoutSearch, Quit, Ended, Outcomes
<1> QED
  BY <1>1, QuitInvariant, ProceedInvariant DEF Ended, Outcomes

LEMMA CreateInvariant ==
  ASSUME IInv, NEW p \in Requests, CreateWallet(p), TypeOK', OpsOK'
  PROVE  IInv' /\ StepBalances
<1>1. CASE Quit(p, "error")
  BY <1>1, QuitInvariant DEF Quit, Outcomes
<1>2. CASE /\ ~HasWallet(p) /\ receipts' = receipts /\ GoTo(p, "creditSearch")
           /\ wallets' = [s \in DOMAIN wallets \cup {call[p].seller} |->
                            IF s = call[p].seller THEN NewWallet ELSE wallets[s]]
  <2>1. \A s \in Sellers : Total(s)' = Total(s)
    BY <1>2 DEF Total, HasWallet, NewWallet
  <2>2. OwnRows'
    BY <1>2, OwnStays DEF CreateWallet, Ended, Outcomes
  <2> QED
    BY <1>2, <2>1, <2>2, FreshCreate DEF IInv, StepBalances, Unmoved, NewSales
<1> QED
  BY <1>1, <1>2 DEF CreateWallet

LEMMA CreditReadInvariant ==
  ASSUME IInv, NEW p \in Requests, CreditRead(p), TypeOK', OpsOK'
  PROVE  IInv' /\ StepBalances
<1>1. HasWallet(p)
  BY KnowsWallet DEF IInv, CreditRead
<1>2. OwnRows'
  BY OwnStays DEF CreditRead, Ended, Outcomes
<1> QED
  BY <1>1, <1>2, FreshRead, NothingMoves DEF CreditRead, IInv

LEMMA MutateReadInvariant ==
  ASSUME IInv, NEW p \in Requests, MutateRead(p), TypeOK', OpsOK'
  PROVE  IInv' /\ StepBalances
<1>1. CASE Quit(p, "error")
  BY <1>1, QuitInvariant DEF Quit, Outcomes
<1>2. CASE /\ HasWallet(p)
           /\ snap' = [snap EXCEPT ![p] = wallets[call[p].seller]]
           /\ GoTo(p, IF call[p].op = "payout" THEN "ledger" ELSE "update")
           /\ UNCHANGED <<wallets, receipts, call, crashes>>
  <2>1. pc[p] \notin Ended
    BY DEF MutateRead, Ended, Outcomes
  <2>2. OwnRows'
    BY <1>2, <2>1, OwnStays
  <2> QED
    BY <1>2, <2>2, FreshRead, NothingMoves DEF IInv
<1> QED
  BY <1>1, <1>2 DEF MutateRead

LEMMA CreditWriteInvariant ==
  ASSUME IInv, NEW p \in Requests, CreditWrite(p), TypeOK', OpsOK'
  PROVE  IInv' /\ StepBalances
<1>1. CASE \/ Quit(p, "conflict") \/ Quit(p, "ok")
  BY <1>1, QuitInvariant DEF Quit, Outcomes
<1>2. CASE /\ VersionMatches(p) /\ ~Recorded(p) /\ StoreWallet(p)
           /\ receipts' = receipts \cup {ReceiptOf(p)}
           /\ GoTo(p, "ok") /\ UNCHANGED <<call, snap, crashes>>
  <2>s. PICK s \in Sellers : s = call[p].seller
    BY CallType DEF IInv
  <2>1. pc[p] = "creditWrite" /\ call[p].op = "credit"
    BY DEF CreditWrite, IInv, OpsOK, OpAt
  <2>2. /\ s \in DOMAIN wallets /\ DOMAIN wallets' = DOMAIN wallets
        /\ \A t \in DOMAIN wallets \ {s} : wallets'[t] = wallets[t]
        /\ wallets'[s].active + wallets'[s].held =
             wallets[s].active + wallets[s].held + call[p].amount
    BY <1>2, <2>s, <2>1, Commit
  <2>3. /\ ReceiptOf(p).seller = s /\ ReceiptOf(p).type = "SELLER_ESCROW"
        /\ ReceiptOf(p).amount = call[p].amount
    BY <2>s, <2>1 DEF ReceiptOf, Type
  <2>4. ReceiptOf(p) \in Receipt /\ ReceiptOf(p) \notin receipts
    BY <1>2, <2>1, ReceiptTyped, NotWritten DEF IInv, TypeOK
  <2>5. NewSales(s) = {ReceiptOf(p)} /\ \A t \in Sellers \ {s} : NewSales(t) = {}
    BY <1>2, <2>3, <2>4 DEF NewSales
  <2>6. Total(s)' = Total(s) + ReceiptOf(p).amount
    BY <2>2, <2>3 DEF Total
  <2>7. \A t \in Sellers \ {s} : Total(t)' = Total(t)
    BY <2>2 DEF Total
  <2>8. StepBalances
    BY <2>4, <2>5, <2>6, <2>7 DEF StepBalances, Unmoved, SaleCredited
  <2>9. OwnRows'
    BY <1>2, <2>1, OwnAdded DEF Ended, Outcomes
  <2> QED
    BY <1>2, <2>1, <2>8, <2>9, FreshCommit DEF IInv
<1> QED
  BY <1>1, <1>2 DEF CreditWrite

LEMMA MutateLedgerInvariant ==
  ASSUME IInv, NEW p \in Requests, MutateLedger(p), TypeOK', OpsOK'
  PROVE  IInv' /\ StepBalances
<1>1. CASE Quit(p, "error")
  BY <1>1, QuitInvariant DEF Quit, Outcomes
<1>2. CASE /\ receipts' = receipts \cup {ReceiptOf(p)} /\ GoTo(p, "update")
           /\ UNCHANGED <<wallets, call, snap, crashes>>
  <2>1. pc[p] = "ledger" /\ call[p].op = "payout"
    BY DEF MutateLedger, IInv, OpsOK, OpAt
  <2>2. ReceiptOf(p).type = "SELLER_ESCROW_SETTLE"
    BY <2>1 DEF ReceiptOf, Type
  <2>3. \A s \in Sellers : NewSales(s) = {} /\ Total(s)' = Total(s)
    BY <1>2, <2>2 DEF NewSales, Total
  <2>4. OwnRows'
    BY <1>2, <2>1, OwnAdded DEF Ended
  <2>5. \A q \in Requests : Fresh(q)'
    BY <1>2, <2>1, FreshProceed
  <2> QED
    BY <2>3, <2>4, <2>5 DEF IInv, StepBalances, Unmoved
<1> QED
  BY <1>1, <1>2 DEF MutateLedger

LEMMA MutateUpdateInvariant ==
  ASSUME IInv, NEW p \in Requests, MutateUpdate(p), TypeOK', OpsOK'
  PROVE  IInv' /\ StepBalances
<1>1. CASE Quit(p, "conflict")
  BY <1>1, QuitInvariant DEF Quit, Outcomes
<1>2. CASE /\ VersionMatches(p) /\ StoreWallet(p) /\ GoTo(p, "ok")
           /\ UNCHANGED <<receipts, call, snap, crashes>>
  <2>s. PICK s \in Sellers : s = call[p].seller
    BY CallType DEF IInv
  <2>1. /\ pc[p] = "update" /\ call[p].op \in {"payout", "withdraw"}
        /\ pc'[p] = "ok" /\ call[p].amount \in Nat
    BY <1>2, CallType DEF MutateUpdate, IInv, OpsOK, OpAt, TypeOK, GoTo
  <2>2. /\ s \in DOMAIN wallets /\ DOMAIN wallets' = DOMAIN wallets
        /\ \A t \in DOMAIN wallets \ {s} : wallets'[t] = wallets[t]
        /\ wallets[s] \in Wallet
        /\ wallets'[s].active + wallets'[s].held =
             wallets[s].active + wallets[s].held +
               (IF call[p].op = "withdraw" THEN -call[p].amount ELSE 0)
    BY <1>2, <2>s, <2>1, Commit
  <2>3. \A t \in Sellers : NewSales(t) = {}
    BY <1>2 DEF NewSales
  <2>4. \A t \in Sellers \ {s} : Unmoved(t)
    BY <2>2, <2>3 DEF Unmoved, Total
  <2>5. wallets[s].active \in Nat /\ wallets[s].held \in Nat
    BY <2>2 DEF Wallet
  <2>6. CASE call[p].op = "withdraw"
    <3>1. Total(s) = wallets[s].active + wallets[s].held
          /\ Total(s)' = wallets'[s].active + wallets'[s].held
      BY <2>2 DEF Total
    <3>2. Total(s)' = Total(s) - call[p].amount
      BY <2>1, <2>2, <2>5, <2>6, <3>1
    <3>3. TakenOut(s)
      BY <2>s, <2>1, <2>3, <2>6, <3>2 DEF TakenOut
    <3> QED
      BY <1>2, <2>1, <2>4, <3>3, FreshCommit, OwnStays DEF IInv, StepBalances, Outcomes
  <2>7. CASE call[p].op = "payout"
    <3>1. Total(s) = wallets[s].active + wallets[s].held
          /\ Total(s)' = wallets'[s].active + wallets'[s].held
      BY <2>2 DEF Total
    <3>2. Unmoved(s)
      BY <2>2, <2>3, <2>5, <2>7, <3>1 DEF Unmoved
    <3> QED
      BY <1>2, <2>1, <2>4, <3>2, FreshCommit, OwnStays DEF IInv, StepBalances, Outcomes
  <2> QED
    BY <2>1, <2>6, <2>7
<1> QED
  BY <1>1, <1>2 DEF MutateUpdate

LEMMA AbortInvariant ==
  ASSUME IInv, NEW p \in Requests, Abort(p), TypeOK', OpsOK'
  PROVE  IInv' /\ StepBalances
<1>1. GoTo(p, "aborted") /\ UNCHANGED <<wallets, receipts, call, snap>>
  BY DEF Abort
<1> QED
  BY <1>1, FreshProceed, OwnStays, NothingMoves DEF IInv, Outcomes

LEMMA InitInvariant == Init => IInv
<1> SUFFICES ASSUME Init PROVE IInv
  OBVIOUS
<1>1. \A p \in Requests : pc[p] = "new"
  BY DEF Init
<1> QED
  BY <1>1, InitTyped DEF Init, IInv, OwnRows, Fresh

LEMMA NextInvariant == IInv /\ [Next]_vars => IInv' /\ [StepBalances]_vars
<1> SUFFICES ASSUME IInv, [Next]_vars PROVE IInv' /\ [StepBalances]_vars
  OBVIOUS
<1>1. TypeOK' /\ OpsOK'
  BY NextTyped DEF IInv
<1>2. CASE UNCHANGED vars
  BY <1>1, <1>2 DEF vars, IInv, OwnRows, Fresh
<1> QED
  BY <1>1, <1>2, ProceedsInvariant, CreateInvariant, CreditReadInvariant, CreditWriteInvariant,
     MutateReadInvariant, MutateLedgerInvariant, MutateUpdateInvariant, AbortInvariant DEF Next

(* However repeated credits, settlements and withdrawals overlap and wherever they are
   dropped, no step changes what a seller owns but by a sale it records for the first
   time or by a withdrawal: summed over a behaviour, every sale is credited once. *)
THEOREM ProceedsAreConserved == Spec => ProceedsConserved
<1>1. IInv /\ [Next]_vars => [StepBalances]_vars
  BY NextInvariant
<1> QED
  BY <1>1, InitInvariant, NextInvariant, PTL DEF Spec, ProceedsConserved
-----------------------------------------------------------------------------
(* The books of a seller.  The withdrawals that have succeeded and the settlements whose
   row is written and whose balances are not are sums over the handlers. *)
Amounts == [p \in Requests |-> call[p].amount]

Takers(s) == {p \in Requests : call[p].op = "withdraw" /\ call[p].seller = s /\ pc[p] = "ok"}
Payers(s) == {p \in Requests : call[p].op = "payout" /\ call[p].seller = s /\ pc[p] = "update"}

Pending(s) == SumFunctionOnSet(Amounts, Payers(s))

(* A settlement writes its row before it moves the money, and may be refused or dropped in
   between: a row is ahead of the active balance, never behind it. *)
Books(s) ==
  /\ Total(s) + Withdrawn(s) = Sum(RowsOf(s, "SELLER_ESCROW"))
  /\ Active(s) + Withdrawn(s) + Pending(s) <= Sum(RowsOf(s, "SELLER_ESCROW_SETTLE"))

BooksInv == IInv /\ IsFiniteSet(receipts) /\ \A s \in Sellers : Books(s)

LEMMA WithdrawnIs == \A s : Withdrawn(s) = SumFunctionOnSet(Amounts, Takers(s))
BY DEF Withdrawn, Amounts, Takers

LEMMA AmountSums ==
  ASSUME TypeOK, NEW A \in SUBSET Requests
  PROVE  /\ IsFiniteSet(A) /\ SumFunctionOnSet(Amounts, A) \in Nat
         /\ \A p \in A : /\ call[p].amount \in Nat
                         /\ SumFunctionOnSet(Amounts, A \ {p}) \in Nat
                         /\ SumFunctionOnSet(Amounts, A) =
                              call[p].amount + SumFunctionOnSet(Amounts, A \ {p})
<1>1. \A p \in Requests : Amounts[p] = call[p].amount /\ Amounts[p] \in Nat
  BY CallType DEF Amounts
<1>2. IsFiniteSet(A)
  BY RequestsAssumption, FS_Subset
<1>3. SumFunctionOnSet(Amounts, A) \in Nat
  BY <1>1, <1>2, SumNat
<1>4. ASSUME NEW p \in A
      PROVE  /\ SumFunctionOnSet(Amounts, A \ {p}) \in Nat
             /\ SumFunctionOnSet(Amounts, A) =
                  Amounts[p] + SumFunctionOnSet(Amounts, A \ {p})
  <2>1. IsFiniteSet(A \ {p})
    BY <1>2, FS_Subset
  <2>2. SumFunctionOnSet(Amounts, A \ {p}) \in Nat
    BY <1>1, <2>1, SumNat
  <2>3. SumFunctionOnSet(Amounts, A) = Amounts[p] + SumFunctionOnSet(Amounts, A \ {p})
    BY <1>1, <1>2, SumRemove
  <2> QED
    BY <2>2, <2>3
<1> QED
  BY <1>1, <1>2, <1>3, <1>4

(* What a step of p from one statement to the next does to the two sums. *)
LEMMA SumsMove ==
  ASSUME TypeOK, NEW p \in Requests, NEW label, GoTo(p, label), call' = call,
         pc[p] # "ok", label = "update" => pc[p] # "update", NEW s
  PROVE  /\ Withdrawn(s) \in Nat /\ Withdrawn(s)' \in Nat
         /\ Pending(s) \in Nat /\ Pending(s)' \in Nat
         /\ Withdrawn(s)' =
              IF call[p].op = "withdraw" /\ call[p].seller = s /\ label = "ok"
              THEN Withdrawn(s) + call[p].amount ELSE Withdrawn(s)
         /\ call[p].op = "payout" /\ call[p].seller = s /\ label = "update" =>
              Pending(s)' = Pending(s) + call[p].amount
         /\ call[p].op = "payout" /\ call[p].seller = s /\ pc[p] = "update" =>
              Pending(s)' = Pending(s) - call[p].amount
         /\ ~(call[p].op = "payout" /\ call[p].seller = s /\ "update" \in {label, pc[p]}) =>
              Pending(s)' = Pending(s)
<1> DEFINE W == Takers(s)
           V == Payers(s)
<1>1. \A q \in Requests : pc'[q] = IF q = p THEN label ELSE pc[q]
  BY DEF GoTo, TypeOK
<1>2. Amounts' = Amounts
  BY DEF Amounts
<1>3. /\ Withdrawn(s) = SumFunctionOnSet(Amounts, W)
      /\ Withdrawn(s)' = SumFunctionOnSet(Amounts, W')
      /\ Pending(s) = SumFunctionOnSet(Amounts, V)
      /\ Pending(s)' = SumFunctionOnSet(Amounts, V')
  BY <1>2 DEF Withdrawn, Amounts, Takers, Pending
<1>4. /\ W \in SUBSET Requests /\ W' \in SUBSET Requests
      /\ V \in SUBSET Requests /\ V' \in SUBSET Requests
  BY DEF Takers, Payers
<1>5. IF call[p].op = "withdraw" /\ call[p].seller = s /\ label = "ok"
      THEN p \in W' /\ W' \ {p} = W ELSE W' = W
  BY <1>1 DEF Takers
<1>6. /\ call[p].op = "payout" /\ call[p].seller = s /\ label = "update" =>
           p \in V' /\ V' \ {p} = V
      /\ call[p].op = "payout" /\ call[p].seller = s /\ pc[p] = "update" =>
           p \in V /\ V \ {p} = V'
      /\ ~(call[p].op = "payout" /\ call[p].seller = s /\ "update" \in {label, pc[p]}) =>
           V' = V
  BY <1>1 DEF Payers
<1> HIDE DEF W, V
<1>7. \A A \in SUBSET Requests :
        /\ SumFunctionOnSet(Amounts, A) \in Nat
        /\ \A q \in A : /\ call[q].amount \in Nat
                        /\ SumFunctionOnSet(Amounts, A) =
                             call[q].amount + SumFunctionOnSet(Amounts, A \ {q})
  BY AmountSums
<1> QED
  BY <1>3, <1>4, <1>5, <1>6, <1>7

(* What the rows add up to, when there are finitely many. *)
LEMMA RowSums ==
  ASSUME IsFiniteSet(receipts), receipts \subseteq Receipt, NEW s, NEW type
  PROVE  IsFiniteSet(RowsOf(s, type)) /\ Sum(RowsOf(s, type)) \in Nat
<1> DEFINE R == RowsOf(s, type)
           f == [r \in R |-> r.amount]
<1>1. IsFiniteSet(R)
  BY FS_Subset DEF RowsOf
<1>2. \A r \in R : f[r] \in Nat
  BY DEF RowsOf, Receipt
<1>3. SumFunctionOnSet(f, R) \in Nat
  <2> HIDE DEF R, f
  <2> QED
    BY <1>1, <1>2, SumNat
<1> QED
  BY <1>1, <1>3 DEF Sum

LEMMA RowSumAdd ==
  ASSUME IsFiniteSet(receipts), receipts \subseteq Receipt, NEW s, NEW type,
         NEW r \in Receipt, r \notin receipts, receipts' = receipts \cup {r}
  PROVE  Sum(RowsOf(s, type))' =
           IF r.seller = s /\ r.type = type THEN Sum(RowsOf(s, type)) + r.amount
           ELSE Sum(RowsOf(s, type))
<1> DEFINE R == RowsOf(s, type)
           f == [x \in R |-> x.amount]
           g == [x \in R \cup {r} |-> x.amount]
<1>1. CASE ~(r.seller = s /\ r.type = type)
  <2>1. RowsOf(s, type)' = R
    BY <1>1 DEF RowsOf
  <2> QED
    BY <1>1, <2>1 DEF Sum
<1>2. CASE r.seller = s /\ r.type = type
  <2>1. RowsOf(s, type)' = R \cup {r} /\ r \notin R
    BY <1>2 DEF RowsOf
  <2>2. IsFiniteSet(R) /\ SumFunctionOnSet(f, R) \in Nat
    BY RowSums DEF Sum
  <2>3. \A x \in R \cup {r} : g[x] \in Int
    BY DEF RowsOf, Receipt
  <2>4. \A x \in R : f[x] = g[x]
    OBVIOUS
  <2>5. g[r] = r.amount /\ r.amount \in Nat
    BY DEF Receipt
  <2>6. Sum(RowsOf(s, type))' = SumFunctionOnSet(g, R \cup {r})
    BY <2>1 DEF Sum
  <2>7. Sum(RowsOf(s, type)) = SumFunctionOnSet(f, R)
    BY DEF Sum
  <2> HIDE DEF R, f, g
  <2>8. SumFunctionOnSet(g, R \cup {r}) = g[r] + SumFunctionOnSet(g, R)
    BY <2>1, <2>2, <2>3, SumAdd
  <2>9. SumFunctionOnSet(g, R) = SumFunctionOnSet(f, R)
    BY <2>2, <2>4, SumSame
  <2> QED
    BY <1>2, <2>2, <2>5, <2>6, <2>7, <2>8, <2>9
<1> QED
  BY <1>1, <1>2

LEMMA BalancesAre ==
  ASSUME TypeOK, NEW s PROVE Total(s) \in Nat /\ Active(s) \in Nat
BY DEF TypeOK, Total, Active, Wallet

(* A handler goes on, is refused or is dropped: a settlement it has recorded and not made
   is no longer pending, and nothing else changes. *)
LEMMA ProceedBooks ==
  ASSUME BooksInv, NEW p \in Requests, NEW label, GoTo(p, label),
         UNCHANGED <<receipts, call>>,
         \A s \in Sellers : Total(s)' = Total(s) /\ Active(s)' = Active(s),
         pc[p] # "ok",
         label = "ok" => call[p].op # "withdraw",
         label = "update" => call[p].op # "payout" /\ pc[p] # "update"
  PROVE  IsFiniteSet(receipts') /\ \A s \in Sellers : Books(s)'
<1> SUFFICES ASSUME NEW s \in Sellers PROVE Books(s)'
  BY DEF BooksInv
<1>1. /\ Withdrawn(s)' = Withdrawn(s) /\ Withdrawn(s) \in Nat
      /\ Pending(s)' \in Nat /\ Pending(s) \in Nat
      /\ \/ Pending(s)' = Pending(s)
         \/ call[p].amount \in Nat /\ Pending(s)' = Pending(s) - call[p].amount
  BY SumsMove, CallType DEF BooksInv, IInv
<1>2. ASSUME NEW type
      PROVE  Sum(RowsOf(s, type))' = Sum(RowsOf(s, type)) /\ Sum(RowsOf(s, type)) \in Nat
  <2>1. Sum(RowsOf(s, type))' = Sum(RowsOf(s, type))
    BY DEF RowsOf, Sum
  <2> QED
    BY <2>1, RowSums DEF BooksInv, IInv, TypeOK
<1>3. Total(s) \in Nat /\ Active(s) \in Nat
  BY BalancesAre DEF BooksInv, IInv
<1> QED
  BY <1>1, <1>2, <1>3 DEF BooksInv, Books

LEMMA ProceedsBooks ==
  ASSUME BooksInv, NEW p \in Requests,
         \/ CreditStart(p) \/ CreditSearch(p) \/ CreditRead(p) \/ CreditCheck(p)
         \/ PayoutStart(p) \/ PayoutSearch(p) \/ MutateRead(p) \/ Abort(p)
  PROVE  IsFiniteSet(receipts') /\ \A s \in Sellers : Books(s)'
<1>1. PICK label : /\ GoTo(p, label)
                   /\ label = "ok" => call[p].op # "withdraw"
                   /\ label = "update" => call[p].op # "payout" /\ pc[p] # "update"
  BY DEF CreditStart, CreditSearch, CreditRead, CreditCheck, PayoutStart, PayoutSearch,
     MutateRead, Abort, Quit, Proceed, BooksInv, IInv, OpsOK, OpAt
<1>2. UNCHANGED <<wallets, receipts, call>>
  BY DEF CreditStart, CreditSearch, CreditRead, CreditCheck, PayoutStart, PayoutSearch,
     MutateRead, Abort, Quit, Proceed
<1>3. pc[p] # "ok"
  BY DEF CreditStart, CreditSearch, CreditRead, CreditCheck, PayoutStart, PayoutSearch,
     MutateRead, Abort, Outcomes
<1>4. \A s : Total(s)' = Total(s) /\ Active(s)' = Active(s)
  BY <1>2 DEF Total, Active
<1> QED
  BY <1>1, <1>2, <1>3, <1>4, ProceedBooks

LEMMA QuitBooks ==
  ASSUME BooksInv, NEW p \in Requests, NEW outcome, Quit(p, outcome), pc[p] # "ok",
         outcome \in {"ok", "error", "conflict"},
         outcome = "ok" => call[p].op # "withdraw"
  PROVE  IsFiniteSet(receipts') /\ \A s \in Sellers : Books(s)'
<1>1. GoTo(p, outcome) /\ UNCHANGED <<wallets, receipts, call>>
  BY DEF Quit, Proceed
<1>2. \A s : Total(s)' = Total(s) /\ Active(s)' = Active(s)
  BY <1>1 DEF Total, Active
<1> QED
  BY <1>1, <1>2, ProceedBooks

LEMMA CreateBooks ==
  ASSUME BooksInv, NEW p \in Requests, CreateWallet(p)
  PROVE  IsFiniteSet(receipts') /\ \A s \in Sellers : Books(s)'
<1>1. CASE Quit(p, "error")
  <2>1. pc[p] # "ok"
    BY DEF CreateWallet
  <2> QED
    BY <1>1, <2>1, QuitBooks
<1>2. CASE /\ ~HasWallet(p) /\ GoTo(p, "creditSearch") /\ UNCHANGED <<receipts, call>>
           /\ wallets' = [s \in DOMAIN wallets \cup {call[p].seller} |->
                            IF s = call[p].seller THEN NewWallet ELSE wallets[s]]
  <2>1. \A s : Total(s)' = Total(s) /\ Active(s)' = Active(s)
    BY <1>2 DEF Total, Active, HasWallet, NewWallet
  <2> QED
    BY <1>2, <2>1, ProceedBooks DEF CreateWallet
<1> QED
  BY <1>1, <1>2 DEF CreateWallet

(* The balances after a versioned write, by seller. *)
LEMMA CommitMoves ==
  ASSUME IInv, NEW p \in Requests, pc[p] \in {"creditWrite", "update"}, VersionMatches(p),
         StoreWallet(p), NEW s \in Sellers
  PROVE  /\ Total(s)' = Total(s) + (IF call[p].seller # s THEN 0
                                    ELSE IF call[p].op = "credit" THEN call[p].amount
                                    ELSE IF call[p].op = "withdraw" THEN -call[p].amount ELSE 0)
         /\ Active(s)' = Active(s) + (IF call[p].seller # s THEN 0
                                      ELSE IF call[p].op = "payout" THEN call[p].amount
                                      ELSE IF call[p].op = "withdraw" THEN -call[p].amount
                                      ELSE 0)
<1>1. Total(s) \in Nat /\ Active(s) \in Nat
  BY BalancesAre DEF IInv
<1>2. CASE call[p].seller = s
  <2>1. /\ s \in DOMAIN wallets /\ DOMAIN wallets' = DOMAIN wallets
        /\ wallets[s] \in Wallet
        /\ wallets'[s].active + wallets'[s].held =
             wallets[s].active + wallets[s].held +
               (IF call[p].op = "credit" THEN call[p].amount
                ELSE IF call[p].op = "withdraw" THEN -call[p].amount ELSE 0)
        /\ wallets'[s].active =
             wallets[s].active + (IF call[p].op = "payout" THEN call[p].amount
                                  ELSE IF call[p].op = "withdraw" THEN -call[p].amount ELSE 0)
    BY <1>2, Commit
  <2> QED
    BY <1>2, <2>1 DEF Total, Active
<1>3. CASE call[p].seller # s
  <2>1. /\ DOMAIN wallets' = DOMAIN wallets
        /\ s \in DOMAIN wallets => wallets'[s] = wallets[s]
    BY <1>3, Commit
  <2>2. Total(s)' = Total(s) /\ Active(s)' = Active(s)
    BY <2>1 DEF Total, Active
  <2> QED
    BY <1>1, <1>3, <2>2
<1> QED
  BY <1>2, <1>3

LEMMA CreditWriteBooks ==
  ASSUME BooksInv, NEW p \in Requests, CreditWrite(p)
  PROVE  IsFiniteSet(receipts') /\ \A s \in Sellers : Books(s)'
<1>0. pc[p] = "creditWrite" /\ call[p].op = "credit" /\ call[p].amount \in Nat
  BY CallType DEF CreditWrite, BooksInv, IInv, OpsOK, OpAt
<1>1. CASE Quit(p, "conflict") \/ Quit(p, "ok")
  <2>1. pc[p] # "ok" /\ call[p].op # "withdraw"
    BY <1>0
  <2> QED
    BY <1>1, <2>1, QuitBooks
<1>2. CASE /\ VersionMatches(p) /\ ~Recorded(p) /\ StoreWallet(p)
           /\ receipts' = receipts \cup {ReceiptOf(p)}
           /\ GoTo(p, "ok") /\ UNCHANGED call
  <2> SUFFICES ASSUME NEW s \in Sellers PROVE Books(s)'
    BY <1>2, FS_AddElement DEF BooksInv
  <2>1. /\ ReceiptOf(p).seller = call[p].seller /\ ReceiptOf(p).type = "SELLER_ESCROW"
        /\ ReceiptOf(p).amount = call[p].amount
    BY <1>0 DEF ReceiptOf, Type
  <2>2. ReceiptOf(p) \in Receipt /\ ReceiptOf(p) \notin receipts
    BY <1>0, <1>2, ReceiptTyped, NotWritten DEF BooksInv, IInv, TypeOK
  <2>3. /\ Sum(RowsOf(s, "SELLER_ESCROW"))' =
             Sum(RowsOf(s, "SELLER_ESCROW"))
               + (IF call[p].seller = s THEN call[p].amount ELSE 0)
        /\ Sum(RowsOf(s, "SELLER_ESCROW_SETTLE"))' = Sum(RowsOf(s, "SELLER_ESCROW_SETTLE"))
    <3>1. \A type : Sum(RowsOf(s, type)) \in Nat
      BY RowSums DEF BooksInv, IInv, TypeOK
    <3>2. \A type : Sum(RowsOf(s, type))' =
                      IF ReceiptOf(p).seller = s /\ ReceiptOf(p).type = type
                      THEN Sum(RowsOf(s, type)) + ReceiptOf(p).amount
                      ELSE Sum(RowsOf(s, type))
      BY <1>2, <2>2, RowSumAdd DEF BooksInv, IInv, TypeOK
    <3> QED
      BY <2>1, <3>1, <3>2
  <2>4. /\ Withdrawn(s)' = Withdrawn(s) /\ Pending(s)' = Pending(s)
        /\ Withdrawn(s) \in Nat /\ Pending(s) \in Nat
    BY <1>0, <1>2, SumsMove DEF BooksInv, IInv
  <2>5. /\ Total(s)' = Total(s) + (IF call[p].seller = s THEN call[p].amount ELSE 0)
        /\ Active(s)' = Active(s) + 0
    BY <1>0, <1>2, CommitMoves DEF BooksInv
  <2>6. Total(s) \in Nat /\ Active(s) \in Nat
    BY BalancesAre DEF BooksInv, IInv
  <2>7. \A type : Sum(RowsOf(s, type)) \in Nat
    BY RowSums DEF BooksInv, IInv, TypeOK
  <2>8. Books(s)
    BY DEF BooksInv
  <2> QED
    BY <1>0, <2>3, <2>4, <2>5, <2>6, <2>7, <2>8 DEF Books
<1> QED
  BY <1>1, <1>2 DEF CreditWrite

LEMMA MutateLedgerBooks ==
  ASSUME BooksInv, NEW p \in Requests, MutateLedger(p)
  PROVE  IsFiniteSet(receipts') /\ \A s \in Sellers : Books(s)'
<1>0. pc[p] = "ledger" /\ call[p].op = "payout" /\ call[p].amount \in Nat
  BY CallType DEF MutateLedger, BooksInv, IInv, OpsOK, OpAt
<1>1. CASE Quit(p, "error")
  <2>1. pc[p] # "ok"
    BY <1>0
  <2> QED
    BY <1>1, <2>1, QuitBooks
<1>2. CASE /\ ~Recorded(p) /\ receipts' = receipts \cup {ReceiptOf(p)}
           /\ GoTo(p, "update") /\ UNCHANGED <<wallets, call>>
  <2> SUFFICES ASSUME NEW s \in Sellers PROVE Books(s)'
    BY <1>2, FS_AddElement DEF BooksInv
  <2>1. /\ ReceiptOf(p).seller = call[p].seller /\ ReceiptOf(p).type = "SELLER_ESCROW_SETTLE"
        /\ ReceiptOf(p).amount = call[p].amount
    BY <1>0 DEF ReceiptOf, Type
  <2>2. ReceiptOf(p) \in Receipt /\ ReceiptOf(p) \notin receipts
    BY <1>0, <1>2, ReceiptTyped, NotWritten DEF BooksInv, IInv, TypeOK
  <2>3. \A type : Sum(RowsOf(s, type)) \in Nat
    BY RowSums DEF BooksInv, IInv, TypeOK
  <2>4. \A type : Sum(RowsOf(s, type))' =
                    IF ReceiptOf(p).seller = s /\ ReceiptOf(p).type = type
                    THEN Sum(RowsOf(s, type)) + ReceiptOf(p).amount
                    ELSE Sum(RowsOf(s, type))
    BY <1>2, <2>2, RowSumAdd DEF BooksInv, IInv, TypeOK
  <2>5. /\ Withdrawn(s)' = Withdrawn(s) /\ Withdrawn(s) \in Nat /\ Pending(s) \in Nat
        /\ Pending(s)' = Pending(s) + (IF call[p].seller = s THEN call[p].amount ELSE 0)
    BY <1>0, <1>2, SumsMove DEF BooksInv, IInv
  <2>6. Total(s)' = Total(s) /\ Active(s)' = Active(s)
    BY <1>2 DEF Total, Active
  <2>7. Total(s) \in Nat /\ Active(s) \in Nat
    BY BalancesAre DEF BooksInv, IInv
  <2>8. Books(s)
    BY DEF BooksInv
  <2> QED
    BY <1>0, <2>1, <2>3, <2>4, <2>5, <2>6, <2>7, <2>8 DEF Books
<1> QED
  BY <1>1, <1>2 DEF MutateLedger

LEMMA MutateUpdateBooks ==
  ASSUME BooksInv, NEW p \in Requests, MutateUpdate(p)
  PROVE  IsFiniteSet(receipts') /\ \A s \in Sellers : Books(s)'
<1>0. /\ pc[p] = "update" /\ call[p].op \in {"payout", "withdraw"}
      /\ call[p].amount \in Nat
  BY CallType DEF MutateUpdate, BooksInv, IInv, OpsOK, OpAt
<1>1. CASE Quit(p, "conflict")
  <2>1. pc[p] # "ok"
    BY <1>0
  <2> QED
    BY <1>1, <2>1, QuitBooks
<1>2. CASE /\ VersionMatches(p) /\ StoreWallet(p) /\ GoTo(p, "ok")
           /\ UNCHANGED <<receipts, call>>
  <2> SUFFICES ASSUME NEW s \in Sellers PROVE Books(s)'
    BY <1>2 DEF BooksInv
  <2>1. \A type : Sum(RowsOf(s, type)) \in Nat
    BY RowSums DEF BooksInv, IInv, TypeOK
  <2>2. ASSUME NEW type PROVE Sum(RowsOf(s, type))' = Sum(RowsOf(s, type))
    BY <1>2 DEF RowsOf, Sum
  <2>3. /\ Withdrawn(s) \in Nat /\ Pending(s) \in Nat
        /\ Withdrawn(s)' = Withdrawn(s) + (IF call[p].seller # s THEN 0
                                           ELSE IF call[p].op = "withdraw"
                                           THEN call[p].amount ELSE 0)
        /\ Pending(s)' = Pending(s) - (IF call[p].seller # s THEN 0
                                       ELSE IF call[p].op = "payout"
                                       THEN call[p].amount ELSE 0)
    BY <1>0, <1>2, SumsMove DEF BooksInv, IInv
  <2>4. /\ Total(s)' = Total(s) + (IF call[p].seller # s THEN 0
                                   ELSE IF call[p].op = "withdraw" THEN -call[p].amount ELSE 0)
        /\ Active(s)' = Active(s) + (IF call[p].seller # s THEN 0
                                     ELSE IF call[p].op = "payout" THEN call[p].amount
                                     ELSE -call[p].amount)
    BY <1>0, <1>2, CommitMoves DEF BooksInv
  <2>5. Total(s) \in Nat /\ Active(s) \in Nat
    BY BalancesAre DEF BooksInv, IInv
  <2>6. Books(s)
    BY DEF BooksInv
  <2> QED
    BY <1>0, <2>1, <2>2, <2>3, <2>4, <2>5, <2>6 DEF Books
<1> QED
  BY <1>1, <1>2 DEF MutateUpdate

LEMMA InitBooks == Init => BooksInv
<1> SUFFICES ASSUME Init PROVE BooksInv
  OBVIOUS
<1>1. IInv /\ IsFiniteSet(receipts)
  BY InitInvariant, FS_EmptySet DEF Init
<1>2. ASSUME NEW s \in Sellers PROVE Books(s)
  <2>1. Total(s) = 0 /\ Active(s) = 0
    BY DEF Init, Total, Active
  <2>2. Takers(s) = {} /\ Payers(s) = {} /\ \A type : RowsOf(s, type) = {}
    BY DEF Init, Takers, Payers, RowsOf
  <2>3. Withdrawn(s) = 0 /\ Pending(s) = 0
    BY <2>2, SumEmpty, WithdrawnIs DEF Pending
  <2>4. \A type : Sum(RowsOf(s, type)) = 0
    BY <2>2, SumEmpty DEF Sum
  <2> QED
    BY <2>1, <2>3, <2>4 DEF Books
<1> QED
  BY <1>1, <1>2 DEF BooksInv

LEMMA NextBooks == BooksInv /\ [Next]_vars => BooksInv'
<1> SUFFICES ASSUME BooksInv, [Next]_vars PROVE BooksInv'
  OBVIOUS
<1>1. IInv'
  BY NextInvariant DEF BooksInv
<1>2. CASE UNCHANGED vars
  <2>1. \A s : Books(s)' = Books(s)
    BY <1>2 DEF vars, Books, Total, Active, Withdrawn, Pending, Payers, Amounts, Sum, RowsOf
  <2> QED
    BY <1>1, <1>2, <2>1 DEF vars, BooksInv
<1> QED
  BY <1>1, <1>2, ProceedsBooks, CreateBooks, CreditWriteBooks, MutateLedgerBooks,
     MutateUpdateBooks DEF Next, BooksInv

(* However repeated credits, settlements and withdrawals overlap and wherever they are
   dropped, what a seller has and has taken out is what the recorded sales add up to. *)
THEOREM SalesCredited == Spec => []SalesCreditedOnce
<1>1. BooksInv => SalesCreditedOnce
  BY DEF BooksInv, IInv, TypeOK, Books, Total, SalesCreditedOnce
<1> QED
  BY <1>1, InitBooks, NextBooks, PTL DEF Spec

(* What has ever been active is covered by the settlement rows, although a settlement
   writes its row and its balances in two transactions and a retry may come in between. *)
THEOREM ActiveIsSettled == Spec => []ActiveOnlyIfSettled
<1>1. BooksInv => ActiveOnlyIfSettled
  <2> SUFFICES ASSUME BooksInv, NEW s \in DOMAIN wallets
               PROVE  wallets[s].active + Withdrawn(s) <= Sum(RowsOf(s, "SELLER_ESCROW_SETTLE"))
    BY DEF ActiveOnlyIfSettled
  <2>1. s \in Sellers /\ Active(s) = wallets[s].active /\ Active(s) \in Nat
    BY BalancesAre DEF BooksInv, IInv, TypeOK, Active
  <2>2. Withdrawn(s) \in Nat /\ Pending(s) \in Nat
    <3>1. Takers(s) \in SUBSET Requests /\ Payers(s) \in SUBSET Requests
      BY DEF Takers, Payers
    <3> QED
      BY <3>1, AmountSums, WithdrawnIs DEF BooksInv, IInv, Pending
  <2>3. Sum(RowsOf(s, "SELLER_ESCROW_SETTLE")) \in Nat
    BY RowSums DEF BooksInv, IInv, TypeOK
  <2> QED
    BY <2>1, <2>2, <2>3 DEF BooksInv, Books
<1> QED
  BY <1>1, InitBooks, NextBooks, PTL DEF Spec

-----------------------------------------------------------------------------
(* A payout between its two writes has recorded its order, and is the only one that has:
   the unique index let one of them in. *)
ClaimsRecorded == \A p \in Requests : Settling(p) => ReceiptOf(p) \in receipts

ClaimsDistinct ==
  \A p, q \in Requests :
    Settling(p) /\ Settling(q) /\ ReceiptOf(p).ref = ReceiptOf(q).ref => p = q

ClaimInv == IInv /\ ClaimsRecorded /\ ClaimsDistinct

(* No handler begins to settle. *)
LEMMA ClaimsStay ==
  ASSUME ClaimInv, call' = call, receipts \subseteq receipts',
         \A q \in Requests : Settling(q)' => Settling(q)
  PROVE  (ClaimsRecorded /\ ClaimsDistinct)'
<1>1. \A q \in Requests : ReceiptOf(q)' = ReceiptOf(q)
  BY DEF ReceiptOf, Type
<1> QED
  BY <1>1 DEF ClaimInv, ClaimsRecorded, ClaimsDistinct

(* The references rows are found again by: one a caller named is not a request. *)
LEMMA Refs ==
  ASSUME TypeOK, NEW p \in Requests, call[p].op \in {"credit", "payout"}
  PROVE  /\ call[p].ref = None => ReceiptOf(p).ref = p
         /\ call[p].ref # None => /\ ReceiptOf(p).ref = call[p].ref
                                  /\ ReceiptOf(p).ref \notin Requests
         /\ ReceiptOf(p).ref \in Correlations \cup Orders \cup Requests
<1>1. call[p].ref \in Correlations \cup Orders \cup {None}
  BY CallType DEF CreditCall, SettleCall
<1> QED
  BY <1>1, RequestsAssumption DEF ReceiptOf

(* What a handler is about to record has no row of its type under the same reference. *)
LEMMA RefIsNew ==
  ASSUME IInv, NEW p \in Requests, ~Recorded(p), pc[p] \in {"creditWrite", "ledger"},
         NEW r \in receipts, r.type = Type(p)
  PROVE  r.ref # ReceiptOf(p).ref
<1>1. call[p].op \in {"credit", "payout"}
  BY DEF IInv, OpsOK, OpAt
<1>2. CASE call[p].ref = None
  <2>1. ReceiptOf(p).ref = p /\ pc[p] \notin Ended
    BY <1>1, <1>2, Refs DEF IInv, Ended, Outcomes
  <2> QED
    BY <2>1 DEF IInv, OwnRows
<1>3. CASE call[p].ref # None
  BY <1>1, <1>3, Refs DEF IInv, Recorded
<1> QED
  BY <1>2, <1>3

LEMMA ClaimAdded ==
  ASSUME ClaimInv, NEW p \in Requests, MutateLedger(p), ~Recorded(p),
         receipts' = receipts \cup {ReceiptOf(p)}, GoTo(p, "update"), call' = call
  PROVE  (ClaimsRecorded /\ ClaimsDistinct)'
<1>1. pc[p] = "ledger" /\ call[p].op = "payout" /\ Type(p) = "SELLER_ESCROW_SETTLE"
  BY DEF MutateLedger, ClaimInv, IInv, OpsOK, OpAt, Type
<1>2. \A q \in Requests : ReceiptOf(q)' = ReceiptOf(q)
  BY DEF ReceiptOf, Type
<1>3. \A q \in Requests : Settling(q)' => q = p \/ Settling(q)
  BY DEF Settling, GoTo, ClaimInv, IInv, TypeOK
<1>4. ASSUME NEW q \in Requests, Settling(q) PROVE ReceiptOf(q).ref # ReceiptOf(p).ref
  <2>1. ReceiptOf(q) \in receipts /\ ReceiptOf(q).type = Type(p)
    BY <1>1, <1>4 DEF ClaimInv, ClaimsRecorded, Settling, ReceiptOf, Type
  <2> QED
    BY <1>1, <2>1, RefIsNew DEF ClaimInv
<1> QED
  BY <1>2, <1>3, <1>4 DEF ClaimInv, ClaimsRecorded, ClaimsDistinct

(* Every other step. *)
LEMMA NobodyClaims ==
  ASSUME ClaimInv, NEW p \in Requests,
         \/ CreditStart(p) \/ CreateWallet(p) \/ CreditSearch(p)
         \/ CreditRead(p) \/ CreditCheck(p) \/ CreditWrite(p)
         \/ PayoutStart(p) \/ PayoutSearch(p)
         \/ MutateRead(p) \/ MutateUpdate(p) \/ Abort(p) \/ Quit(p, "error")
  PROVE  (ClaimsRecorded /\ ClaimsDistinct)'
<1>1. call' = call /\ receipts \subseteq receipts'
  BY DEF CreditStart, CreateWallet, CreditSearch, CreditRead, CreditCheck, CreditWrite,
     PayoutStart, PayoutSearch, MutateRead, MutateUpdate, Abort, Quit, Proceed
<1>2. \/ \E label \in (Labels \ {"update"}) : GoTo(p, label)
      \/ GoTo(p, IF call[p].op = "payout" THEN "ledger" ELSE "update")
  BY DEF CreditStart, CreateWallet, CreditSearch, CreditRead, CreditCheck, CreditWrite,
     PayoutStart, PayoutSearch, MutateRead, MutateUpdate, Abort, Quit, Proceed, Labels, Outcomes
<1>3. \A q \in Requests : Settling(q)' => Settling(q)
  BY <1>1, <1>2 DEF Settling, GoTo, ClaimInv, IInv, TypeOK
<1> QED
  BY <1>1, <1>3, ClaimsStay

LEMMA NextClaims == ClaimInv /\ [Next]_vars => ClaimInv'
<1> SUFFICES ASSUME ClaimInv, [Next]_vars PROVE ClaimInv'
  OBVIOUS
<1>1. IInv'
  BY NextInvariant DEF ClaimInv
<1>2. CASE UNCHANGED vars
  <2>1. \A q \in Requests : Settling(q)' = Settling(q)
    BY <1>2 DEF vars, Settling
  <2> QED
    BY <1>1, <1>2, <2>1, ClaimsStay DEF vars, ClaimInv
<1>3. ASSUME NEW p \in Requests, MutateLedger(p) PROVE ClaimInv'
  BY <1>1, <1>3, ClaimAdded, NobodyClaims DEF MutateLedger, ClaimInv
<1> QED
  BY <1>1, <1>2, <1>3, NobodyClaims DEF Next, ClaimInv

LEMMA InitClaims == Init => ClaimInv
<1> SUFFICES ASSUME Init PROVE ClaimInv
  OBVIOUS
<1>1. \A p \in Requests : ~Settling(p)
  BY DEF Init, Settling
<1> QED
  BY <1>1, InitInvariant DEF ClaimInv, ClaimsRecorded, ClaimsDistinct

-----------------------------------------------------------------------------
(* What the steps do to the state SaleContract sees. *)
SaleVars == <<ActiveColumn, HeldColumn, Entries("SELLER_ESCROW"),
              Entries("SELLER_ESCROW_SETTLE"), Owed>>

LEMMA SameColumns ==
  ASSUME UNCHANGED wallets PROVE UNCHANGED <<ActiveColumn, HeldColumn>>
BY DEF ActiveColumn, HeldColumn, Active, Held

LEMMA SameEntries ==
  ASSUME UNCHANGED receipts
  PROVE  UNCHANGED <<Entries("SELLER_ESCROW"), Entries("SELLER_ESCROW_SETTLE")>>
BY DEF Entries

(* Nobody begins to settle, or stops. *)
LEMMA SameOwed ==
  ASSUME TypeOK, NEW p \in Requests, NEW label, GoTo(p, label), call' = call, ~Settling(p),
         label = "update" => call[p].op # "payout"
  PROVE  UNCHANGED Owed
<1>1. \A q \in Requests : /\ Settling(q)' <=> Settling(q)
                          /\ EntryOf(ReceiptOf(q))' = EntryOf(ReceiptOf(q))
  BY DEF Settling, GoTo, TypeOK, EntryOf, ReceiptOf, Type
<1> QED
  BY <1>1 DEF Owed

(* The handler has moved the money, or never will: no other handler owes the same. *)
LEMMA OwedDrops ==
  ASSUME ClaimInv, NEW p \in Requests, Settling(p), NEW label \in Outcomes, GoTo(p, label),
         call' = call
  PROVE  /\ EntryOf(ReceiptOf(p)) \in Owed
         /\ Owed' = Owed \ {EntryOf(ReceiptOf(p))}
<1>1. \A q \in Requests : /\ Settling(q)' <=> Settling(q) /\ q # p
                          /\ EntryOf(ReceiptOf(q))' = EntryOf(ReceiptOf(q))
  BY DEF Settling, GoTo, ClaimInv, IInv, TypeOK, EntryOf, ReceiptOf, Type, Outcomes
<1>2. \A q \in Requests : Settling(q) /\ EntryOf(ReceiptOf(q)) = EntryOf(ReceiptOf(p)) => q = p
  BY DEF ClaimInv, ClaimsDistinct, EntryOf
<1> QED
  BY <1>1, <1>2 DEF Owed

LEMMA EntriesAdd ==
  ASSUME NEW r, receipts' = receipts \cup {r}, NEW type
  PROVE  Entries(type)' = IF r.type = type THEN Entries(type) \cup {EntryOf(r)} ELSE Entries(type)
BY DEF Entries, EntryOf

(* The columns after a versioned write. *)
LEMMA ColumnsMove ==
  ASSUME IInv, NEW p \in Requests, pc[p] \in {"creditWrite", "update"}, VersionMatches(p),
         StoreWallet(p)
  PROVE  LET s == call[p].seller
             m == call[p].amount
             op == call[p].op IN
         /\ s \in Sellers /\ 0 < m
         /\ op = "credit" => /\ ActiveColumn' = ActiveColumn
                             /\ HeldColumn' = [HeldColumn EXCEPT ![s] = @ + m]
         /\ op = "payout" => /\ m <= HeldColumn[s]
                             /\ ActiveColumn' = [ActiveColumn EXCEPT ![s] = @ + m]
                             /\ HeldColumn' = [HeldColumn EXCEPT ![s] = @ + -m]
         /\ op = "withdraw" => /\ m <= ActiveColumn[s]
                               /\ ActiveColumn' = [ActiveColumn EXCEPT ![s] = @ + -m]
                               /\ HeldColumn' = HeldColumn
<1>s. PICK s \in Sellers : s = call[p].seller
  BY CallType DEF IInv
<1>m. PICK m \in Nat : m = call[p].amount
  BY CallType DEF IInv
<1>o. PICK op : op = call[p].op
  OBVIOUS
<1>1. s \in Sellers /\ m \in Nat /\ op \in {"credit", "payout", "withdraw"}
  BY <1>o, CallType DEF IInv
<1>2. /\ s \in DOMAIN wallets /\ DOMAIN wallets' = DOMAIN wallets
      /\ \A t \in DOMAIN wallets \ {s} : wallets'[t] = wallets[t]
      /\ wallets[s] \in Wallet /\ wallets'[s] \in Wallet
      /\ wallets'[s].active + wallets'[s].held =
           wallets[s].active + wallets[s].held +
             (IF op = "credit" THEN m ELSE IF op = "withdraw" THEN -m ELSE 0)
      /\ wallets'[s].active =
           wallets[s].active + (IF op = "payout" THEN m ELSE IF op = "withdraw" THEN -m ELSE 0)
  BY <1>s, <1>m, <1>o, Commit
<1>3. snap[p] = wallets[s] /\ Allowed(Type(p), snap[p], m)
  BY <1>s, <1>m DEF IInv, Fresh, VersionMatches, TypeOK
<1>4. /\ 0 < m
      /\ op = "payout" => m <= wallets[s].held
      /\ op = "withdraw" => m <= wallets[s].active
  <2>1. m > 0 /\ (op = "payout" => wallets[s].held >= m)
        /\ (op = "withdraw" => wallets[s].active >= m)
    BY <1>3, <1>o, TypeOfCall DEF IInv, Allowed, DebitsHeld, DebitsActive
  <2>2. wallets[s].held \in Nat /\ wallets[s].active \in Nat
    BY <1>2 DEF Wallet
  <2> QED
    BY <1>1, <2>1, <2>2
<1>5. /\ Active(s) = wallets[s].active /\ Active(s)' = wallets'[s].active
      /\ Held(s) = wallets[s].held /\ Held(s)' = wallets'[s].held
  BY <1>2 DEF Active, Held
<1>6. \A t \in Sellers \ {s} : Active(t)' = Active(t) /\ Held(t)' = Held(t)
  BY <1>2 DEF Active, Held
<1>7. /\ op = "credit" => Active(s)' = Active(s) /\ Held(s)' = Held(s) + m
      /\ op = "payout" => Active(s)' = Active(s) + m /\ Held(s)' = Held(s) + -m
      /\ op = "withdraw" => Active(s)' = Active(s) + -m /\ Held(s)' = Held(s)
  <2>1. /\ wallets[s].active \in Nat /\ wallets[s].held \in Nat
        /\ wallets'[s].active \in Nat /\ wallets'[s].held \in Nat
    BY <1>2 DEF Wallet
  <2> QED
    BY <1>1, <1>2, <1>5, <2>1
<1>8. /\ op = "credit" => /\ ActiveColumn' = ActiveColumn
                           /\ HeldColumn' = [HeldColumn EXCEPT ![s] = @ + m]
      /\ op = "payout" => /\ m <= HeldColumn[s]
                          /\ ActiveColumn' = [ActiveColumn EXCEPT ![s] = @ + m]
                          /\ HeldColumn' = [HeldColumn EXCEPT ![s] = @ + -m]
      /\ op = "withdraw" => /\ m <= ActiveColumn[s]
                            /\ ActiveColumn' = [ActiveColumn EXCEPT ![s] = @ + -m]
                            /\ HeldColumn' = HeldColumn
  BY <1>1, <1>4, <1>5, <1>6, <1>7 DEF ActiveColumn, HeldColumn
<1> QED
  BY <1>s, <1>m, <1>o, <1>4, <1>8

-----------------------------------------------------------------------------
(* Each step of a handler is a stutter or one step of the contract. *)
Simulated == Contract!Next \/ UNCHANGED SaleVars

LEMMA ProceedStutters ==
  ASSUME IInv, NEW p \in Requests, NEW label, Proceed(p, label), ~Settling(p), label # "update"
  PROVE  Simulated
<1>1. UNCHANGED Owed
  BY SameOwed DEF Proceed, IInv
<1> QED
  BY <1>1, SameColumns, SameEntries DEF Proceed, Simulated, SaleVars

LEMMA ReadsStutter ==
  ASSUME IInv, NEW p \in Requests,
         \/ CreditStart(p) \/ CreditSearch(p) \/ CreditRead(p) \/ CreditCheck(p)
         \/ PayoutStart(p) \/ PayoutSearch(p) \/ MutateRead(p)
  PROVE  Simulated
<1>1. ~Settling(p)
  BY DEF Settling, CreditStart, CreditSearch, CreditRead, CreditCheck, PayoutStart,
     PayoutSearch, MutateRead
<1>2. \/ \E label \in Labels \ {"update"} : Proceed(p, label)
      \/ /\ UNCHANGED <<wallets, receipts, call>>
         /\ \/ GoTo(p, "creditCheck")
            \/ GoTo(p, IF call[p].op = "payout" THEN "ledger" ELSE "update")
  BY DEF CreditStart, CreditSearch, CreditRead, CreditCheck, PayoutStart, PayoutSearch,
     MutateRead, Quit, Labels, Outcomes
<1>3. CASE \E label \in Labels \ {"update"} : Proceed(p, label)
  BY <1>1, <1>3, ProceedStutters
<1>4. CASE /\ UNCHANGED <<wallets, receipts, call>>
           /\ \/ GoTo(p, "creditCheck")
              \/ GoTo(p, IF call[p].op = "payout" THEN "ledger" ELSE "update")
  <2>1. UNCHANGED Owed
    BY <1>1, <1>4, SameOwed DEF IInv
  <2> QED
    BY <1>4, <2>1, SameColumns, SameEntries DEF Simulated, SaleVars
<1> QED
  BY <1>2, <1>3, <1>4

LEMMA CreateStutters ==
  ASSUME IInv, NEW p \in Requests, CreateWallet(p) PROVE Simulated
<1>1. ~Settling(p)
  BY DEF Settling, CreateWallet
<1>2. CASE Quit(p, "error")
  BY <1>1, <1>2, ProceedStutters DEF Quit
<1>3. CASE /\ ~HasWallet(p)
           /\ wallets' = [s \in DOMAIN wallets \cup {call[p].seller} |->
                            IF s = call[p].seller THEN NewWallet ELSE wallets[s]]
           /\ GoTo(p, "creditSearch") /\ UNCHANGED <<receipts, call>>
  <2>1. \A s \in Sellers : Active(s)' = Active(s) /\ Held(s)' = Held(s)
    BY <1>3 DEF Active, Held, HasWallet, NewWallet
  <2>2. UNCHANGED <<ActiveColumn, HeldColumn>>
    BY <2>1 DEF ActiveColumn, HeldColumn
  <2>3. UNCHANGED Owed
    BY <1>1, <1>3, SameOwed DEF IInv
  <2> QED
    BY <1>3, <2>2, <2>3, SameEntries DEF Simulated, SaleVars
<1> QED
  BY <1>2, <1>3 DEF CreateWallet

LEMMA CreditIsCredit ==
  ASSUME IInv, NEW p \in Requests, CreditWrite(p) PROVE Simulated
<1>1. pc[p] = "creditWrite" /\ call[p].op = "credit" /\ ~Settling(p)
  BY DEF CreditWrite, IInv, OpsOK, OpAt, Settling
<1>2. CASE Quit(p, "conflict") \/ Quit(p, "ok")
  BY <1>1, <1>2, ProceedStutters DEF Quit
<1>3. CASE /\ VersionMatches(p) /\ ~Recorded(p) /\ StoreWallet(p)
           /\ receipts' = receipts \cup {ReceiptOf(p)}
           /\ GoTo(p, "ok") /\ UNCHANGED call
  <2> DEFINE id == ReceiptOf(p).ref
             s == call[p].seller
             m == call[p].amount
  <2>1. /\ s \in Sellers /\ 0 < m /\ UNCHANGED ActiveColumn
        /\ HeldColumn' = [HeldColumn EXCEPT ![s] = @ + m]
    BY <1>1, <1>3, ColumnsMove
  <2>2. /\ id \in Correlations \cup Orders \cup Requests
        /\ m \in {c.amount : c \in Calls}
    BY <1>1, Refs DEF IInv, TypeOK
  <2>3. /\ ReceiptOf(p).type = "SELLER_ESCROW" /\ Type(p) = "SELLER_ESCROW"
        /\ EntryOf(ReceiptOf(p)) = Contract!Entry(id, s, m)
    BY <1>1 DEF ReceiptOf, Type, EntryOf, Contract!Entry
  <2>4. /\ Entries("SELLER_ESCROW")' = Entries("SELLER_ESCROW") \cup {Contract!Entry(id, s, m)}
        /\ UNCHANGED Entries("SELLER_ESCROW_SETTLE")
    BY <1>3, <2>3, EntriesAdd
  <2>5. Contract!Unused(id, Entries("SELLER_ESCROW"))
    BY <1>1, <1>3, <2>3, RefIsNew DEF Contract!Unused, Entries, EntryOf
  <2>6. UNCHANGED Owed
    BY <1>1, <1>3, SameOwed DEF IInv
  <2>7. Contract!Credit(id, s, m)
    BY <2>1, <2>4, <2>5, <2>6 DEF Contract!Credit
  <2> QED
    BY <2>1, <2>2, <2>7 DEF Simulated, Contract!Next
<1> QED
  BY <1>2, <1>3 DEF CreditWrite

LEMMA LedgerIsClaim ==
  ASSUME ClaimInv, NEW p \in Requests, MutateLedger(p) PROVE Simulated
<1>1. pc[p] = "ledger" /\ call[p].op = "payout" /\ ~Settling(p)
  BY DEF MutateLedger, ClaimInv, IInv, OpsOK, OpAt, Settling
<1>2. CASE Quit(p, "error")
  BY <1>1, <1>2, ProceedStutters DEF Quit, ClaimInv
<1>3. CASE /\ ~Recorded(p) /\ receipts' = receipts \cup {ReceiptOf(p)}
           /\ GoTo(p, "update") /\ UNCHANGED <<wallets, call>>
  <2> DEFINE id == ReceiptOf(p).ref
             s == call[p].seller
             m == call[p].amount
  <2>1. /\ s \in Sellers /\ 0 < m
        /\ id \in Correlations \cup Orders \cup Requests
        /\ m \in {c.amount : c \in Calls}
    <3>1. m \in Nat /\ m > 0 /\ s \in Sellers
      BY <1>1, CallType DEF ClaimInv, IInv, TypeOK, Allowed
    <3> QED
      BY <1>1, <3>1, Refs DEF ClaimInv, IInv, TypeOK
  <2>2. /\ ReceiptOf(p).type = "SELLER_ESCROW_SETTLE" /\ Type(p) = "SELLER_ESCROW_SETTLE"
        /\ EntryOf(ReceiptOf(p)) = Contract!Entry(id, s, m)
    BY <1>1 DEF ReceiptOf, Type, EntryOf, Contract!Entry
  <2>3. /\ Entries("SELLER_ESCROW_SETTLE")' =
             Entries("SELLER_ESCROW_SETTLE") \cup {Contract!Entry(id, s, m)}
        /\ UNCHANGED Entries("SELLER_ESCROW")
    BY <1>3, <2>2, EntriesAdd
  <2>4. Contract!Unused(id, Entries("SELLER_ESCROW_SETTLE"))
    BY <1>1, <1>3, <2>2, RefIsNew DEF Contract!Unused, Entries, EntryOf, ClaimInv
  <2>5. Owed' = Owed \cup {Contract!Entry(id, s, m)}
    <3>1. \A q \in Requests : /\ Settling(q)' <=> Settling(q) \/ q = p
                              /\ EntryOf(ReceiptOf(q))' = EntryOf(ReceiptOf(q))
      BY <1>1, <1>3 DEF Settling, GoTo, ClaimInv, IInv, TypeOK, EntryOf, ReceiptOf, Type
    <3> QED
      BY <2>2, <3>1 DEF Owed
  <2>6. Contract!Claim(id, s, m)
    BY <1>3, <2>1, <2>3, <2>4, <2>5, SameColumns DEF Contract!Claim
  <2> QED
    BY <2>1, <2>6 DEF Simulated, Contract!Next
<1> QED
  BY <1>2, <1>3 DEF MutateLedger

(* The handler ends between its two writes, without the second. *)
LEMMA EndIsForfeit ==
  ASSUME ClaimInv, NEW p \in Requests, NEW label \in Outcomes, GoTo(p, label),
         UNCHANGED <<wallets, receipts, call>>
  PROVE  Simulated
<1>1. UNCHANGED <<ActiveColumn, HeldColumn, Entries("SELLER_ESCROW"),
                  Entries("SELLER_ESCROW_SETTLE")>>
  BY SameColumns, SameEntries
<1>2. CASE Settling(p)
  <2>1. Contract!Forfeit(EntryOf(ReceiptOf(p))) /\ EntryOf(ReceiptOf(p)) \in Owed
    BY <1>1, <1>2, OwedDrops DEF Contract!Forfeit
  <2> QED
    BY <2>1 DEF Simulated, Contract!Next
<1>3. CASE ~Settling(p)
  <2>1. UNCHANGED Owed
    BY <1>3, SameOwed DEF Outcomes, ClaimInv, IInv
  <2> QED
    BY <1>1, <2>1 DEF Simulated, SaleVars
<1> QED
  BY <1>2, <1>3

LEMMA UpdateIsSettle ==
  ASSUME ClaimInv, NEW p \in Requests, MutateUpdate(p) PROVE Simulated
<1>1. pc[p] = "update" /\ call[p].op \in {"payout", "withdraw"}
  BY DEF MutateUpdate, ClaimInv, IInv, OpsOK, OpAt
<1>2. CASE Quit(p, "conflict")
  BY <1>2, EndIsForfeit DEF Quit, Proceed, Outcomes
<1>3. CASE /\ VersionMatches(p) /\ StoreWallet(p) /\ GoTo(p, "ok")
           /\ UNCHANGED <<receipts, call>>
  <2> DEFINE e == EntryOf(ReceiptOf(p))
             s == call[p].seller
             m == call[p].amount
  <2>1. e.seller = s /\ e.amount = m
    BY DEF EntryOf, ReceiptOf
  <2>2. CASE call[p].op = "payout"
    <3>1. /\ m <= HeldColumn[s]
          /\ ActiveColumn' = [ActiveColumn EXCEPT ![s] = @ + m]
          /\ HeldColumn' = [HeldColumn EXCEPT ![s] = @ + -m]
      BY <1>1, <1>3, <2>2, ColumnsMove DEF ClaimInv
    <3>2. e \in Owed /\ Owed' = Owed \ {e}
      BY <1>1, <1>3, <2>2, OwedDrops DEF Settling, Outcomes
    <3>3. Contract!Settle(e)
      BY <1>3, <2>1, <3>1, <3>2, SameEntries DEF Contract!Settle
    <3> QED
      BY <3>2, <3>3 DEF Simulated, Contract!Next
  <2>3. CASE call[p].op = "withdraw"
    <3>1. /\ s \in Sellers /\ 0 < m /\ m <= ActiveColumn[s] /\ UNCHANGED HeldColumn
          /\ ActiveColumn' = [ActiveColumn EXCEPT ![s] = @ + -m]
      BY <1>1, <1>3, <2>3, ColumnsMove DEF ClaimInv
    <3>2. UNCHANGED Owed
      BY <1>3, <2>3, SameOwed DEF Settling, ClaimInv, IInv
    <3>3. Contract!Withdraw(s, m)
      BY <1>3, <3>1, <3>2, SameEntries DEF Contract!Withdraw
    <3>4. m \in {c.amount : c \in Calls}
      BY DEF ClaimInv, IInv, TypeOK
    <3> QED
      BY <3>1, <3>3, <3>4 DEF Simulated, Contract!Next
  <2> QED
    BY <1>1, <2>2, <2>3
<1> QED
  BY <1>2, <1>3 DEF MutateUpdate

LEMMA NextSimulated == ClaimInv /\ [Next]_vars => Simulated
<1> SUFFICES ASSUME ClaimInv, [Next]_vars PROVE Simulated
  OBVIOUS
<1>1. CASE UNCHANGED vars
  <2>1. UNCHANGED Owed
    BY <1>1 DEF vars, Owed, Settling, EntryOf, ReceiptOf, Type
  <2> QED
    BY <1>1, <2>1, SameColumns, SameEntries DEF vars, Simulated, SaleVars
<1>2. ASSUME NEW p \in Requests, Abort(p) PROVE Simulated
  BY <1>2, EndIsForfeit DEF Abort, Outcomes
<1> QED
  BY <1>1, <1>2, ReadsStutter, CreateStutters, CreditIsCredit, LedgerIsClaim, UpdateIsSettle
  DEF Next, ClaimInv

LEMMA InitSimulated == Init => Contract!Init
<1> SUFFICES ASSUME Init PROVE Contract!Init
  OBVIOUS
<1>1. \A s \in Sellers : Active(s) = 0 /\ Held(s) = 0
  BY DEF Init, Active, Held
<1>2. Owed = {}
  BY DEF Init, Owed, Settling
<1> QED
  BY <1>1, <1>2 DEF Init, Contract!Init, ActiveColumn, HeldColumn, Entries

(* The handlers implement SaleContract for any number of repeated, overlapping and dropped
   calls: a sale is recorded and credited in one step, an order's money moves at most once. *)
THEOREM SaleRefinement == Spec => ImplementsContract
<1>1. ClaimInv /\ [Next]_vars => [Contract!Next]_SaleVars
  BY NextSimulated DEF Simulated
<1>2. Contract!Spec <=> Contract!Init /\ [][Contract!Next]_SaleVars
  BY DEF Contract!Spec, Contract!vars, SaleVars
<1> QED
  BY <1>1, <1>2, InitClaims, NextClaims, InitSimulated, PTL DEF Spec, ImplementsContract
=============================================================================
