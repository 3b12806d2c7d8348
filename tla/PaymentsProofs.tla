---------------------------- MODULE PaymentsProofs ----------------------------
(***************************************************************************)
(* Proofs about Payments for every set of calls, and every number of       *)
(* requests, wallets, keys and payments, and that it implements            *)
(* PaymentContract.                                                        *)
(***************************************************************************)
EXTENDS Payments, SumTheorems, TLAPS

-----------------------------------------------------------------------------
(* Type correctness. *)

LEMMA OperationType ==
  ASSUME NEW t \in {"TOP_UP", "WITHDRAW"}, NEW w \in Wallet, NEW a \in Nat, Allowed(t, w, a)
  PROVE  Stored(Apply(t, w, a)) \in Wallet
<1>1. w.active \in Nat /\ w.held \in Nat
  BY DEF Wallet
<1>2. w.active + ActiveMove(t, a) \in Nat
  BY <1>1 DEF Allowed, ActiveMove, CreditsActive, DebitsActive
<1>3. w.held + HeldMove(t, a) \in Nat
  BY <1>1 DEF HeldMove, CreditsHeld, DebitsHeld
<1>4. Apply(t, w, a) \in Wallet
  BY <1>2, <1>3 DEF Apply, Wallet
<1> QED
  BY <1>4 DEF Stored, Wallet

LEMMA SpellingsType == \A method \in DOMAIN Spellings : Spellings[method] \in Channel
BY DEF Spellings, Channel

LEMMA CallOf ==
  ASSUME TypeOK, NEW p \in Requests
  PROVE  /\ call[p].op = "intent" => call[p] \in IntentCall
         /\ call[p].op = "status" => call[p] \in StatusCall
         /\ call[p].op = "return" => call[p] \in ReturnCall
         /\ call[p].op = "sync" => call[p] \in SyncCall
         /\ call[p].op = "get" => call[p] \in GetCall
         /\ call[p].op = "detail" => call[p] \in DetailCall
         /\ call[p].op \in {"TOP_UP", "WITHDRAW"} => call[p] \in MutateCall
<1>1. call[p] \in IntentCall \cup StatusCall \cup ReturnCall \cup SyncCall \cup GetCall
                    \cup DetailCall \cup MutateCall
  BY CallsAssumption DEF TypeOK
<1> QED
  BY <1>1 DEF IntentCall, StatusCall, ReturnCall, SyncCall, GetCall, DetailCall, MutateCall

(* A handler's step leaves the others where they are. *)
LEMMA OthersKeepOK ==
  ASSUME TypeOK, NEW p \in Requests, NEW q \in Requests \ {p}, call' = call,
         pc'[q] = pc[q], snap'[q] = snap[q], apply'[q] = apply[q],
         DOMAIN payments \subseteq DOMAIN payments'
  PROVE  HandlerOK(q)'
BY DEF TypeOK, HandlerOK

(* A handler that goes on, or returns, with the tables and its locals as they are. *)
LEMMA TypeProceed ==
  ASSUME TypeOK, NEW p \in Requests,
         NEW l \in {"new", "charge", "insert", "relookup", "fetch", "applyRead", "applyWrite",
                    "unpaid", "list", "update"} \cup Outcomes,
         GoTo(p, l), UNCHANGED <<tables, locals, crashes>>, HandlerOK(p)'
  PROVE  TypeOK'
<1>1. \A q \in Requests \ {p} : HandlerOK(q)'
  BY OthersKeepOK DEF GoTo, TypeOK, tables, locals
<1> QED
  BY <1>1 DEF GoTo, TypeOK, tables, locals

LEMMA TypeQuit ==
  ASSUME TypeOK, NEW p \in Requests, NEW o \in Outcomes, Quit(p, o)
  PROVE  TypeOK'
<1>1. HandlerOK(p)'
  BY DEF Quit, GoTo, TypeOK, HandlerOK, Outcomes
<1> QED
  BY <1>1, TypeProceed DEF Quit

LEMMA TypeAnswer ==
  ASSUME TypeOK, NEW p \in Requests, NEW row \in Payment, Answer(p, row)
  PROVE  TypeOK'
<1>1. pc' = [pc EXCEPT ![p] = "list"] \/ pc' = [pc EXCEPT ![p] = "ok"]
  BY DEF Answer, Return, GoTo
<1>2. \A q \in Requests : HandlerOK(q)'
  BY <1>1, OthersKeepOK DEF Answer, TypeOK, tables, HandlerOK
<1> QED
  BY <1>1, <1>2 DEF Answer, Return, TypeOK, tables, Outcomes

LEMMA TypeApplyKnown ==
  ASSUME TypeOK, NEW p \in Requests, NEW id \in PaymentIds, NEW s, ApplyKnown(p, id, s)
  PROVE  TypeOK'
<1>1. CASE Quit(p, "error")
  BY <1>1, TypeQuit DEF Outcomes
<1>2. CASE s \in Statuses /\ ApplyTo(p, id, s)
           /\ UNCHANGED <<tables, call, snap, history, queue, shown, crashes>>
  <2>1. \A q \in Requests : HandlerOK(q)'
    BY <1>2, OthersKeepOK DEF ApplyTo, GoTo, TypeOK, tables, HandlerOK
  <2> QED
    BY <1>2, <2>1 DEF ApplyTo, GoTo, TypeOK, tables
<1> QED
  BY <1>1, <1>2 DEF ApplyKnown

LEMMA TypeIntent ==
  ASSUME TypeOK, NEW p \in Requests,
         IntentLookup(p) \/ IntentCharge(p) \/ IntentInsert(p) \/ IntentRelookup(p)
  PROVE  TypeOK'
<1>1. CASE IntentLookup(p)
  <2>1. call[p] \in IntentCall
    BY <1>1, CallOf DEF IntentLookup
  <2>2. CASE Quit(p, "error")
    BY <2>2, TypeQuit DEF Outcomes
  <2>3. ASSUME NEW id \in DOMAIN payments, Answer(p, payments[id]) PROVE TypeOK'
    BY <2>3, TypeAnswer DEF TypeOK
  <2>4. CASE call[p].amount > 0 /\ Proceed(p, "charge")
    <3>1. HandlerOK(p)'
      BY <2>1, <2>4 DEF Proceed, GoTo, TypeOK, HandlerOK, locals
    <3> QED
      BY <2>4, <3>1, TypeProceed DEF Proceed
  <2> QED
    BY <1>1, <2>2, <2>3, <2>4 DEF IntentLookup, ByKey
<1>2. CASE IntentCharge(p)
  <2>1. call[p] \in IntentCall /\ call[p].amount > 0
    BY <1>2 DEF IntentCharge, TypeOK, HandlerOK
  <2>2. PICK result \in Charge(call[p].method) :
          /\ charges' = IF result.charged
                        THEN charges \cup {Order(PaymentIdOf(p), call[p].amount, ChannelOf(p))}
                        ELSE charges
          /\ GoTo(p, IF result.page THEN "insert" ELSE "error")
    BY <1>2 DEF IntentCharge
  <2>3. result.charged \/ result.page => Parses(call[p].method)
    BY <2>2 DEF Charge
  <2>4. /\ PaymentIdOf(p) \in PaymentIds /\ call[p].amount \in Nat \ {0}
        /\ Parses(call[p].method) => ChannelOf(p) \in Channel
    BY <2>1, SpellingsType DEF PaymentIdOf, PaymentIds, IntentCall, ChannelOf, Parses
  <2>5. charges' \subseteq [order : PaymentIds, amount : Nat \ {0}, channel : Channel]
    BY <2>2, <2>3, <2>4 DEF Order, TypeOK
  <2>6. \A q \in Requests : HandlerOK(q)'
    BY <1>2, <2>1, <2>2, <2>3, OthersKeepOK DEF IntentCharge, GoTo, TypeOK, HandlerOK, locals
  <2> QED
    BY <1>2, <2>2, <2>5, <2>6 DEF IntentCharge, GoTo, TypeOK, locals, Outcomes
<1>3. CASE IntentInsert(p)
  <2>1. call[p] \in IntentCall /\ call[p].amount > 0 /\ Parses(call[p].method)
    BY <1>3 DEF IntentInsert, TypeOK, HandlerOK
  <2>2. CASE Proceed(p, "relookup")
    <3>1. HandlerOK(p)'
      BY <2>1, <2>2 DEF Proceed, GoTo, TypeOK, HandlerOK, locals
    <3> QED
      BY <2>2, <3>1, TypeProceed DEF Proceed
  <2>3. CASE /\ InsertPayment(NewPayment(p)) /\ Return(p, NewPayment(p))
             /\ UNCHANGED <<wallets, receipts, charges, old, call, snap, apply, history,
                            queue, crashes>>
    <3>1. NewPayment(p) \in Payment /\ NewPayment(p).id \in PaymentIds
      BY <2>1, SpellingsType DEF NewPayment, Payment, PaymentIdOf, PaymentIds, IntentCall,
         Statuses, ChannelOf, Parses
    <3>2. /\ DOMAIN payments' = DOMAIN payments \cup {NewPayment(p).id}
          /\ \A id \in DOMAIN payments' :
               payments'[id] = IF id = NewPayment(p).id THEN NewPayment(p) ELSE payments[id]
          /\ payments' \in [DOMAIN payments' -> Payment]
      BY <2>3, <3>1 DEF InsertPayment, TypeOK
    <3>3. /\ pc' = [pc EXCEPT ![p] = "list"] \/ pc' = [pc EXCEPT ![p] = "ok"]
          /\ shown' = [shown EXCEPT ![p] = @ \cup {NewPayment(p)}]
      BY <2>3 DEF Return, GoTo
    <3>4. \A q \in Requests : HandlerOK(q)'
      BY <2>3, <3>2, <3>3, OthersKeepOK DEF TypeOK, HandlerOK
    <3>5. \A id \in DOMAIN payments' : payments'[id].id = id
      BY <3>2 DEF TypeOK
    <3> QED
      BY <2>3, <3>1, <3>2, <3>3, <3>4, <3>5 DEF TypeOK, Outcomes
  <2> QED
    BY <1>3, <2>2, <2>3 DEF IntentInsert
<1>4. CASE IntentRelookup(p)
  BY <1>4, TypeAnswer DEF IntentRelookup, ByKey, TypeOK
<1> QED
  BY <1>1, <1>2, <1>3, <1>4

LEMMA TypeStatus ==
  ASSUME TypeOK, NEW p \in Requests, StatusStart(p) \/ SyncRead(p) \/ SyncFetch(p)
  PROVE  TypeOK'
<1>1. CASE StatusStart(p)
  <2>1. call[p].payment \in PaymentIds
    BY <1>1, CallOf DEF StatusStart, StatusCall, ReturnCall
  <2> QED
    BY <1>1, <2>1, TypeApplyKnown DEF StatusStart
<1>2. CASE SyncRead(p)
  <2>1. call[p] \in SyncCall /\ call[p].payment \in PaymentIds
    BY <1>2, CallOf DEF SyncRead, SyncCall
  <2>2. CASE Proceed(p, "fetch")
    <3>1. HandlerOK(p)'
      BY <2>1, <2>2 DEF Proceed, GoTo, TypeOK, HandlerOK, locals
    <3> QED
      BY <2>2, <3>1, TypeProceed DEF Proceed
  <2>3. CASE Quit(p, "error")
    BY <2>3, TypeQuit DEF Outcomes
  <2>4. CASE call[p].payment \in DOMAIN payments /\ Answer(p, payments[call[p].payment])
    BY <2>4, TypeAnswer DEF TypeOK
  <2>5. CASE ApplyKnown(p, call[p].payment, "EXPIRED")
    BY <2>1, <2>5, TypeApplyKnown
  <2> QED
    BY <1>2, <2>2, <2>3, <2>4, <2>5 DEF SyncRead
<1>3. CASE SyncFetch(p)
  <2>1. call[p].payment \in PaymentIds
    BY <1>3 DEF SyncFetch, TypeOK, HandlerOK, SyncCall
  <2> QED
    BY <1>3, <2>1, TypeQuit, TypeApplyKnown DEF SyncFetch, Outcomes
<1> QED
  BY <1>1, <1>2, <1>3

(* The one write of apply_payment_status, named for the proofs. *)
Settles(p) ==
  LET id == apply[p].payment
      status == apply[p].status
      row == [payments[id] EXCEPT !.status = status] IN
  /\ pc[p] = "applyWrite" /\ StillPending(id)
  /\ Receipt(id, status) \notin receipts
  /\ payments' = [payments EXCEPT ![id] = row]
  /\ wallets' = IF status = "PAID" THEN Credited(row.wallet, row.amount) ELSE wallets
  /\ receipts' = receipts \cup {Receipt(id, status)}
  /\ Return(p, row)
  /\ UNCHANGED <<charges, old, call, snap, apply, history, queue, crashes>>

LEMMA ApplyWriteCases ==
  ASSUME NEW p \in Requests, ApplyWrite(p)
  PROVE  Settles(p) \/ Quit(p, "error") \/ Answer(p, payments[apply[p].payment])
BY DEF ApplyWrite, Settles, Beaten

LEMMA SettlesRow ==
  ASSUME TypeOK, NEW p \in Requests, Settles(p)
  PROVE  /\ apply[p].payment \in DOMAIN payments
         /\ apply[p].status \in Statuses \ {"PENDING"}
         /\ payments[apply[p].payment] \in Payment
         /\ DOMAIN payments' = DOMAIN payments
         /\ \A id \in DOMAIN payments :
              payments'[id] = IF id = apply[p].payment
                              THEN [payments[id] EXCEPT !.status = apply[p].status]
                              ELSE payments[id]
         /\ [payments[apply[p].payment] EXCEPT !.status = apply[p].status] \in Payment
         /\ [payments[apply[p].payment] EXCEPT !.status = apply[p].status].id =
              apply[p].payment
<1>1. /\ apply[p].payment \in DOMAIN payments
      /\ apply[p].status \in Statuses \ {"PENDING"}
  BY DEF Settles, TypeOK, HandlerOK
<1>2. payments[apply[p].payment] \in Payment /\ payments[apply[p].payment].id = apply[p].payment
  BY <1>1 DEF TypeOK
<1>3. [payments[apply[p].payment] EXCEPT !.status = apply[p].status] \in Payment
  BY <1>1, <1>2 DEF Payment
<1>4. [payments[apply[p].payment] EXCEPT !.status = apply[p].status].id = apply[p].payment
  BY <1>2 DEF Payment
<1> QED
  BY <1>1, <1>2, <1>3, <1>4 DEF Settles, TypeOK

LEMMA TypeSettles ==
  ASSUME TypeOK, NEW p \in Requests, Settles(p)
  PROVE  TypeOK'
<1> DEFINE id == apply[p].payment
           status == apply[p].status
           row == [payments[id] EXCEPT !.status = status]
<1>1. wallets' \in [Wallets -> Wallet]
  <2>1. row.wallet \in Wallets /\ row.amount \in Nat \ {0}
    BY SettlesRow DEF Payment
  <2>2. Stored(Apply("TOP_UP", wallets[row.wallet], row.amount)) \in Wallet
    <3>1. wallets[row.wallet] \in Wallet
      BY <2>1 DEF TypeOK
    <3>2. Allowed("TOP_UP", wallets[row.wallet], row.amount)
      BY <2>1 DEF Allowed, DebitsActive, DebitsHeld
    <3> QED
      BY <2>1, <3>1, <3>2, OperationType
  <2> QED
    BY <2>1, <2>2 DEF Settles, Credited, TypeOK
<1>2. payments' \in [DOMAIN payments' -> Payment] /\ \A i \in DOMAIN payments' : payments'[i].id = i
  BY SettlesRow DEF Settles, TypeOK
<1>3. receipts' \subseteq [payment : DOMAIN payments', type : Range(ReceiptType)]
  <2>1. Receipt(id, status) \in [payment : DOMAIN payments, type : Range(ReceiptType)]
    BY SettlesRow DEF Receipt, ReceiptType, Range, Statuses
  <2> QED
    BY <2>1, SettlesRow DEF Settles, TypeOK
<1>4. /\ pc' = [pc EXCEPT ![p] = "list"] \/ pc' = [pc EXCEPT ![p] = "ok"]
      /\ shown' = [shown EXCEPT ![p] = @ \cup {row}]
  BY DEF Settles, Return, GoTo
<1>5. \A q \in Requests : HandlerOK(q)'
  BY <1>4, SettlesRow, OthersKeepOK DEF Settles, TypeOK, HandlerOK
<1>6. shown' \in [Requests -> SUBSET Payment]
  BY <1>4, SettlesRow DEF TypeOK
<1>7. /\ DOMAIN payments' = DOMAIN payments
      /\ UNCHANGED <<charges, old, call, snap, apply, history, queue, crashes>>
  BY SettlesRow DEF Settles
<1> QED
  BY <1>1, <1>2, <1>3, <1>4, <1>5, <1>6, <1>7 DEF TypeOK, Outcomes

LEMMA TypeApply ==
  ASSUME TypeOK, NEW p \in Requests, ApplyRead(p) \/ ApplyWrite(p)
  PROVE  TypeOK'
<1>1. CASE ApplyRead(p)
  <2>1. CASE Quit(p, "error")
    BY <2>1, TypeQuit DEF Outcomes
  <2>2. CASE apply[p].payment \in DOMAIN payments /\ Answer(p, payments[apply[p].payment])
    BY <2>2, TypeAnswer DEF TypeOK
  <2>3. CASE /\ apply[p].payment \in DOMAIN payments /\ apply[p].status # "PENDING"
             /\ Proceed(p, "applyWrite")
    <3>1. HandlerOK(p)'
      BY <2>3 DEF Proceed, GoTo, TypeOK, HandlerOK, locals, tables
    <3> QED
      BY <2>3, <3>1, TypeProceed DEF Proceed
  <2> QED
    BY <1>1, <2>1, <2>2, <2>3 DEF ApplyRead
<1>2. CASE ApplyWrite(p)
  <2>1. payments[apply[p].payment] \in Payment
    BY <1>2 DEF ApplyWrite, TypeOK, HandlerOK
  <2> QED
    BY <1>2, <2>1, ApplyWriteCases, TypeSettles, TypeQuit, TypeAnswer DEF Outcomes
<1> QED
  BY <1>1, <1>2

LEMMA TypeList ==
  ASSUME TypeOK, NEW p \in Requests,
         GetRead(p) \/ DetailHistory(p) \/ DetailUnpaid(p) \/ ListNext(p) \/ ListDone(p)
  PROVE  TypeOK'
<1>1. CASE GetRead(p)
  <2>1. CASE Quit(p, "error")
    BY <2>1, TypeQuit DEF Outcomes
  <2>2. CASE /\ call[p].payment \in DOMAIN payments
             /\ queue' = [queue EXCEPT ![p] = {payments[call[p].payment]}]
             /\ GoTo(p, "list")
             /\ UNCHANGED <<tables, call, snap, apply, history, shown, crashes>>
    <3>1. \A q \in Requests : HandlerOK(q)'
      BY <2>2, OthersKeepOK DEF GoTo, TypeOK, HandlerOK, tables
    <3> QED
      BY <2>2, <3>1 DEF GoTo, TypeOK, tables
  <2> QED
    BY <1>1, <2>1, <2>2 DEF GetRead
<1>2. CASE DetailHistory(p)
  <2>1. \A q \in Requests : HandlerOK(q)'
    BY <1>2, OthersKeepOK DEF DetailHistory, GoTo, TypeOK, HandlerOK, tables
  <2> QED
    BY <1>2, <2>1 DEF DetailHistory, GoTo, TypeOK, tables
<1>3. CASE DetailUnpaid(p)
  <2>1. \A q \in Requests : HandlerOK(q)'
    BY <1>3, OthersKeepOK DEF DetailUnpaid, GoTo, TypeOK, HandlerOK, tables
  <2>2. Unpaid(call[p].wallet) \subseteq Payment
    BY DEF Unpaid, TypeOK, Range
  <2> QED
    BY <1>3, <2>1, <2>2 DEF DetailUnpaid, GoTo, TypeOK, tables
<1>4. CASE ListNext(p)
  <2>1. PICK row \in queue[p] :
          /\ queue' = [queue EXCEPT ![p] = @ \ {row}]
          /\ UNCHANGED <<tables, call, snap, history, crashes>>
          /\ \/ ApplyTo(p, row.id, "EXPIRED") /\ UNCHANGED shown
             \/ shown' = [shown EXCEPT ![p] = @ \cup {row}] /\ UNCHANGED <<pc, apply>>
    BY <1>4 DEF ListNext
  <2>2. row \in Payment /\ row.id \in PaymentIds
    BY <2>1 DEF TypeOK, Payment
  <2>3. CASE ApplyTo(p, row.id, "EXPIRED") /\ UNCHANGED shown
    <3>1. \A q \in Requests : HandlerOK(q)'
      BY <2>1, <2>2, <2>3, OthersKeepOK DEF ApplyTo, GoTo, TypeOK, HandlerOK, tables
    <3> QED
      BY <2>1, <2>2, <2>3, <3>1 DEF ApplyTo, GoTo, TypeOK, tables, Statuses
  <2>4. CASE shown' = [shown EXCEPT ![p] = @ \cup {row}] /\ UNCHANGED <<pc, apply>>
    BY <2>1, <2>2, <2>4 DEF TypeOK, HandlerOK, tables
  <2> QED
    BY <2>1, <2>3, <2>4
<1>5. CASE ListDone(p)
  <2>1. \A q \in Requests : HandlerOK(q)'
    BY <1>5, OthersKeepOK DEF ListDone, GoTo, TypeOK, HandlerOK, tables
  <2> QED
    BY <1>5, <2>1 DEF ListDone, GoTo, TypeOK, tables, Outcomes
<1> QED
  BY <1>1, <1>2, <1>3, <1>4, <1>5

LEMMA TypeMutate ==
  ASSUME TypeOK, NEW p \in Requests, MutateRead(p) \/ MutateUpdate(p)
  PROVE  TypeOK'
<1>1. CASE MutateRead(p)
  <2>1. call[p] \in MutateCall /\ wallets[call[p].wallet] \in Wallet
    BY <1>1, CallOf DEF MutateRead, MutateCall, TypeOK
  <2>2. CASE Quit(p, "error")
    BY <2>2, TypeQuit DEF Outcomes
  <2>3. CASE /\ Allowed(call[p].op, wallets[call[p].wallet], call[p].amount)
             /\ snap' = [snap EXCEPT ![p] = wallets[call[p].wallet]]
             /\ GoTo(p, "update")
             /\ UNCHANGED <<tables, call, apply, history, queue, shown, crashes>>
    <3>1. \A q \in Requests : HandlerOK(q)'
      BY <2>1, <2>3, OthersKeepOK DEF GoTo, TypeOK, HandlerOK, tables
    <3> QED
      BY <2>1, <2>3, <3>1 DEF GoTo, TypeOK, tables
  <2> QED
    BY <1>1, <2>2, <2>3 DEF MutateRead
<1>2. CASE MutateUpdate(p)
  <2>1. CASE Quit(p, "conflict")
    BY <2>1, TypeQuit DEF Outcomes
  <2>2. CASE /\ wallets' = [wallets EXCEPT ![call[p].wallet] =
                              Stored(Apply(call[p].op, snap[p], call[p].amount))]
             /\ GoTo(p, "ok")
             /\ UNCHANGED <<payments, receipts, charges, old, locals, crashes>>
    <3>1. call[p] \in MutateCall /\ Allowed(call[p].op, snap[p], call[p].amount)
      BY <1>2 DEF MutateUpdate, TypeOK, HandlerOK
    <3>2. Stored(Apply(call[p].op, snap[p], call[p].amount)) \in Wallet
      BY <3>1, OperationType DEF TypeOK, MutateCall
    <3>3. \A q \in Requests : HandlerOK(q)'
      BY <2>2, OthersKeepOK DEF GoTo, TypeOK, HandlerOK, locals
    <3> QED
      BY <2>2, <3>2, <3>3 DEF GoTo, TypeOK, locals, Outcomes
  <2> QED
    BY <1>2, <2>1, <2>2 DEF MutateUpdate
<1> QED
  BY <1>1, <1>2

LEMMA TypeInit == Init => TypeOK
<1> SUFFICES ASSUME Init PROVE TypeOK
  OBVIOUS
<1>1. NewWallet \in Wallet /\ [NewWallet EXCEPT !.active = InitialActive] \in Wallet
  BY BoundsAssumption DEF NewWallet, Wallet
<1>2. \A id \in OpenPayments, w \in Wallets :
        OpenPayment(id, w) \in Payment /\ OpenPayment(id, w).id = id
  BY BoundsAssumption DEF OpenPayment, Payment, PaymentIds, Statuses, Channel
<1>3. /\ DOMAIN payments \subseteq PaymentIds
      /\ payments \in [DOMAIN payments -> Payment]
      /\ \A id \in DOMAIN payments : payments[id].id = id
  BY <1>2 DEF Init, PaymentIds
<1>4. NothingToApply \in [payment : PaymentIds \cup {NoKey}, status : Statuses]
  BY DEF NothingToApply, Statuses
<1>5. charges \subseteq [order : PaymentIds, amount : Nat \ {0}, channel : Channel]
  BY BoundsAssumption DEF Init, PaymentIds, Order, Channel
<1>6. \A p \in Requests : HandlerOK(p)
  BY DEF Init, HandlerOK
<1> QED
  BY <1>1, <1>3, <1>4, <1>5, <1>6, BoundsAssumption DEF Init, TypeOK

LEMMA TypeStep == TypeOK /\ [Next]_vars => TypeOK'
<1> SUFFICES ASSUME TypeOK, [Next]_vars PROVE TypeOK'
  OBVIOUS
<1>1. ASSUME NEW p \in Requests, Abort(p) PROVE TypeOK'
  <2>1. \A q \in Requests : HandlerOK(q)'
    BY <1>1, OthersKeepOK DEF Abort, GoTo, TypeOK, HandlerOK, tables, locals, Outcomes
  <2> QED
    BY <1>1, <2>1, BoundsAssumption DEF Abort, GoTo, TypeOK, tables, locals, Outcomes
<1>2. ASSUME NEW id \in PaymentIds, GrowOld(id) PROVE TypeOK'
  BY <1>2 DEF GrowOld, TypeOK, HandlerOK, locals
<1>3. CASE UNCHANGED vars
  BY <1>3 DEF vars, TypeOK, HandlerOK, tables, locals
<1> QED
  BY <1>1, <1>2, <1>3, TypeIntent, TypeStatus, TypeApply, TypeList, TypeMutate DEF Next

(* Every reachable state is type correct; a handler about to settle a payment has
   found it stored, and one about to write a wallet was allowed to. *)
THEOREM TypeCorrect == Spec => []TypeOK
BY TypeInit, TypeStep, PTL DEF Spec

-----------------------------------------------------------------------------
(* What changes table wallet_payment_intents: an insert under a new id, and the
   settling of one payment that was PENDING. *)

Inserts(p) ==
  /\ pc[p] = "insert"
  /\ PaymentIdOf(p) \notin DOMAIN payments
  /\ InsertPayment(NewPayment(p)) /\ Return(p, NewPayment(p))
  /\ UNCHANGED <<wallets, receipts, charges, old, call, snap, apply, history, queue, crashes>>

LEMMA InsertsRow ==
  ASSUME NEW p \in Requests, Inserts(p)
  PROVE  /\ NewPayment(p).id = PaymentIdOf(p)
         /\ NewPayment(p).amount = call[p].amount /\ NewPayment(p).channel = ChannelOf(p)
         /\ NewPayment(p).status = "PENDING"
         /\ DOMAIN payments' = DOMAIN payments \cup {PaymentIdOf(p)}
         /\ \A id \in DOMAIN payments' :
              payments'[id] = IF id = PaymentIdOf(p) THEN NewPayment(p) ELSE payments[id]
BY DEF Inserts, InsertPayment, NewPayment

LEMMA WhoWrites ==
  ASSUME [Next]_vars
  PROVE  \/ UNCHANGED <<payments, receipts>>
         \/ \E p \in Requests : Inserts(p) \/ Settles(p)
<1>1. ASSUME NEW p \in Requests, IntentInsert(p)
      PROVE  UNCHANGED <<payments, receipts>> \/ Inserts(p)
  BY <1>1 DEF IntentInsert, Inserts, Proceed, tables
<1>2. ASSUME NEW p \in Requests, ApplyWrite(p)
      PROVE  UNCHANGED <<payments, receipts>> \/ Settles(p)
  BY <1>2, ApplyWriteCases DEF Quit, Answer, tables
<1>3. ASSUME NEW p \in Requests,
             \/ IntentLookup(p) \/ IntentCharge(p) \/ IntentRelookup(p)
             \/ StatusStart(p) \/ SyncRead(p) \/ SyncFetch(p) \/ ApplyRead(p)
      PROVE  UNCHANGED <<payments, receipts>>
  BY <1>3 DEF IntentLookup, IntentCharge, IntentRelookup, StatusStart, SyncRead, SyncFetch,
     ApplyRead, ApplyKnown, Quit, Proceed, Answer, tables
<1>4. ASSUME NEW p \in Requests,
             \/ GetRead(p) \/ DetailHistory(p) \/ DetailUnpaid(p) \/ ListNext(p) \/ ListDone(p)
             \/ MutateRead(p) \/ MutateUpdate(p) \/ Abort(p)
      PROVE  UNCHANGED <<payments, receipts>>
  BY <1>4 DEF GetRead, DetailHistory, DetailUnpaid, ListNext, ListDone, MutateRead,
     MutateUpdate, Abort, Quit, tables
<1> QED
  BY <1>1, <1>2, <1>3, <1>4 DEF Next, GrowOld, vars, tables

Final == \A id \in DOMAIN payments :
           payments[id].status # "PENDING" => payments'[id] = payments[id]

LEMMA FinalStep ==
  ASSUME TypeOK, [Next]_vars
  PROVE  Final
<1>1. CASE UNCHANGED <<payments, receipts>>
  BY <1>1 DEF Final
<1>2. ASSUME NEW p \in Requests, Inserts(p) PROVE Final
  BY <1>2, InsertsRow DEF Inserts, Final
<1>3. ASSUME NEW p \in Requests, Settles(p) PROVE Final
  BY <1>3, SettlesRow DEF Settles, StillPending, Final
<1> QED
  BY <1>1, <1>2, <1>3, WhoWrites

(* A payment that is PAID, FAILED or EXPIRED stays so, however many of the five ways
   into apply_payment_status have found it PENDING: the second conditional UPDATE finds
   no row. *)
THEOREM SettledForGood == Spec => PaymentFinality
<1>1. TypeOK /\ [Next]_vars => [Final]_vars
  BY FinalStep
<1>2. Spec => [][Final]_vars
  BY <1>1, TypeCorrect, PTL DEF Spec
<1> QED
  BY <1>2 DEF PaymentFinality, Final

-----------------------------------------------------------------------------
(* The receipts, row by row. *)
RowPerPayment ==
  \A id \in DOMAIN payments, type \in Range(ReceiptType) :
    [payment |-> id, type |-> type] \in receipts
      <=> payments[id].status # "PENDING" /\ type = ReceiptType[payments[id].status]

LEMMA RowsAreReceipts ==
  ASSUME TypeOK, RowPerPayment
  PROVE  ReceiptPerPayment
<1> SUFFICES ASSUME NEW id \in DOMAIN payments
             PROVE  {r.type : r \in {s \in receipts : s.payment = id}} =
                      IF payments[id].status = "PENDING" THEN {}
                      ELSE {ReceiptType[payments[id].status]}
  BY DEF ReceiptPerPayment
<1>1. \A r \in receipts : /\ r.type \in Range(ReceiptType)
                          /\ r = [payment |-> r.payment, type |-> r.type]
  BY DEF TypeOK
<1>2. payments[id].status # "PENDING" => ReceiptType[payments[id].status] \in Range(ReceiptType)
  BY DEF TypeOK, Payment, Statuses, ReceiptType, Range
<1>3. CASE payments[id].status = "PENDING"
  BY <1>1, <1>3 DEF RowPerPayment
<1>4. CASE payments[id].status # "PENDING"
  <2>1. [payment |-> id, type |-> ReceiptType[payments[id].status]] \in receipts
    BY <1>2, <1>4 DEF RowPerPayment
  <2>2. \A r \in receipts : r.payment = id => r.type = ReceiptType[payments[id].status]
    BY <1>1 DEF RowPerPayment
  <2> QED
    BY <1>4, <2>1, <2>2
<1> QED
  BY <1>3, <1>4

LEMMA RowPerPaymentStep == TypeOK /\ RowPerPayment /\ [Next]_vars => RowPerPayment'
<1> SUFFICES ASSUME TypeOK, RowPerPayment, [Next]_vars PROVE RowPerPayment'
  OBVIOUS
<1>1. CASE UNCHANGED <<payments, receipts>>
  BY <1>1 DEF RowPerPayment
<1>2. ASSUME NEW p \in Requests, Inserts(p) PROVE RowPerPayment'
  <2>1. \A type : [payment |-> PaymentIdOf(p), type |-> type] \notin receipts
    BY <1>2 DEF Inserts, TypeOK
  <2>2. receipts' = receipts
    BY <1>2 DEF Inserts
  <2>3. payments'[PaymentIdOf(p)].status = "PENDING"
    BY <1>2, InsertsRow
  <2>4. \A id \in DOMAIN payments : payments'[id] = payments[id]
    BY <1>2, InsertsRow DEF Inserts
  <2>5. DOMAIN payments' = DOMAIN payments \cup {PaymentIdOf(p)}
    BY <1>2, InsertsRow
  <2> QED
    BY <2>1, <2>2, <2>3, <2>4, <2>5 DEF RowPerPayment
<1>3. ASSUME NEW p \in Requests, Settles(p) PROVE RowPerPayment'
  <2> DEFINE it == apply[p].payment
             status == apply[p].status
  <2>1. receipts' = receipts \cup {[payment |-> it, type |-> ReceiptType[status]]}
    BY <1>3 DEF Settles, Receipt
  <2>2. payments[it].status = "PENDING" /\ status # "PENDING"
    BY <1>3, SettlesRow DEF Settles, StillPending
  <2>3. payments'[it].status = status
    BY <1>3, SettlesRow DEF Payment
  <2>4. ASSUME NEW id \in DOMAIN payments \ {it} PROVE payments'[id] = payments[id]
    BY <1>3, SettlesRow
  <2>5. ASSUME NEW id \in DOMAIN payments, NEW type \in Range(ReceiptType)
        PROVE  [payment |-> id, type |-> type] \in receipts'
                 <=> payments'[id].status # "PENDING" /\ type = ReceiptType[payments'[id].status]
    <3>1. CASE id = it
      <4>1. [payment |-> it, type |-> type] \notin receipts
        BY <1>3, <2>2, SettlesRow DEF RowPerPayment
      <4> QED
        BY <2>1, <2>2, <2>3, <3>1, <4>1
    <3>2. CASE id # it
      <4>1. [payment |-> id, type |-> type] \in receipts'
              <=> [payment |-> id, type |-> type] \in receipts
        BY <2>1, <3>2
      <4> QED
        BY <2>4, <3>2, <4>1 DEF RowPerPayment
    <3> QED
      BY <3>1, <3>2
  <2> QED
    BY <1>3, <2>5, SettlesRow DEF RowPerPayment
<1> QED
  BY <1>1, <1>2, <1>3, WhoWrites

(* A payment that has left PENDING has exactly one midtrans row, of the type of its
   status, and a PENDING one has none, whatever was reported and however often. *)
THEOREM OneReceipt == Spec => []ReceiptPerPayment
<1>1. Init => RowPerPayment
  BY DEF Init, OpenPayment, RowPerPayment
<1>2. Spec => [](TypeOK /\ RowPerPayment)
  BY <1>1, TypeInit, TypeStep, RowPerPaymentStep, PTL DEF Spec
<1> QED
  BY <1>2, RowsAreReceipts, PTL

-----------------------------------------------------------------------------
(* Every stored payment is one that Midtrans was asked to collect under its amount
   and channel, and so is one about to be inserted. *)
Collected ==
  ServerKeySet =>
    /\ \A id \in DOMAIN payments : Order(id, payments[id].amount, payments[id].channel) \in charges
    /\ \A p \in Requests :
         pc[p] = "insert" => Order(PaymentIdOf(p), call[p].amount, ChannelOf(p)) \in charges

(* What a handler has read of a payment, its status aside, stays true. *)
ReadStands ==
  \A p \in Requests : \A row \in shown[p] \cup queue[p] :
    /\ row.id \in DOMAIN payments /\ payments[row.id].amount = row.amount
    /\ payments[row.id].channel = row.channel

(* No payment is deleted, and its amount and channel never change. *)
LEMMA AmountsStay ==
  ASSUME TypeOK, [Next]_vars
  PROVE  /\ DOMAIN payments \subseteq DOMAIN payments'
         /\ \A id \in DOMAIN payments : /\ payments'[id].amount = payments[id].amount
                                        /\ payments'[id].channel = payments[id].channel
<1>1. ASSUME NEW p \in Requests, Inserts(p)
      PROVE  /\ DOMAIN payments \subseteq DOMAIN payments'
             /\ \A id \in DOMAIN payments : payments'[id] = payments[id]
  BY <1>1, InsertsRow DEF Inserts
<1>2. ASSUME NEW p \in Requests, Settles(p), NEW id \in DOMAIN payments
      PROVE  /\ payments'[id].amount = payments[id].amount
             /\ payments'[id].channel = payments[id].channel
  BY <1>2, SettlesRow DEF TypeOK, Payment
<1> QED
  BY <1>1, <1>2, SettlesRow, WhoWrites

LEMMA ChargesGrow ==
  ASSUME TypeOK, [Next]_vars
  PROVE  /\ charges \subseteq charges' /\ call' = call
         /\ \A p \in Requests : pc'[p] = "insert" =>
              \/ pc[p] = "insert"
              \/ ServerKeySet =>
                   Order(PaymentIdOf(p), call[p].amount, ChannelOf(p)) \in charges'
<1> DEFINE NoneToInsert ==
             /\ charges' = charges /\ call' = call
             /\ \A q \in Requests : pc'[q] = "insert" => pc[q] = "insert"
<1>1. ASSUME NEW p \in Requests, IntentCharge(p)
      PROVE  /\ charges \subseteq charges' /\ call' = call
             /\ \A q \in Requests \ {p} : pc'[q] = pc[q]
             /\ pc'[p] = "insert" /\ ServerKeySet =>
                  Order(PaymentIdOf(p), call[p].amount, ChannelOf(p)) \in charges'
  <2>1. PICK result \in Charge(call[p].method) :
          /\ charges' = IF result.charged
                        THEN charges \cup {Order(PaymentIdOf(p), call[p].amount, ChannelOf(p))}
                        ELSE charges
          /\ GoTo(p, IF result.page THEN "insert" ELSE "error")
    BY <1>1 DEF IntentCharge
  <2>2. result.page /\ ServerKeySet => result.charged
    BY DEF Charge
  <2>3. pc' = [pc EXCEPT ![p] = IF result.page THEN "insert" ELSE "error"]
    BY <2>1 DEF GoTo
  <2> QED
    BY <1>1, <2>1, <2>2, <2>3 DEF IntentCharge, TypeOK, locals
<1>2. ASSUME NEW p \in Requests,
             \/ IntentLookup(p) \/ IntentInsert(p) \/ IntentRelookup(p)
             \/ ApplyRead(p) \/ ApplyWrite(p)
      PROVE  NoneToInsert
  BY <1>2 DEF IntentLookup, IntentInsert, IntentRelookup, ApplyRead, ApplyWrite, Return, Quit,
     Proceed, Answer, GoTo, TypeOK, tables, locals
<1>3. ASSUME NEW p \in Requests, StatusStart(p) \/ SyncRead(p) \/ SyncFetch(p)
      PROVE  NoneToInsert
  BY <1>3 DEF StatusStart, SyncRead, SyncFetch, ApplyKnown, ApplyTo, Return, Quit, Proceed,
     Answer, GoTo, TypeOK, tables, locals
<1>4. ASSUME NEW p \in Requests,
             \/ GetRead(p) \/ DetailHistory(p) \/ DetailUnpaid(p) \/ ListNext(p) \/ ListDone(p)
             \/ MutateRead(p) \/ MutateUpdate(p) \/ Abort(p)
      PROVE  NoneToInsert
  BY <1>4 DEF GetRead, DetailHistory, DetailUnpaid, ListNext, ListDone, MutateRead,
     MutateUpdate, Abort, ApplyTo, Quit, GoTo, TypeOK, tables, locals
<1>5. ASSUME NEW id \in PaymentIds, GrowOld(id)
      PROVE  charges' = charges /\ call' = call /\ pc' = pc
  BY <1>5 DEF GrowOld, locals
<1>6. CASE UNCHANGED vars
  BY <1>6 DEF vars, tables, locals
<1> QED
  BY <1>1, <1>2, <1>3, <1>4, <1>5, <1>6 DEF Next

LEMMA CollectedStep == TypeOK /\ Collected /\ [Next]_vars => Collected'
<1> SUFFICES ASSUME TypeOK, Collected, [Next]_vars PROVE Collected'
  OBVIOUS
<1>1. charges \subseteq charges' /\ call' = call
  BY ChargesGrow
<1>2. ASSUME NEW p \in Requests
      PROVE  PaymentIdOf(p)' = PaymentIdOf(p) /\ ChannelOf(p)' = ChannelOf(p)
  BY <1>1 DEF PaymentIdOf, ChannelOf
<1>3. ASSUME NEW p \in Requests, pc'[p] = "insert", ServerKeySet
      PROVE  Order(PaymentIdOf(p), call[p].amount, ChannelOf(p)) \in charges'
  BY <1>1, <1>2, <1>3, ChargesGrow DEF Collected
<1>4. ASSUME NEW id \in DOMAIN payments', ServerKeySet
      PROVE  Order(id, payments'[id].amount, payments'[id].channel) \in charges'
  <2>1. CASE id \in DOMAIN payments
    BY <1>1, <1>4, <2>1, AmountsStay DEF Collected
  <2>2. ASSUME NEW p \in Requests, Inserts(p), id = PaymentIdOf(p)
        PROVE  Order(id, payments'[id].amount, payments'[id].channel) \in charges'
    BY <1>1, <1>4, <2>2, InsertsRow DEF Collected, Inserts
  <2>3. CASE UNCHANGED <<payments, receipts>> \/ \E p \in Requests : Settles(p)
    <3>1. DOMAIN payments' = DOMAIN payments
      BY <2>3, SettlesRow
    <3> QED
      BY <1>4, <2>1, <3>1
  <2>4. ASSUME NEW p \in Requests, Inserts(p)
        PROVE  Order(id, payments'[id].amount, payments'[id].channel) \in charges'
    <3>1. DOMAIN payments' = DOMAIN payments \cup {PaymentIdOf(p)}
      BY <2>4, InsertsRow
    <3>2. id \in DOMAIN payments \/ id = PaymentIdOf(p)
      BY <3>1
    <3> QED
      BY <2>1, <2>2, <2>4, <3>2
  <2> QED
    BY <2>3, <2>4, WhoWrites
<1> QED
  BY <1>1, <1>2, <1>3, <1>4 DEF Collected

(* What a handler puts into its reply or its list is a row of the table. *)
Fresh(row) == \E id \in DOMAIN payments' : row = payments'[id]

LEMMA ReadsAreRows ==
  ASSUME TypeOK, [Next]_vars, NEW q \in Requests, NEW row \in shown'[q] \cup queue'[q]
  PROVE  row \in shown[q] \cup queue[q] \/ Fresh(row)
<1> DEFINE Told == row \in shown[q] \cup queue[q] \/ Fresh(row)
<1>1. ASSUME NEW p \in Requests, NEW id \in DOMAIN payments, Answer(p, payments[id]) PROVE Told
  BY <1>1 DEF Answer, Return, TypeOK, tables, Fresh
<1>2. ASSUME UNCHANGED <<shown, queue>> PROVE Told
  BY <1>2
<1>3. ASSUME NEW p \in Requests, IntentInsert(p) PROVE Told
  <2>1. CASE Proceed(p, "relookup")
    BY <1>2, <2>1 DEF Proceed, locals
  <2>2. CASE Inserts(p)
    <3>1. Fresh(NewPayment(p))
      BY <2>2, InsertsRow DEF Fresh
    <3> QED
      BY <2>2, <3>1 DEF Inserts, Return, TypeOK
  <2> QED
    BY <1>3, <2>1, <2>2 DEF IntentInsert, Inserts
<1>4. ASSUME NEW p \in Requests, ApplyWrite(p) PROVE Told
  <2>1. CASE Settles(p)
    <3>1. Fresh([payments[apply[p].payment] EXCEPT !.status = apply[p].status])
      BY <2>1, SettlesRow DEF Fresh
    <3> QED
      BY <2>1, <3>1 DEF Settles, Return, TypeOK
  <2>2. apply[p].payment \in DOMAIN payments
    BY <1>4 DEF ApplyWrite, TypeOK, HandlerOK
  <2> QED
    BY <1>1, <1>2, <1>4, <2>1, <2>2, ApplyWriteCases DEF Quit, locals
<1>5. ASSUME NEW p \in Requests, IntentLookup(p) \/ IntentCharge(p) \/ IntentRelookup(p) PROVE Told
  BY <1>1, <1>2, <1>5 DEF IntentLookup, IntentCharge, IntentRelookup, ByKey, Quit, Proceed, locals
<1>6. ASSUME NEW p \in Requests, StatusStart(p) \/ SyncRead(p) \/ SyncFetch(p) \/ ApplyRead(p)
      PROVE  Told
  BY <1>1, <1>2, <1>6 DEF StatusStart, SyncRead, SyncFetch, ApplyRead, ApplyKnown, Quit,
     Proceed, locals
<1>7. ASSUME NEW p \in Requests, GetRead(p) PROVE Told
  BY <1>2, <1>7 DEF GetRead, Quit, locals, TypeOK, tables, Fresh
<1>8. ASSUME NEW p \in Requests, DetailUnpaid(p) PROVE Told
  BY <1>8 DEF DetailUnpaid, Unpaid, Range, TypeOK, tables, Fresh
<1>9. ASSUME NEW p \in Requests, ListNext(p) PROVE Told
  BY <1>9 DEF ListNext, TypeOK
<1>10. ASSUME NEW p \in Requests, ListDone(p) PROVE Told
  BY <1>10 DEF ListDone, TypeOK
<1>11. ASSUME NEW p \in Requests, DetailHistory(p) \/ MutateRead(p) \/ MutateUpdate(p) \/ Abort(p)
       PROVE  Told
  BY <1>2, <1>11 DEF DetailHistory, MutateRead, MutateUpdate, Abort, Quit, locals
<1>12. ASSUME NEW id \in PaymentIds, GrowOld(id) PROVE Told
  BY <1>2, <1>12 DEF GrowOld, locals
<1>13. CASE UNCHANGED vars
  BY <1>2, <1>13 DEF vars, locals
<1> QED
  BY <1>3, <1>4, <1>5, <1>6, <1>7, <1>8, <1>9, <1>10, <1>11, <1>12, <1>13 DEF Next

LEMMA ReadStandsStep == TypeOK /\ ReadStands /\ [Next]_vars => ReadStands'
<1> SUFFICES ASSUME TypeOK, ReadStands, [Next]_vars,
                    NEW q \in Requests, NEW row \in shown'[q] \cup queue'[q]
             PROVE  /\ row.id \in DOMAIN payments' /\ payments'[row.id].amount = row.amount
                    /\ payments'[row.id].channel = row.channel
  BY DEF ReadStands
<1>1. CASE row \in shown[q] \cup queue[q]
  BY <1>1, AmountsStay DEF ReadStands
<1>2. CASE Fresh(row)
  <2>1. \A id \in DOMAIN payments' : payments'[id].id = id
    BY TypeStep DEF TypeOK
  <2> QED
    BY <1>2, <2>1 DEF Fresh
<1> QED
  BY <1>1, <1>2, ReadsAreRows

(* Whoever is told of an intent is told of one that is stored, under the amount and the
   channel that Midtrans was asked to collect by, however many requests race for its key and under
   whatever amounts (the unique index decides, and the loser reads the winner's row). *)
THEOREM RepliesStand == Spec => []IntentRepliesStand
<1>1. Init => Collected
  BY DEF Init, Collected, OpenPayment, Order
<1>2. Init => ReadStands
  BY DEF Init, ReadStands
<1>3. TypeOK /\ Collected /\ ReadStands => IntentRepliesStand
  <2> SUFFICES ASSUME TypeOK, Collected, ReadStands,
                      NEW p \in Requests, NEW row \in shown[p]
               PROVE  /\ row.id \in DOMAIN payments
                      /\ payments[row.id].amount = row.amount
                      /\ payments[row.id].channel = row.channel
                      /\ ServerKeySet => Order(row.id, row.amount, row.channel) \in charges
    BY DEF IntentRepliesStand
  <2>1. /\ row.id \in DOMAIN payments /\ payments[row.id].amount = row.amount
        /\ payments[row.id].channel = row.channel
    BY DEF ReadStands
  <2> QED
    BY <2>1 DEF Collected
<1> QED
  BY <1>1, <1>2, <1>3, TypeInit, TypeStep, CollectedStep, ReadStandsStep, PTL DEF Spec

-----------------------------------------------------------------------------
(* What a handler has read of a settled payment, the rows it has yet to look at
   included, is the row that is stored. *)
FinalReads ==
  \A p \in Requests : \A row \in shown[p] \cup queue[p] :
    row.status # "PENDING" => row.id \in DOMAIN payments /\ payments[row.id] = row

LEMMA FinalReadsStep == TypeOK /\ FinalReads /\ [Next]_vars => FinalReads'
<1> SUFFICES ASSUME TypeOK, FinalReads, [Next]_vars,
                    NEW q \in Requests, NEW row \in shown'[q] \cup queue'[q],
                    row.status # "PENDING"
             PROVE  row.id \in DOMAIN payments' /\ payments'[row.id] = row
  BY DEF FinalReads
<1>1. CASE row \in shown[q] \cup queue[q]
  <2>1. row.id \in DOMAIN payments /\ payments[row.id] = row
    BY <1>1 DEF FinalReads
  <2>2. row.id \in DOMAIN payments'
    BY <2>1, AmountsStay
  <2>3. payments'[row.id] = payments[row.id]
    BY <2>1, FinalStep DEF Final
  <2> QED
    BY <2>1, <2>2, <2>3
<1>2. CASE Fresh(row)
  <2>1. \A id \in DOMAIN payments' : payments'[id].id = id
    BY TypeStep DEF TypeOK
  <2> QED
    BY <1>2, <2>1 DEF Fresh
<1> QED
  BY <1>1, <1>2, ReadsAreRows

(* A reply that calls a payment PAID, FAILED or EXPIRED stays true: reads may be stale
   only about a payment they found PENDING, and a report that lost the race is answered
   with the winner's row. *)
THEOREM FinalReplies == Spec => []FinalRepliesStand
<1>1. Init => FinalReads
  BY DEF Init, FinalReads
<1>2. FinalReads => FinalRepliesStand
  BY DEF FinalReads, FinalRepliesStand
<1> QED
  BY <1>1, <1>2, TypeInit, TypeStep, FinalReadsStep, PTL DEF Spec

-----------------------------------------------------------------------------
(* mutate_wallet writes from a row it has read earlier.  Every write of a wallet raises
   its version, so that a row of the same version is the same row. *)
SnapshotCurrent ==
  \A p \in Requests : pc[p] = "update" =>
    LET w == wallets[call[p].wallet] IN
    /\ snap[p].version <= w.version
    /\ snap[p].version = w.version => snap[p] = w

(* The write of mutate_wallet, named for the proofs. *)
Moves(p) ==
  /\ pc[p] = "update"
  /\ wallets[call[p].wallet].version = snap[p].version
  /\ wallets' = [wallets EXCEPT ![call[p].wallet] =
                   Stored(Apply(call[p].op, snap[p], call[p].amount))]
  /\ GoTo(p, "ok")
  /\ UNCHANGED <<payments, receipts, charges, old, locals, crashes>>

(* A step that leaves every table and every mutation where it was. *)
Idle ==
  /\ UNCHANGED <<wallets, payments, call>>
  /\ \A p \in Requests : call[p].op \in {"TOP_UP", "WITHDRAW"} =>
       /\ pc'[p] = "ok" <=> pc[p] = "ok"
       /\ pc'[p] = "update" =>
            \/ pc[p] = "update" /\ snap'[p] = snap[p]
            \/ snap'[p] = wallets[call[p].wallet]

(* A handler of another operation moves no money of its own. *)
Other(p) == call[p].op \notin {"TOP_UP", "WITHDRAW"}

(* Which operation a handler past its first statement serves. *)
Serves ==
  \A p \in Requests :
    /\ pc[p] \in {"charge", "insert", "relookup", "fetch", "applyRead", "applyWrite",
                  "unpaid", "list"} => Other(p)
    /\ pc[p] = "update" => call[p].op \in {"TOP_UP", "WITHDRAW"}

LEMMA ServesStep == TypeOK /\ Serves /\ [Next]_vars => Serves'
<1> SUFFICES ASSUME TypeOK, Serves, [Next]_vars PROVE Serves'
  OBVIOUS
<1> USE DEF Serves, Other, TypeOK
<1>1. ASSUME NEW p \in Requests,
             IntentLookup(p) \/ IntentCharge(p) \/ IntentInsert(p) \/ IntentRelookup(p)
      PROVE  Serves'
  BY <1>1 DEF IntentLookup, IntentCharge, IntentInsert, IntentRelookup, Return, Quit, Proceed,
     Answer, GoTo, tables, locals, Outcomes
<1>2. ASSUME NEW p \in Requests, StatusStart(p) \/ SyncRead(p) \/ SyncFetch(p) PROVE Serves'
  BY <1>2 DEF StatusStart, SyncRead, SyncFetch, ApplyKnown, ApplyTo, Return, Quit, Proceed,
     Answer, GoTo, tables, locals, Outcomes
<1>3. ASSUME NEW p \in Requests, ApplyRead(p) \/ ApplyWrite(p) PROVE Serves'
  BY <1>3 DEF ApplyRead, ApplyWrite, Return, Quit, Proceed, Answer, GoTo, tables, locals,
     Outcomes
<1>4. ASSUME NEW p \in Requests,
             GetRead(p) \/ DetailHistory(p) \/ DetailUnpaid(p) \/ ListNext(p) \/ ListDone(p)
      PROVE  Serves'
  BY <1>4 DEF GetRead, DetailHistory, DetailUnpaid, ListNext, ListDone, ApplyTo, Quit, GoTo,
     tables, locals, Outcomes
<1>5. ASSUME NEW p \in Requests, MutateRead(p) \/ MutateUpdate(p) \/ Abort(p) PROVE Serves'
  BY <1>5 DEF MutateRead, MutateUpdate, Abort, Quit, GoTo, tables, locals, Outcomes
<1>6. ASSUME NEW id \in PaymentIds, GrowOld(id) PROVE Serves'
  BY <1>6 DEF GrowOld, locals
<1>7. CASE UNCHANGED vars
  BY <1>7 DEF vars, tables, locals
<1> QED
  BY <1>1, <1>2, <1>3, <1>4, <1>5, <1>6, <1>7 DEF Next

(* A handler of another operation that leaves wallets and payments alone. *)
LEMMA OtherIsIdle ==
  ASSUME NEW p \in Requests, Other(p), TypeOK,
         UNCHANGED <<wallets, payments, call, snap>>,
         \A q \in Requests \ {p} : pc'[q] = pc[q]
  PROVE  Idle
BY DEF Idle, Other

(* A step settles a payment, opens one, carries out a mutation or moves no money. *)
LEMMA WhoMoves ==
  ASSUME TypeOK, Serves, [Next]_vars
  PROVE  \/ Idle
         \/ \E p \in Requests : Inserts(p) \/ Settles(p) \/ Moves(p)
<1>1. ASSUME NEW p \in Requests, IntentInsert(p) PROVE Idle \/ Inserts(p)
  <2>1. CASE Proceed(p, "relookup")
    BY <1>1, <2>1, OtherIsIdle DEF IntentInsert, Serves, Proceed, GoTo, TypeOK, tables, locals
  <2> QED
    BY <1>1, <2>1 DEF IntentInsert, Inserts
<1>2. ASSUME NEW p \in Requests, ApplyWrite(p) PROVE Idle \/ Settles(p)
  <2>1. Other(p)
    BY <1>2 DEF ApplyWrite, Serves
  <2>2. CASE Quit(p, "error") \/ Answer(p, payments[apply[p].payment])
    BY <2>1, <2>2, OtherIsIdle DEF Quit, Answer, Return, GoTo, TypeOK, tables, locals
  <2> QED
    BY <1>2, <2>2, ApplyWriteCases
<1>3. ASSUME NEW p \in Requests, IntentLookup(p) \/ IntentCharge(p) \/ IntentRelookup(p)
      PROVE  Idle
  <2>1. Other(p)
    BY <1>3 DEF IntentLookup, IntentCharge, IntentRelookup, Serves, Other
  <2> QED
    BY <1>3, <2>1, OtherIsIdle DEF IntentLookup, IntentCharge, IntentRelookup, Return, Quit,
       Proceed, Answer, GoTo, TypeOK, tables, locals
<1>4. ASSUME NEW p \in Requests, StatusStart(p) \/ SyncRead(p) \/ SyncFetch(p) \/ ApplyRead(p)
      PROVE  Idle
  <2>1. Other(p)
    BY <1>4 DEF StatusStart, SyncRead, SyncFetch, ApplyRead, Serves, Other
  <2> QED
    BY <1>4, <2>1, OtherIsIdle DEF StatusStart, SyncRead, SyncFetch, ApplyRead, ApplyKnown,
       ApplyTo, Return, Quit, Proceed, Answer, GoTo, TypeOK, tables, locals
<1>5. ASSUME NEW p \in Requests,
             GetRead(p) \/ DetailHistory(p) \/ DetailUnpaid(p) \/ ListNext(p) \/ ListDone(p)
      PROVE  Idle
  <2>1. Other(p)
    BY <1>5 DEF GetRead, DetailHistory, DetailUnpaid, ListNext, ListDone, Serves, Other
  <2> QED
    BY <1>5, <2>1, OtherIsIdle DEF GetRead, DetailHistory, DetailUnpaid, ListNext, ListDone,
       ApplyTo, Quit, GoTo, TypeOK, tables, locals
<1>6. ASSUME NEW p \in Requests, MutateRead(p) \/ Abort(p) PROVE Idle
  BY <1>6 DEF Idle, MutateRead, Abort, Quit, GoTo, TypeOK, tables, locals, Outcomes
<1>7. ASSUME NEW p \in Requests, MutateUpdate(p) PROVE Idle \/ Moves(p)
  <2>1. CASE Quit(p, "conflict")
    BY <1>7, <2>1 DEF Idle, MutateUpdate, Quit, GoTo, TypeOK, tables, locals
  <2> QED
    BY <1>7, <2>1 DEF MutateUpdate, Moves
<1>8. ASSUME NEW id \in PaymentIds, GrowOld(id) PROVE Idle
  BY <1>8 DEF Idle, GrowOld, locals
<1>9. CASE UNCHANGED vars
  BY <1>9 DEF Idle, vars, tables, locals
<1> QED
  BY <1>1, <1>2, <1>3, <1>4, <1>5, <1>6, <1>7, <1>8, <1>9 DEF Next

-----------------------------------------------------------------------------
(* A write of a wallet that raises the version of what was there. *)
LEMMA VersionRises ==
  ASSUME TypeOK, NEW w \in Wallets, NEW t \in {"TOP_UP", "WITHDRAW"}, NEW a \in Nat
  PROVE  Stored(Apply(t, wallets[w], a)).version = wallets[w].version + 1
BY DEF TypeOK, Wallet, Stored, Apply

LEMMA SnapshotStep ==
  TypeOK /\ Serves /\ SnapshotCurrent /\ [Next]_vars => SnapshotCurrent'
<1> SUFFICES ASSUME TypeOK, Serves, SnapshotCurrent, [Next]_vars,
                    NEW q \in Requests, pc'[q] = "update"
             PROVE  LET w == wallets'[call'[q].wallet] IN
                    /\ snap'[q].version <= w.version
                    /\ snap'[q].version = w.version => snap'[q] = w
  BY DEF SnapshotCurrent
<1> DEFINE w == call[q].wallet
<1>0. Serves'
  BY ServesStep
<1>1. CASE Idle
  <2>1. call'[q].op \in {"TOP_UP", "WITHDRAW"} /\ call' = call
    BY <1>0, <1>1 DEF Serves, Idle
  <2>2. wallets[w] \in Wallet
    BY <2>1, CallOf DEF TypeOK, MutateCall
  <2> QED
    BY <1>1, <2>1, <2>2 DEF Idle, SnapshotCurrent, Wallet
<1>2. ASSUME NEW p \in Requests, Inserts(p) PROVE SnapshotCurrent'
  <2>1. \A r \in Requests : pc'[r] = "update" => pc[r] = "update"
    BY <1>2 DEF Inserts, Return, GoTo, TypeOK
  <2> QED
    BY <1>2, <2>1 DEF Inserts, SnapshotCurrent
<1>3. ASSUME NEW x \in Wallets, NEW t \in {"TOP_UP", "WITHDRAW"}, NEW a \in Nat,
             wallets' = [wallets EXCEPT ![x] = Stored(Apply(t, wallets[x], a))],
             call' = call, snap' = snap,
             pc[q] = "update"
      PROVE  /\ snap'[q].version <= wallets'[w].version
             /\ snap'[q].version = wallets'[w].version => snap'[q] = wallets'[w]
  <2>1. call[q].op \in {"TOP_UP", "WITHDRAW"}
    BY <1>3 DEF Serves
  <2>2. w \in Wallets
    BY <2>1, CallOf DEF MutateCall
  <2>3. /\ snap[q].version <= wallets[w].version
        /\ snap[q].version = wallets[w].version => snap[q] = wallets[w]
        /\ snap[q].version \in Nat /\ wallets[w].version \in Nat
    BY <1>3, <2>2 DEF SnapshotCurrent, TypeOK, Wallet
  <2>4. CASE x = w
    <3>1. wallets'[w].version = wallets[w].version + 1
      BY <1>3, <2>4, VersionRises DEF TypeOK
    <3> QED
      BY <1>3, <2>3, <3>1
  <2>5. CASE x # w
    <3>1. wallets'[w] = wallets[w]
      BY <1>3, <2>5
    <3> QED
      BY <1>3, <2>3, <3>1
  <2> QED
    BY <2>4, <2>5
<1>4. ASSUME NEW p \in Requests, Settles(p)
      PROVE  /\ snap'[q].version <= wallets'[w].version
             /\ snap'[q].version = wallets'[w].version => snap'[q] = wallets'[w]
  <2>1. pc[q] = "update"
    BY <1>4 DEF Settles, Return, GoTo, TypeOK
  <2>2. CASE apply[p].status = "PAID"
    <3> DEFINE row == [payments[apply[p].payment] EXCEPT !.status = apply[p].status]
    <3>1. row.wallet \in Wallets /\ row.amount \in Nat
      BY <1>4, SettlesRow DEF Payment
    <3>2. wallets' = [wallets EXCEPT ![row.wallet] =
                        Stored(Apply("TOP_UP", wallets[row.wallet], row.amount))]
      BY <1>4, <2>2 DEF Settles, Credited
    <3>3. call' = call /\ snap' = snap
      BY <1>4 DEF Settles
    <3> QED
      BY <1>3, <2>1, <3>1, <3>2, <3>3
  <2>3. CASE apply[p].status # "PAID"
    BY <1>4, <2>1, <2>3 DEF Settles, SnapshotCurrent
  <2> QED
    BY <2>2, <2>3
<1>5. ASSUME NEW p \in Requests, Moves(p)
      PROVE  /\ snap'[q].version <= wallets'[w].version
             /\ snap'[q].version = wallets'[w].version => snap'[q] = wallets'[w]
  <2>1. pc[q] = "update"
    BY <1>5 DEF Moves, GoTo, TypeOK
  <2>2. call[p] \in MutateCall
    BY <1>5, CallOf DEF Moves, Serves
  <2>3. snap[p] = wallets[call[p].wallet]
    BY <1>5 DEF Moves, SnapshotCurrent
  <2>4. wallets' = [wallets EXCEPT ![call[p].wallet] =
                      Stored(Apply(call[p].op, wallets[call[p].wallet], call[p].amount))]
    BY <1>5, <2>3 DEF Moves
  <2>5. /\ call[p].wallet \in Wallets /\ call[p].amount \in Nat
        /\ call[p].op \in {"TOP_UP", "WITHDRAW"}
    BY <2>2 DEF MutateCall
  <2>6. call' = call /\ snap' = snap
    BY <1>5 DEF Moves, locals
  <2> QED
    BY <1>3, <2>1, <2>4, <2>5, <2>6
<1>6. ASSUME NEW p \in Requests, Settles(p) \/ Moves(p) PROVE call' = call
  BY <1>6 DEF Settles, Moves, locals
<1> QED
  BY <1>1, <1>2, <1>4, <1>5, <1>6, WhoMoves DEF SnapshotCurrent

-----------------------------------------------------------------------------
(* Each kind of step, as the contract sees it. *)

LEMMA IdleIsStutter ==
  ASSUME Idle
  PROVE  UNCHANGED <<ActiveColumn, PaymentRows, Carried>>
<1>1. Carried' = Carried
  BY DEF Idle, Carried
<1> QED
  BY <1>1 DEF Idle, ActiveColumn, PaymentRows

LEMMA InsertIsOpen ==
  ASSUME TypeOK, Serves, NEW p \in Requests, Inserts(p)
  PROVE  Contract!Next
<1> DEFINE id == PaymentIdOf(p)
           w == call[p].wallet
           m == call[p].amount
<1>1. call[p] \in IntentCall /\ m > 0 /\ call[p] \in Calls
  BY DEF Inserts, TypeOK, HandlerOK
<1>2. id \in PaymentIds /\ w \in Wallets /\ m \in CallAmounts
  BY <1>1 DEF PaymentIdOf, PaymentIds, IntentCall, CallAmounts
<1>3. PaymentRow(NewPayment(p)) = Contract!NewPayment(w, m)
  BY DEF PaymentRow, NewPayment, Contract!NewPayment
<1>4. /\ DOMAIN PaymentRows = DOMAIN payments
      /\ DOMAIN payments' = DOMAIN payments \cup {id}
      /\ \A i \in DOMAIN payments' :
           payments'[i] = IF i = id THEN NewPayment(p) ELSE payments[i]
  BY InsertsRow DEF PaymentRows
<1>5. PaymentRows' = [i \in DOMAIN payments \cup {id} |->
                        IF i = id THEN Contract!NewPayment(w, m) ELSE PaymentRows[i]]
  <2>1. PaymentRows' = [i \in DOMAIN payments \cup {id} |-> PaymentRow(payments'[i])]
    BY <1>4 DEF PaymentRows, PaymentRow
  <2>2. ASSUME NEW i \in DOMAIN payments \cup {id}
        PROVE  PaymentRow(payments'[i]) =
                 IF i = id THEN Contract!NewPayment(w, m) ELSE PaymentRows[i]
    BY <1>3, <1>4 DEF PaymentRows
  <2> QED
    BY <2>1, <2>2
<1>6. Carried' = Carried
  <2>1. call' = call /\ Other(p)
    BY DEF Inserts, Serves
  <2>2. \A q \in Requests \ {p} : pc'[q] = pc[q]
    BY DEF Inserts, Return, GoTo, TypeOK
  <2> QED
    BY <2>1, <2>2 DEF Carried, Other
<1>7. ActiveColumn' = ActiveColumn
  BY DEF Inserts, ActiveColumn
<1>8. id \notin DOMAIN PaymentRows
  BY <1>4 DEF Inserts
<1>9. Contract!Open(id, w, m)
  BY <1>1, <1>4, <1>5, <1>6, <1>7, <1>8 DEF Contract!Open
<1> QED
  BY <1>2, <1>9 DEF Contract!Next

LEMMA SettleIsSettle ==
  ASSUME TypeOK, Serves, NEW p \in Requests, Settles(p)
  PROVE  Contract!Next
<1> DEFINE id == apply[p].payment
           status == apply[p].status
           w == payments[id].wallet
           m == payments[id].amount
<1>1. /\ id \in DOMAIN payments /\ id \in PaymentIds
      /\ status \in {"PAID", "FAILED", "EXPIRED"}
      /\ w \in Wallets /\ m \in Nat /\ payments[id] \in Payment
  BY SettlesRow DEF TypeOK, Statuses, Payment
<1>2. PaymentRows[id].status = "PENDING" /\ PaymentRows[id].wallet = w
        /\ PaymentRows[id].amount = m
  BY <1>1 DEF PaymentRows, PaymentRow, Settles, StillPending
<1>3. PaymentRows' = [PaymentRows EXCEPT ![id].status = status]
  <2>1. PaymentRows' = [i \in DOMAIN payments |-> PaymentRow(payments'[i])]
    BY SettlesRow DEF PaymentRows, PaymentRow
  <2>2. PaymentRow([payments[id] EXCEPT !.status = status])
          = [PaymentRow(payments[id]) EXCEPT !.status = status]
    BY <1>1 DEF PaymentRow, Payment
  <2>3. ASSUME NEW i \in DOMAIN payments
        PROVE  PaymentRow(payments'[i]) =
                 IF i = id THEN [PaymentRow(payments[i]) EXCEPT !.status = status]
                 ELSE PaymentRow(payments[i])
    BY <2>2, SettlesRow
  <2> QED
    BY <1>1, <2>1, <2>3 DEF PaymentRows
<1>4. ActiveColumn' = IF status = "PAID" THEN [ActiveColumn EXCEPT ![w] = @ + m]
                      ELSE ActiveColumn
  <2>1. CASE status = "PAID"
    <3>1. wallets' = [wallets EXCEPT ![w] = Stored(Apply("TOP_UP", wallets[w], m))]
      BY <1>1, <2>1 DEF Settles, Credited, Payment
    <3>2. Stored(Apply("TOP_UP", wallets[w], m)).active = wallets[w].active + m
      BY <1>1 DEF TypeOK, Wallet, Stored, Apply, ActiveMove, CreditsActive
    <3> QED
      BY <1>1, <2>1, <3>1, <3>2 DEF ActiveColumn, TypeOK
  <2>2. CASE status # "PAID"
    BY <2>2 DEF Settles, ActiveColumn
  <2> QED
    BY <2>1, <2>2
<1>5. Carried' = Carried
  <2>1. call' = call /\ Other(p)
    BY DEF Settles, Serves
  <2>2. \A q \in Requests \ {p} : pc'[q] = pc[q]
    BY DEF Settles, Return, GoTo, TypeOK
  <2> QED
    BY <2>1, <2>2 DEF Carried, Other
<1>6. DOMAIN PaymentRows = DOMAIN payments
  BY DEF PaymentRows
<1>7. Contract!Settle(id, status)
  BY <1>1, <1>2, <1>3, <1>4, <1>5, <1>6 DEF Contract!Settle
<1> QED
  BY <1>1, <1>7 DEF Contract!Next

LEMMA MoveIsCarry ==
  ASSUME TypeOK, Serves, SnapshotCurrent, NEW p \in Requests, Moves(p)
  PROVE  Contract!Next
<1> DEFINE w == call[p].wallet
           m == call[p].amount
           dx == ActiveMove(call[p].op, m)
<1>1. call[p] \in MutateCall /\ call[p] \in Calls
  BY CallOf DEF Moves, Serves, TypeOK
<1>2. w \in Wallets /\ m \in CallAmounts /\ m \in Nat
  BY <1>1 DEF MutateCall, CallAmounts
<1>3. snap[p] = wallets[w] /\ wallets[w] \in Wallet
  BY <1>2 DEF Moves, SnapshotCurrent, TypeOK
<1>4. Allowed(call[p].op, wallets[w], m)
  BY <1>3 DEF Moves, TypeOK, HandlerOK
<1>5. dx = m \/ dx = -m
  BY <1>1 DEF MutateCall, ActiveMove, CreditsActive, DebitsActive
<1>6. wallets[w].active + dx >= 0
  BY <1>1, <1>2, <1>3, <1>4 DEF MutateCall, ActiveMove, Allowed, CreditsActive, DebitsActive,
     Wallet
<1>7. ActiveColumn' = [ActiveColumn EXCEPT ![w] = @ + dx]
  <2>1. Stored(Apply(call[p].op, wallets[w], m)).active = wallets[w].active + dx
    BY <1>3 DEF Stored, Apply, Wallet
  <2>2. wallets' = [wallets EXCEPT ![w] = Stored(Apply(call[p].op, wallets[w], m))]
    BY <1>3 DEF Moves
  <2> QED
    BY <1>2, <2>1, <2>2 DEF ActiveColumn, TypeOK
<1>8. p \notin Carried /\ Carried' = Carried \cup {p}
  <2>1. call' = call /\ pc[p] = "update" /\ call[p].op \in {"TOP_UP", "WITHDRAW"}
    BY <1>1 DEF Moves, locals, MutateCall
  <2>2. pc' = [pc EXCEPT ![p] = "ok"]
    BY DEF Moves, GoTo
  <2> QED
    BY <2>1, <2>2 DEF Carried, TypeOK
<1>9. PaymentRows' = PaymentRows
  BY DEF Moves, PaymentRows
<1>10. ActiveColumn[w] + dx >= 0
  BY <1>2, <1>6 DEF ActiveColumn
<1>11. Contract!Carry(p, w, dx)
  BY <1>7, <1>8, <1>9, <1>10 DEF Contract!Carry
<1> QED
  BY <1>2, <1>5, <1>11 DEF Contract!Next

LEMMA ContractInit == Init => Contract!Init
<1> SUFFICES ASSUME Init PROVE Contract!Init
  OBVIOUS
<1>1. ActiveColumn = [w \in Wallets |-> InitialActive]
  BY DEF Init, ActiveColumn, NewWallet
<1>2. Carried = {}
  BY DEF Init, Carried
<1>3. PICK w \in Wallets : payments = [id \in OpenPayments |-> OpenPayment(id, w)]
  BY DEF Init
<1>4. \A id \in OpenPayments : PaymentRow(OpenPayment(id, w)) = Contract!NewPayment(w, OpenAmount)
  BY DEF PaymentRow, OpenPayment, Contract!NewPayment
<1>5. PaymentRows = [id \in OpenPayments |-> Contract!NewPayment(w, OpenAmount)]
  BY <1>3, <1>4 DEF PaymentRows
<1> QED
  BY <1>1, <1>2, <1>5 DEF Contract!Init

(* The service keeps the contract of its payments: whatever handlers interleave, crash
   or repeat, balances and payments change as PaymentContract lets them, each payment
   settling and crediting in one step. *)
THEOREM PaymentRefinement == Spec => ImplementsContract
<1>1. Init => Serves /\ SnapshotCurrent
  BY DEF Init, Serves, SnapshotCurrent
<1>2. Spec => [](TypeOK /\ Serves /\ SnapshotCurrent)
  BY <1>1, TypeInit, TypeStep, ServesStep, SnapshotStep, PTL DEF Spec
<1>3. TypeOK /\ Serves /\ SnapshotCurrent /\ [Next]_vars
        => [Contract!Next]_<<ActiveColumn, PaymentRows, Carried>>
  BY WhoMoves, IdleIsStutter, InsertIsOpen, SettleIsSettle, MoveIsCarry
<1>4. Contract!Spec <=> Contract!Init /\ [][Contract!Next]_<<ActiveColumn, PaymentRows, Carried>>
  BY DEF Contract!Spec
<1> QED
  BY <1>2, <1>3, <1>4, ContractInit, PTL DEF Spec, ImplementsContract

-----------------------------------------------------------------------------
(* What the balance adds up to.  Only finitely many payments are ever PAID and only
   finitely many mutations carried out, whatever is open or waiting. *)

AmountPaid  == [id \in DOMAIN payments |-> payments[id].amount]
AmountMoved == [p \in Requests |-> call[p].amount]

PaidIn(w)     == SumFunctionOnSet(AmountPaid, Paid(w))
Moved(w, type) == SumFunctionOnSet(AmountMoved, Mutations(w, type))

Countable ==
  \A w \in Wallets : /\ IsFiniteSet(Paid(w))
                     /\ IsFiniteSet(Mutations(w, "TOP_UP"))
                     /\ IsFiniteSet(Mutations(w, "WITHDRAW"))

Explained(w) ==
  wallets[w].active = InitialActive + PaidIn(w) + Moved(w, "TOP_UP") - Moved(w, "WITHDRAW")

LEMMA ExplainedIsBalance == BalanceExplained <=> \A w \in Wallets : Explained(w)
BY DEF BalanceExplained, Explained, PaidIn, Moved, AmountPaid, AmountMoved

BalanceInv ==
  /\ TypeOK /\ Serves /\ SnapshotCurrent
  /\ Countable /\ \A w \in Wallets : Explained(w)

LEMMA AmountsTyped ==
  ASSUME TypeOK
  PROVE  /\ \A w : \A id \in Paid(w) : AmountPaid[id] \in Nat
         /\ \A w : \A type \in {"TOP_UP", "WITHDRAW"} :
              \A p \in Mutations(w, type) : AmountMoved[p] \in Nat
<1>1. ASSUME NEW w, NEW id \in Paid(w) PROVE AmountPaid[id] \in Nat
  BY <1>1 DEF Paid, AmountPaid, TypeOK, Payment
<1>2. ASSUME NEW w, NEW type \in {"TOP_UP", "WITHDRAW"}, NEW p \in Mutations(w, type)
      PROVE  AmountMoved[p] \in Nat
  BY <1>2, CallOf DEF Mutations, AmountMoved, MutateCall
<1> QED
  BY <1>1, <1>2

LEMMA SumsTyped ==
  ASSUME TypeOK, Countable, NEW w \in Wallets
  PROVE  PaidIn(w) \in Nat /\ Moved(w, "TOP_UP") \in Nat /\ Moved(w, "WITHDRAW") \in Nat
<1>1. PaidIn(w) \in Nat
  BY AmountsTyped, SumNat DEF Countable, PaidIn
<1>2. Moved(w, "TOP_UP") \in Nat
  BY AmountsTyped, SumNat DEF Countable, Moved
<1>3. Moved(w, "WITHDRAW") \in Nat
  BY AmountsTyped, SumNat DEF Countable, Moved
<1> QED
  BY <1>1, <1>2, <1>3

(* A sum whose rows and amounts a step leaves alone. *)
LEMMA PaidSame ==
  ASSUME Countable, NEW w \in Wallets, Paid(w)' = Paid(w),
         \A id \in Paid(w) : AmountPaid'[id] = AmountPaid[id]
  PROVE  PaidIn(w)' = PaidIn(w) /\ IsFiniteSet(Paid(w)')
<1>1. SumFunctionOnSet(AmountPaid', Paid(w)) = SumFunctionOnSet(AmountPaid, Paid(w))
  BY SumSame DEF Countable
<1> QED
  BY <1>1 DEF PaidIn, Countable

LEMMA MovedSame ==
  ASSUME Countable, NEW w \in Wallets, NEW type \in {"TOP_UP", "WITHDRAW"}, call' = call,
         Mutations(w, type)' = Mutations(w, type)
  PROVE  Moved(w, type)' = Moved(w, type) /\ IsFiniteSet(Mutations(w, type)')
BY DEF Moved, AmountMoved, Countable

LEMMA OthersMove ==
  ASSUME TypeOK, NEW p \in Requests, Other(p), call' = call,
         \A q \in Requests \ {p} : pc'[q] = pc[q]
  PROVE  \A w : \A type \in {"TOP_UP", "WITHDRAW"} : Mutations(w, type)' = Mutations(w, type)
BY DEF Mutations, Other

LEMMA IdleExplained ==
  ASSUME BalanceInv, Idle
  PROVE  Countable' /\ \A w \in Wallets : Explained(w)'
<1>1. Countable /\ call' = call /\ wallets' = wallets
  BY DEF BalanceInv, Idle
<1>2. ASSUME NEW w \in Wallets, NEW type \in {"TOP_UP", "WITHDRAW"}
      PROVE  Mutations(w, type)' = Mutations(w, type)
  BY DEF Idle, Mutations
<1>3. ASSUME NEW w \in Wallets
      PROVE  PaidIn(w)' = PaidIn(w) /\ IsFiniteSet(Paid(w)')
  BY <1>1 DEF Idle, PaidIn, Paid, AmountPaid, Countable
<1>4. ASSUME NEW w \in Wallets, NEW type \in {"TOP_UP", "WITHDRAW"}
      PROVE  Moved(w, type)' = Moved(w, type) /\ IsFiniteSet(Mutations(w, type)')
  BY <1>1, <1>2, MovedSame
<1> QED
  BY <1>1, <1>3, <1>4 DEF BalanceInv, Countable, Explained

LEMMA InsertExplained ==
  ASSUME BalanceInv, NEW p \in Requests, Inserts(p)
  PROVE  Countable' /\ \A w \in Wallets : Explained(w)'
<1>1. /\ TypeOK /\ Countable /\ call' = call /\ wallets' = wallets /\ Other(p)
      /\ PaymentIdOf(p) \notin DOMAIN payments
  BY DEF BalanceInv, Inserts, Serves
<1>2. /\ DOMAIN payments' = DOMAIN payments \cup {PaymentIdOf(p)}
      /\ payments'[PaymentIdOf(p)].status = "PENDING"
      /\ \A id \in DOMAIN payments : payments'[id] = payments[id]
  BY <1>1, InsertsRow
<1>3. ASSUME NEW w \in Wallets
      PROVE  PaidIn(w)' = PaidIn(w) /\ IsFiniteSet(Paid(w)')
  <2>1. Paid(w)' = Paid(w)
    BY <1>1, <1>2 DEF Paid
  <2>2. \A id \in Paid(w) : AmountPaid'[id] = AmountPaid[id]
    BY <1>2 DEF Paid, AmountPaid
  <2> QED
    BY <1>1, <2>1, <2>2, PaidSame
<1>4. ASSUME NEW w \in Wallets, NEW type \in {"TOP_UP", "WITHDRAW"}
      PROVE  Moved(w, type)' = Moved(w, type) /\ IsFiniteSet(Mutations(w, type)')
  <2>1. \A q \in Requests \ {p} : pc'[q] = pc[q]
    BY <1>1 DEF Inserts, Return, GoTo, TypeOK
  <2> QED
    BY <1>1, <2>1, OthersMove, MovedSame
<1> QED
  BY <1>1, <1>3, <1>4 DEF BalanceInv, Countable, Explained

LEMMA SettleExplained ==
  ASSUME BalanceInv, NEW p \in Requests, Settles(p)
  PROVE  Countable' /\ \A w \in Wallets : Explained(w)'
<1>1. /\ TypeOK /\ Countable /\ call' = call /\ Other(p)
  BY DEF BalanceInv, Settles, Serves
<1>2. PICK it, status, v, m :
        /\ it = apply[p].payment /\ status = apply[p].status
        /\ v = payments[it].wallet /\ m = payments[it].amount
  OBVIOUS
<1>3. /\ it \in DOMAIN payments /\ status # "PENDING" /\ payments[it].status = "PENDING"
      /\ v \in Wallets /\ m \in Nat /\ payments[it] \in Payment
      /\ DOMAIN payments' = DOMAIN payments
      /\ \A id \in DOMAIN payments :
           payments'[id] = IF id = it THEN [payments[id] EXCEPT !.status = status]
                           ELSE payments[id]
  BY <1>1, <1>2, SettlesRow DEF Settles, StillPending, Payment
<1>4. payments'[it].wallet = v /\ payments'[it].amount = m /\ payments'[it].status = status
  BY <1>2, <1>3 DEF Payment
<1>5. \A id \in DOMAIN payments : AmountPaid'[id] = AmountPaid[id]
  BY <1>2, <1>3, <1>4 DEF AmountPaid
<1>6. ASSUME NEW w \in Wallets, NEW type \in {"TOP_UP", "WITHDRAW"}
      PROVE  Moved(w, type)' = Moved(w, type) /\ IsFiniteSet(Mutations(w, type)')
  <2>1. \A q \in Requests \ {p} : pc'[q] = pc[q]
    BY <1>1 DEF Settles, Return, GoTo, TypeOK
  <2> QED
    BY <1>1, <2>1, OthersMove, MovedSame
<1>7. wallets' = IF status = "PAID"
                 THEN [wallets EXCEPT ![v] = Stored(Apply("TOP_UP", wallets[v], m))]
                 ELSE wallets
  BY <1>2, <1>3 DEF Settles, Credited, Payment
<1>8. ASSUME NEW w \in Wallets, ~(status = "PAID" /\ w = v)
      PROVE  /\ PaidIn(w)' = PaidIn(w) /\ IsFiniteSet(Paid(w)')
             /\ wallets'[w] = wallets[w]
  <2>1. Paid(w)' = Paid(w)
    BY <1>2, <1>3, <1>4, <1>8 DEF Paid
  <2>2. \A id \in Paid(w) : AmountPaid'[id] = AmountPaid[id]
    BY <1>5 DEF Paid
  <2>3. wallets'[w] = wallets[w]
    BY <1>7, <1>8
  <2> QED
    BY <1>1, <2>1, <2>2, <2>3, PaidSame
<1>9. ASSUME status = "PAID"
      PROVE  /\ PaidIn(v)' = PaidIn(v) + m /\ IsFiniteSet(Paid(v)')
             /\ wallets'[v].active = wallets[v].active + m
  <2>1. Paid(v)' = Paid(v) \cup {it} /\ it \notin Paid(v)
    BY <1>2, <1>3, <1>4, <1>9 DEF Paid
  <2>2. IsFiniteSet(Paid(v)) /\ IsFiniteSet(Paid(v)')
    BY <1>1, <1>3, <2>1, FS_AddElement DEF Countable
  <2>3. AmountPaid'[it] = m
    BY <1>2, <1>3, <1>5 DEF AmountPaid
  <2>4. \A id \in Paid(v) : AmountPaid[id] \in Int /\ AmountPaid'[id] = AmountPaid[id]
    BY <1>1, <1>5, AmountsTyped DEF Paid
  <2>5. SumFunctionOnSet(AmountPaid', Paid(v) \cup {it}) = SumFunctionOnSet(AmountPaid, Paid(v)) + m
    <3>1. AmountPaid'[it] \in Int
      BY <1>3, <2>3
    <3> QED
      BY <2>1, <2>2, <2>3, <2>4, <3>1, SumExtend
  <2>6. wallets'[v] = Stored(Apply("TOP_UP", wallets[v], m))
    BY <1>1, <1>3, <1>7, <1>9 DEF TypeOK
  <2>7. wallets[v] \in Wallet
    BY <1>1, <1>3 DEF TypeOK
  <2>8. Stored(Apply("TOP_UP", wallets[v], m)).active = wallets[v].active + m
    BY <1>3, <2>7 DEF Stored, Apply, ActiveMove, CreditsActive, Wallet
  <2> QED
    BY <2>1, <2>2, <2>5, <2>6, <2>8 DEF PaidIn
<1>10. Countable'
  BY <1>3, <1>6, <1>8, <1>9 DEF Countable
<1>11. ASSUME NEW w \in Wallets PROVE Explained(w)'
  <2>1. CASE ~(status = "PAID" /\ w = v)
    BY <1>6, <1>8, <2>1 DEF BalanceInv, Explained
  <2>2. CASE status = "PAID" /\ w = v
    <3>1. /\ PaidIn(v) \in Nat /\ Moved(v, "TOP_UP") \in Nat /\ Moved(v, "WITHDRAW") \in Nat
          /\ wallets[v].active = InitialActive + PaidIn(v) + Moved(v, "TOP_UP")
                                   - Moved(v, "WITHDRAW")
      BY <1>1, <1>3, SumsTyped DEF BalanceInv, Explained
    <3>2. /\ PaidIn(v)' = PaidIn(v) + m /\ wallets'[v].active = wallets[v].active + m
          /\ Moved(v, "TOP_UP")' = Moved(v, "TOP_UP")
          /\ Moved(v, "WITHDRAW")' = Moved(v, "WITHDRAW")
      BY <1>3, <1>6, <1>9, <2>2
    <3> QED
      BY <1>3, <2>2, <3>1, <3>2, BoundsAssumption DEF Explained
  <2> QED
    BY <2>1, <2>2
<1> QED
  BY <1>10, <1>11

LEMMA MoveExplained ==
  ASSUME BalanceInv, NEW p \in Requests, Moves(p)
  PROVE  Countable' /\ \A w \in Wallets : Explained(w)'
<1>1. /\ TypeOK /\ Countable /\ call' = call /\ payments' = payments
      /\ pc[p] = "update" /\ pc' = [pc EXCEPT ![p] = "ok"]
  BY DEF BalanceInv, Moves, GoTo, locals
<1>2. PICK v, m, op : v = call[p].wallet /\ m = call[p].amount /\ op = call[p].op
  OBVIOUS
<1>3. call[p] \in MutateCall
  BY <1>1, CallOf DEF BalanceInv, Serves
<1>4. v \in Wallets /\ m \in Nat /\ op \in {"TOP_UP", "WITHDRAW"}
  BY <1>2, <1>3 DEF MutateCall
<1>5. snap[p] = wallets[v] /\ wallets[v] \in Wallet
  BY <1>1, <1>2, <1>4 DEF Moves, BalanceInv, SnapshotCurrent, TypeOK
<1>6. /\ wallets' = [wallets EXCEPT ![v] = Stored(Apply(op, wallets[v], m))]
  BY <1>2, <1>5 DEF Moves
<1>7. wallets'[v].active = wallets[v].active + (IF op = "TOP_UP" THEN m ELSE -m)
  <2>1. wallets'[v] = Stored(Apply(op, wallets[v], m))
    BY <1>1, <1>4, <1>6 DEF TypeOK
  <2>2. Stored(Apply(op, wallets[v], m)).active = wallets[v].active + ActiveMove(op, m)
    BY <1>5 DEF Stored, Apply, Wallet
  <2>3. ActiveMove(op, m) = IF op = "TOP_UP" THEN m ELSE -m
    BY <1>4 DEF ActiveMove, CreditsActive, DebitsActive
  <2> QED
    BY <2>1, <2>2, <2>3
<1>8. ASSUME NEW w \in Wallets PROVE PaidIn(w)' = PaidIn(w) /\ IsFiniteSet(Paid(w)')
  BY <1>1 DEF PaidIn, Paid, AmountPaid, Countable
<1>9. ASSUME NEW w \in Wallets, NEW type \in {"TOP_UP", "WITHDRAW"}, ~(w = v /\ type = op)
      PROVE  Moved(w, type)' = Moved(w, type) /\ IsFiniteSet(Mutations(w, type)')
  <2>1. Mutations(w, type)' = Mutations(w, type)
    BY <1>1, <1>2, <1>9 DEF Mutations, TypeOK
  <2> QED
    BY <1>1, <2>1, MovedSame
<1>10. Moved(v, op)' = Moved(v, op) + m /\ IsFiniteSet(Mutations(v, op)')
  <2>1. Mutations(v, op)' = Mutations(v, op) \cup {p} /\ p \notin Mutations(v, op)
    BY <1>1, <1>2 DEF Mutations, TypeOK
  <2>2. IsFiniteSet(Mutations(v, op)) /\ IsFiniteSet(Mutations(v, op)')
    BY <1>1, <1>4, <2>1, FS_AddElement DEF Countable
  <2>3. AmountMoved' = AmountMoved /\ AmountMoved[p] = m
    BY <1>1, <1>2 DEF AmountMoved
  <2>4. \A q \in Mutations(v, op) \cup {p} : AmountMoved[q] \in Int
    BY <1>1, <1>4, <2>3, AmountsTyped
  <2>5. SumFunctionOnSet(AmountMoved, Mutations(v, op) \cup {p})
          = AmountMoved[p] + SumFunctionOnSet(AmountMoved, Mutations(v, op))
    BY <2>1, <2>2, <2>4, SumAdd
  <2>6. Moved(v, op) \in Nat
    BY <1>1, <1>4, SumsTyped
  <2>7. Moved(v, op)' = m + Moved(v, op)
    BY <2>1, <2>3, <2>5 DEF Moved
  <2> QED
    BY <1>4, <2>2, <2>6, <2>7
<1>11. Countable'
  BY <1>4, <1>8, <1>9, <1>10 DEF Countable
<1>12. ASSUME NEW w \in Wallets PROVE Explained(w)'
  <2>1. CASE w # v
    <3>1. wallets'[w] = wallets[w]
      BY <1>1, <1>6, <2>1 DEF TypeOK
    <3> QED
      BY <1>8, <1>9, <2>1, <3>1 DEF BalanceInv, Explained
  <2>2. CASE w = v
    <3>1. /\ PaidIn(v) \in Nat /\ Moved(v, "TOP_UP") \in Nat /\ Moved(v, "WITHDRAW") \in Nat
          /\ wallets[v].active = InitialActive + PaidIn(v) + Moved(v, "TOP_UP")
                                   - Moved(v, "WITHDRAW")
      BY <1>1, <1>4, SumsTyped DEF BalanceInv, Explained
    <3>2. CASE op = "TOP_UP"
      <4>1. /\ PaidIn(v)' = PaidIn(v) /\ wallets'[v].active = wallets[v].active + m
            /\ Moved(v, "TOP_UP")' = Moved(v, "TOP_UP") + m
            /\ Moved(v, "WITHDRAW")' = Moved(v, "WITHDRAW")
        BY <1>4, <1>7, <1>8, <1>9, <1>10, <3>2
      <4> QED
        BY <1>4, <2>2, <3>1, <4>1, BoundsAssumption DEF Explained
    <3>3. CASE op = "WITHDRAW"
      <4>1. /\ PaidIn(v)' = PaidIn(v) /\ wallets'[v].active = wallets[v].active + -m
            /\ Moved(v, "TOP_UP")' = Moved(v, "TOP_UP")
            /\ Moved(v, "WITHDRAW")' = Moved(v, "WITHDRAW") + m
        BY <1>4, <1>7, <1>8, <1>9, <1>10, <3>3
      <4> QED
        BY <1>4, <2>2, <3>1, <4>1, BoundsAssumption DEF Explained
    <3> QED
      BY <1>4, <3>2, <3>3
  <2> QED
    BY <2>1, <2>2
<1> QED
  BY <1>11, <1>12

LEMMA BalanceInit == Init => BalanceInv
<1> SUFFICES ASSUME Init PROVE BalanceInv
  OBVIOUS
<1>1. TypeOK /\ Serves /\ SnapshotCurrent
  BY TypeInit DEF Init, Serves, SnapshotCurrent
<1>2. ASSUME NEW w \in Wallets
      PROVE  /\ Paid(w) = {} /\ Mutations(w, "TOP_UP") = {} /\ Mutations(w, "WITHDRAW") = {}
             /\ wallets[w].active = InitialActive
  BY DEF Init, Paid, Mutations, OpenPayment, NewWallet
<1>3. Countable
  BY <1>2, FS_EmptySet DEF Countable
<1>4. ASSUME NEW w \in Wallets PROVE Explained(w)
  <2>1. PaidIn(w) = 0 /\ Moved(w, "TOP_UP") = 0 /\ Moved(w, "WITHDRAW") = 0
    BY <1>2, SumEmpty DEF PaidIn, Moved
  <2> QED
    BY <1>2, <2>1, BoundsAssumption DEF Explained
<1> QED
  BY <1>1, <1>3, <1>4 DEF BalanceInv

LEMMA BalanceStep == BalanceInv /\ [Next]_vars => BalanceInv'
<1> SUFFICES ASSUME BalanceInv, [Next]_vars PROVE BalanceInv'
  OBVIOUS
<1>1. TypeOK' /\ Serves' /\ SnapshotCurrent'
  BY TypeStep, ServesStep, SnapshotStep DEF BalanceInv
<1>2. Countable' /\ \A w \in Wallets : Explained(w)'
  BY WhoMoves, IdleExplained, InsertExplained, SettleExplained, MoveExplained DEF BalanceInv
<1> QED
  BY <1>1, <1>2 DEF BalanceInv

(* A wallet's balance is what was paid in and taken out: every PAID payment credited
   once, every mutation that ended well carried out once, and none of them undone by
   another that read the wallet before. *)
THEOREM BalanceIsExplained == Spec => []BalanceExplained
<1>1. BalanceInv => BalanceExplained
  BY ExplainedIsBalance DEF BalanceInv
<1> QED
  BY <1>1, BalanceInit, BalanceStep, PTL DEF Spec

-----------------------------------------------------------------------------
(* The wallet page.  From the moment it has read its unpaid payments, each payment
   that was there is PAID, or in the handler's hands: waiting in its list, being
   expired, or shown, unless the page's history has it. *)
InHand(p, id) ==
  \/ payments[id].status = "PAID"
  \/ \E row \in queue[p] \cup shown[p] : row.id = id
  \/ pc[p] \in {"applyRead", "applyWrite"} /\ apply[p].payment = id
  \/ pc[p] = "ok" /\ id \in history[p]

PageOK(p) ==
  /\ pc[p] \in {"list", "applyRead", "applyWrite", "ok"} =>
       \A id \in OpenPayments : payments[id].wallet = call[p].wallet => InHand(p, id)
  /\ pc[p] = "ok" => queue[p] = {}

PageInv ==
  /\ OpenPayments \subseteq DOMAIN payments
  /\ \A p \in Requests : call[p].op = "detail" => PageOK(p)

SameHandler(p) ==
  /\ pc'[p] = pc[p] /\ apply'[p] = apply[p] /\ history'[p] = history[p]
  /\ queue'[p] = queue[p] /\ shown'[p] = shown[p]

(* What the handler of a wallet page may do. *)
LEMMA PageSteps ==
  ASSUME TypeOK, Next, NEW q \in Requests, call[q].op = "detail"
  PROVE  /\ call' = call
         /\ \/ SameHandler(q)
            \/ DetailHistory(q) \/ DetailUnpaid(q) \/ ListNext(q) \/ ListDone(q)
            \/ ApplyRead(q) \/ ApplyWrite(q) \/ pc'[q] = "aborted"
<1> USE DEF SameHandler, TypeOK
<1>1. ASSUME NEW p \in Requests,
             IntentLookup(p) \/ IntentCharge(p) \/ IntentInsert(p) \/ IntentRelookup(p)
      PROVE  call' = call /\ SameHandler(q)
  <2>1. p # q
    BY <1>1 DEF IntentLookup, IntentCharge, IntentInsert, IntentRelookup, HandlerOK, IntentCall
  <2> QED
    BY <1>1, <2>1 DEF IntentLookup, IntentCharge, IntentInsert, IntentRelookup, Return, Quit,
       Proceed, Answer, GoTo, tables, locals
<1>2. ASSUME NEW p \in Requests, StatusStart(p) \/ SyncRead(p) \/ SyncFetch(p)
      PROVE  call' = call /\ SameHandler(q)
  <2>1. p # q
    BY <1>2 DEF StatusStart, SyncRead, SyncFetch, HandlerOK, SyncCall
  <2> QED
    BY <1>2, <2>1 DEF StatusStart, SyncRead, SyncFetch, ApplyKnown, ApplyTo, Return, Quit,
       Proceed, Answer, GoTo, tables, locals
<1>3. ASSUME NEW p \in Requests, ApplyRead(p) \/ ApplyWrite(p)
      PROVE  call' = call /\ (p # q => SameHandler(q))
  BY <1>3 DEF ApplyRead, ApplyWrite, Return, Quit, Proceed, Answer, GoTo, tables, locals
<1>4. ASSUME NEW p \in Requests, DetailHistory(p) \/ DetailUnpaid(p) \/ ListNext(p) \/ ListDone(p)
      PROVE  call' = call /\ (p # q => SameHandler(q))
  BY <1>4 DEF DetailHistory, DetailUnpaid, ListNext, ListDone, ApplyTo, GoTo, tables
<1>5. ASSUME NEW p \in Requests, GetRead(p) \/ MutateRead(p) \/ MutateUpdate(p)
      PROVE  call' = call /\ SameHandler(q)
  <2>1. p # q
    BY <1>5 DEF GetRead, MutateRead, MutateUpdate, HandlerOK, MutateCall
  <2> QED
    BY <1>5, <2>1 DEF GetRead, MutateRead, MutateUpdate, Quit, GoTo, tables, locals
<1>6. ASSUME NEW p \in Requests, Abort(p)
      PROVE  call' = call /\ (SameHandler(q) \/ pc'[q] = "aborted")
  BY <1>6 DEF Abort, GoTo, locals
<1>7. ASSUME NEW id \in PaymentIds, GrowOld(id) PROVE call' = call /\ SameHandler(q)
  BY <1>7 DEF GrowOld, locals
<1> QED
  BY <1>1, <1>2, <1>3, <1>4, <1>5, <1>6, <1>7 DEF Next

(* A payment keeps its wallet, and once PAID stays PAID. *)
LEMMA PaymentsStay ==
  ASSUME TypeOK, [Next]_vars
  PROVE  /\ DOMAIN payments \subseteq DOMAIN payments'
         /\ \A id \in DOMAIN payments :
              /\ payments'[id].wallet = payments[id].wallet
              /\ payments[id].status = "PAID" => payments'[id].status = "PAID"
<1>1. ASSUME NEW p \in Requests, Inserts(p)
      PROVE  /\ DOMAIN payments \subseteq DOMAIN payments'
             /\ \A id \in DOMAIN payments : payments'[id] = payments[id]
  BY <1>1, InsertsRow DEF Inserts
<1>2. ASSUME NEW p \in Requests, Settles(p), NEW id \in DOMAIN payments
      PROVE  /\ payments'[id].wallet = payments[id].wallet
             /\ payments[id].status = "PAID" => payments'[id].status = "PAID"
  BY <1>2, SettlesRow DEF TypeOK, Payment, Settles, StillPending
<1> QED
  BY <1>1, <1>2, SettlesRow, WhoWrites

LEMMA PageOwnStep ==
  ASSUME TypeOK, TypeOK', PageInv, [Next]_vars, call' = call,
         NEW p \in Requests, call[p].op = "detail",
         \/ DetailUnpaid(p) \/ ListNext(p) \/ ListDone(p) \/ ApplyRead(p) \/ ApplyWrite(p)
  PROVE  PageOK(p)'
<1> SUFFICES ASSUME pc'[p] \in {"list", "applyRead", "applyWrite", "ok"}
             PROVE  /\ \A id \in OpenPayments :
                         payments'[id].wallet = call[p].wallet => InHand(p, id)'
                    /\ pc'[p] = "ok" => queue'[p] = {}
  BY DEF PageOK
<1>1. ASSUME NEW id \in OpenPayments
      PROVE  /\ id \in DOMAIN payments /\ payments[id].id = id
             /\ payments'[id].wallet = payments[id].wallet
             /\ payments[id].status = "PAID" => payments'[id].status = "PAID"
  BY PaymentsStay DEF PageInv, TypeOK
<1>2. ASSUME NEW id \in OpenPayments, payments[id].wallet = call[p].wallet,
             pc[p] \in {"list", "applyRead", "applyWrite"}
      PROVE  InHand(p, id)
  BY <1>2 DEF PageInv, PageOK
<1>3. CASE DetailUnpaid(p)
  <2>1. pc'[p] = "list" /\ queue'[p] = Unpaid(call[p].wallet) /\ payments' = payments
    BY <1>3 DEF DetailUnpaid, GoTo, TypeOK, tables
  <2>2. ASSUME NEW id \in OpenPayments, payments[id].wallet = call[p].wallet,
               payments[id].status # "PAID"
        PROVE  \E row \in queue'[p] : row.id = id
    BY <1>1, <2>1, <2>2 DEF Unpaid, Range
  <2> QED
    BY <2>1, <2>2 DEF InHand
<1>4. CASE ListNext(p)
  <2>1. PICK row \in queue[p] :
          /\ queue'[p] = queue[p] \ {row} /\ payments' = payments
          /\ \/ /\ pc'[p] = "applyRead" /\ apply'[p].payment = row.id /\ shown'[p] = shown[p]
             \/ pc'[p] = pc[p] /\ shown'[p] = shown[p] \cup {row}
    BY <1>4 DEF ListNext, ApplyTo, GoTo, TypeOK, tables
  <2>2. pc[p] = "list" /\ pc'[p] # "ok"
    BY <1>4, <2>1 DEF ListNext
  <2>3. ASSUME NEW id \in OpenPayments, payments[id].wallet = call[p].wallet
        PROVE  InHand(p, id)'
    <3>1. payments[id].status = "PAID" \/ \E r \in queue[p] \cup shown[p] : r.id = id
      BY <1>2, <2>2, <2>3 DEF InHand
    <3> QED
      BY <2>1, <3>1 DEF InHand
  <2> QED
    BY <1>1, <2>2, <2>3
<1>5. CASE ListDone(p)
  <2>1. /\ pc[p] = "list" /\ queue[p] = {} /\ queue'[p] = {} /\ payments' = payments
        /\ shown'[p] = {row \in shown[p] : row.id \notin history[p]}
        /\ history'[p] = history[p] /\ pc'[p] = "ok"
    BY <1>5 DEF ListDone, GoTo, TypeOK, tables
  <2>2. ASSUME NEW id \in OpenPayments, payments[id].wallet = call[p].wallet
        PROVE  InHand(p, id)'
    <3>1. payments[id].status = "PAID" \/ \E r \in shown[p] : r.id = id
      BY <1>2, <2>1, <2>2 DEF InHand
    <3> QED
      BY <2>1, <3>1 DEF InHand
  <2> QED
    BY <1>1, <2>1, <2>2
<1>6. ASSUME NEW row, row.id = apply[p].payment, pc[p] \in {"applyRead", "applyWrite"},
             pc'[p] = "list", queue'[p] = queue[p], shown'[p] = shown[p] \cup {row}
      PROVE  PageOK(p)'
  <2>1. ASSUME NEW id \in OpenPayments, payments[id].wallet = call[p].wallet
        PROVE  InHand(p, id)'
    <3>1. \/ payments[id].status = "PAID" \/ apply[p].payment = id
          \/ \E r \in queue[p] \cup shown[p] : r.id = id
      BY <1>2, <1>6, <2>1 DEF InHand
    <3> QED
      BY <1>1, <1>6, <3>1 DEF InHand
  <2> QED
    BY <1>1, <1>6, <2>1 DEF PageOK
<1>7. ASSUME NEW row, row.id = apply[p].payment, pc[p] \in {"applyRead", "applyWrite"},
             Answer(p, row)
      PROVE  PageOK(p)'
  <2>1. pc'[p] = "list" /\ queue'[p] = queue[p] /\ shown'[p] = shown[p] \cup {row}
    BY <1>7 DEF Answer, Return, GoTo, TypeOK
  <2> QED
    BY <1>6, <1>7, <2>1
<1>8. CASE ApplyRead(p)
  <2>1. pc[p] = "applyRead"
    BY <1>8 DEF ApplyRead
  <2>2. CASE Quit(p, "error")
    BY <2>2 DEF Quit, GoTo, TypeOK
  <2>3. CASE /\ apply[p].payment \in DOMAIN payments
             /\ Answer(p, payments[apply[p].payment])
    BY <1>7, <2>1, <2>3 DEF PageOK, TypeOK
  <2>4. CASE Proceed(p, "applyWrite")
    <3>1. /\ pc'[p] = "applyWrite" /\ payments' = payments /\ queue'[p] = queue[p]
          /\ shown'[p] = shown[p] /\ apply'[p] = apply[p]
      BY <2>4 DEF Proceed, GoTo, TypeOK, tables, locals
    <3> QED
      BY <1>1, <1>2, <2>1, <3>1 DEF InHand
  <2> QED
    BY <1>8, <2>2, <2>3, <2>4 DEF ApplyRead
<1>9. CASE ApplyWrite(p)
  <2>1. pc[p] = "applyWrite" /\ apply[p].payment \in DOMAIN payments
    BY <1>9 DEF ApplyWrite, TypeOK, HandlerOK
  <2>2. CASE Quit(p, "error")
    BY <2>2 DEF Quit, GoTo, TypeOK
  <2>3. CASE Answer(p, payments[apply[p].payment])
    BY <1>7, <2>1, <2>3 DEF PageOK, TypeOK
  <2>4. CASE Settles(p)
    <3>1. PICK row : row = [payments[apply[p].payment] EXCEPT !.status = apply[p].status]
      OBVIOUS
    <3>2. row.id = apply[p].payment
      BY <2>4, <3>1, SettlesRow
    <3>3. pc'[p] = "list" /\ queue'[p] = queue[p] /\ shown'[p] = shown[p] \cup {row}
      BY <2>4, <3>1 DEF Settles, Return, GoTo, TypeOK
    <3> QED
      BY <1>6, <2>1, <3>2, <3>3 DEF PageOK
  <2> QED
    BY <1>9, <2>2, <2>3, <2>4, ApplyWriteCases
<1> QED
  BY <1>3, <1>4, <1>5, <1>8, <1>9

LEMMA PageStep == TypeOK /\ PageInv /\ [Next]_vars => PageInv'
<1> SUFFICES ASSUME TypeOK, PageInv, [Next]_vars PROVE PageInv'
  OBVIOUS
<1>0. TypeOK'
  BY TypeStep
<1>1. CASE UNCHANGED vars
  BY <1>1 DEF PageInv, PageOK, InHand, vars, tables, locals
<1>2. ASSUME Next, NEW p \in Requests, call'[p].op = "detail", call[p].op = "detail"
      PROVE  PageOK(p)'
  <2>1. call' = call
    BY <1>2, PageSteps
  <2>2. CASE SameHandler(p)
    <3>1. ASSUME NEW id \in OpenPayments
          PROVE  /\ payments'[id].wallet = payments[id].wallet
                 /\ payments[id].status = "PAID" => payments'[id].status = "PAID"
      BY PaymentsStay DEF PageInv
    <3>2. PageOK(p)
      BY <1>2 DEF PageInv
    <3>3. \A id \in OpenPayments : InHand(p, id) => InHand(p, id)'
      BY <2>2, <3>1 DEF InHand, SameHandler
    <3> QED
      BY <2>1, <2>2, <3>1, <3>2, <3>3 DEF PageOK, SameHandler
  <2>3. CASE DetailHistory(p) \/ pc'[p] = "aborted"
    BY <2>3 DEF DetailHistory, GoTo, TypeOK, PageOK
  <2>4. CASE DetailUnpaid(p) \/ ListNext(p) \/ ListDone(p) \/ ApplyRead(p) \/ ApplyWrite(p)
    BY <1>0, <1>2, <2>1, <2>4, PageOwnStep
  <2> QED
    BY <1>2, <2>2, <2>3, <2>4, PageSteps
<1>3. OpenPayments \subseteq DOMAIN payments'
  BY PaymentsStay DEF PageInv
<1>4. ASSUME Next, NEW p \in Requests PROVE call'[p] = call[p]
  BY <1>4, ChargesGrow
<1> QED
  BY <1>1, <1>2, <1>3, <1>4 DEF PageInv

(* The wallet page loses no payment that was there before it was asked for, but those
   that are PAID between its two reads, though it reads its history and its list apart
   and expires what it lists on the way. *)
THEOREM PageShowsUnpaid == Spec => []PageLosesOnlyPaid
<1>1. Init => PageInv
  <2> SUFFICES ASSUME Init PROVE PageInv
    OBVIOUS
  <2>1. DOMAIN payments = OpenPayments
    BY DEF Init
  <2> QED
    BY <2>1 DEF Init, PageInv, PageOK
<1>2. PageInv => PageLosesOnlyPaid
  <2> SUFFICES ASSUME PageInv, NEW p \in Requests, call[p].op = "detail", pc[p] = "ok",
                      NEW id \in OpenPayments, payments[id].wallet = call[p].wallet
               PROVE  \/ id \in history[p] \/ id \in {row.id : row \in shown[p]}
                      \/ payments[id].status = "PAID"
    BY DEF PageLosesOnlyPaid
  <2>1. InHand(p, id) /\ queue[p] = {}
    BY DEF PageInv, PageOK
  <2> QED
    BY <2>1 DEF InHand
<1> QED
  BY <1>1, <1>2, TypeInit, TypeStep, PageStep, PTL DEF Spec
=============================================================================
