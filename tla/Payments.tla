------------------------------ MODULE Payments ------------------------------
(***************************************************************************)
(* Top-up payments: creating an intent (create_top_up_intent), the ways a  *)
(* status reaches it (a callback, the customer's return, a sync with       *)
(* Midtrans, the expiry that reading a payment triggers) and the wallet    *)
(* page that lists them, next to the top-ups and withdrawals that          *)
(* mutate_wallet makes on the same wallet.                                 *)
(*                                                                         *)
(* One action per database statement, as in WalletHolds, except that the   *)
(* pool has a connection for every request.  Module Midtrans says what an  *)
(* exchange with Midtrans may come to; Midtrans reports any status, and    *)
(* reports it again whenever it likes.                                     *)
(***************************************************************************)
EXTENDS WalletDomain, Midtrans, FiniteSets, Functions

CONSTANTS
  Requests, Wallets,
  Keys, NoKey,      \* Idempotency-Key headers; NoKey is a request without one
  OpenPayments,     \* payments made beforehand without a key, still PENDING
  OpenAmount,
  Calls,            \* the calls clients and Midtrans make
  InitialActive,
  MaxCrashes        \* bound on dropped handlers

(* idempotent_operation_id hashes user, role and key; without a key the id is a
   new UUID, here the request's own. *)
PaymentIds == (Wallets \X Keys) \cup Requests \cup OpenPayments

Statuses == {"PENDING", "PAID", "FAILED", "EXPIRED"}

IntentCall == [op : {"intent"}, wallet : Wallets, key : Keys \cup {NoKey}, amount : Nat,
               method : PaymentMethod]
StatusCall == [op : {"status"}, payment : PaymentIds, status : Statuses \cup {"unknown"}]
ReturnCall == [op : {"return"}, payment : PaymentIds, word : StatusWord]
SyncCall   == [op : {"sync"}, payment : PaymentIds]
GetCall    == [op : {"get"}, wallet : Wallets, payment : PaymentIds]
DetailCall == [op : {"detail"}, wallet : Wallets]
MutateCall == [op : {"TOP_UP", "WITHDRAW"}, wallet : Wallets, amount : Nat]

ASSUME CallsAssumption ==
  Calls \subseteq IntentCall \cup StatusCall \cup ReturnCall \cup SyncCall
                    \cup GetCall \cup DetailCall \cup MutateCall
ASSUME KeysAssumption == NoKey \notin Keys
ASSUME BoundsAssumption ==
  InitialActive \in Nat /\ OpenAmount \in Nat \ {0} /\ MaxCrashes \in Nat

VARIABLES
  wallets,   \* table wallets
  payments,  \* table wallet_payment_intents, by the ids it holds
  receipts,  \* the rows of wallet_transactions with source midtrans
  charges,   \* what Midtrans has been asked to collect, by order id
  old,       \* the payments made more than PAYMENT_EXPIRY_MINUTES ago
  pc, call,
  snap,      \* the wallet row mutate_wallet has read
  apply,     \* the payment and status apply_payment_status was called with
  history,   \* the payments with a TOP_UP row the wallet page has read
  queue,     \* payment rows read and not yet looked at
  shown,     \* payment rows for the reply
  crashes

tables == <<wallets, payments, receipts, charges, old>>
locals == <<call, snap, apply, history, queue, shown>>
vars   == <<tables, pc, locals, crashes>>

-----------------------------------------------------------------------------
Payment == [id : PaymentIds, wallet : Wallets, key : Keys \cup {NoKey},
            amount : Nat \ {0}, channel : Channel, status : Statuses]

(* The type of the wallet_transactions row a status leaves. *)
ReceiptType == [PAID |-> "TOP_UP", FAILED |-> "TOP_UP_FAILED", EXPIRED |-> "TOP_UP_EXPIRED"]

NothingToApply == [payment |-> NoKey, status |-> "PENDING"]

Outcomes == {"ok", "error", "conflict", "aborted"}

GoTo(p, label) == pc' = [pc EXCEPT ![p] = label]

Quit(p, outcome) == GoTo(p, outcome) /\ UNCHANGED <<tables, locals, crashes>>

(* The handler goes on to the next statement having learnt nothing. *)
Proceed(p, label) == GoTo(p, label) /\ UNCHANGED <<tables, locals, crashes>>

(* The payment is in hand: it is the reply, or one more row of the list. *)
Return(p, row) ==
  /\ shown' = [shown EXCEPT ![p] = @ \cup {row}]
  /\ GoTo(p, IF call[p].op \in {"get", "detail"} THEN "list" ELSE "ok")

Answer(p, row) ==
  Return(p, row) /\ UNCHANGED <<tables, call, snap, apply, history, queue, crashes>>

(* A call of apply_payment_status. *)
ApplyTo(p, id, status) ==
  /\ apply' = [apply EXCEPT ![p] = [payment |-> id, status |-> status]]
  /\ GoTo(p, "applyRead")

-----------------------------------------------------------------------------
(* create_top_up_intent *)
PaymentIdOf(p) == IF call[p].key = NoKey THEN p ELSE <<call[p].wallet, call[p].key>>

ByKey(w, key) == {id \in DOMAIN payments : payments[id].wallet = w /\ payments[id].key = key}

(* The validation chain, the wallet (it exists) and the search by key. *)
IntentLookup(p) ==
  /\ pc[p] = "new" /\ call[p].op = "intent"
  /\ LET found == ByKey(call[p].wallet, call[p].key) IN
     \/ call[p].amount = 0 /\ Quit(p, "error")
     \/ /\ call[p].amount > 0 /\ call[p].key # NoKey
        /\ \E id \in found : Answer(p, payments[id])
     \/ /\ call[p].amount > 0
        /\ call[p].key = NoKey \/ found = {}
        /\ Proceed(p, "charge")

(* The channel of the page the adapter returns; a local page names it too. *)
ChannelOf(p) == Spellings[call[p].method]

Order(id, amount, channel) == [order |-> id, amount |-> amount, channel |-> channel]

(* create_payment *)
IntentCharge(p) ==
  /\ pc[p] = "charge"
  /\ \E result \in Charge(call[p].method) :
       /\ charges' = IF result.charged
                     THEN charges \cup {Order(PaymentIdOf(p), call[p].amount, ChannelOf(p))}
                     ELSE charges
       /\ GoTo(p, IF result.page THEN "insert" ELSE "error")
  /\ UNCHANGED <<wallets, payments, receipts, old, locals, crashes>>

NewPayment(p) ==
  [id |-> PaymentIdOf(p), wallet |-> call[p].wallet, key |-> call[p].key,
   amount |-> call[p].amount, channel |-> ChannelOf(p), status |-> "PENDING"]

InsertPayment(row) == payments' = [id \in DOMAIN payments \cup {row.id} |->
                                     IF id = row.id THEN row ELSE payments[id]]

(* Mutant: INSERT ... ON CONFLICT DO UPDATE. *)
IntentUpsert(p) ==
  /\ pc[p] = "insert"
  /\ InsertPayment(NewPayment(p))
  /\ Return(p, NewPayment(p))
  /\ UNCHANGED <<wallets, receipts, charges, old, call, snap, apply, history, queue, crashes>>

(* The primary key and the unique index on user, role and key refuse a second
   row.  The row is read back for the reply, in which only the status could differ. *)
IntentInsert(p) ==
  /\ pc[p] = "insert"
  /\ \/ /\ PaymentIdOf(p) \in DOMAIN payments
        /\ Proceed(p, "relookup")
     \/ /\ PaymentIdOf(p) \notin DOMAIN payments
        /\ InsertPayment(NewPayment(p))
        /\ Return(p, NewPayment(p))
        /\ UNCHANGED <<wallets, receipts, charges, old, call, snap, apply, history,
                       queue, crashes>>

(* The row is there: no payment is ever deleted. *)
IntentRelookup(p) ==
  /\ pc[p] = "relookup"
  /\ \E id \in ByKey(call[p].wallet, call[p].key) : Answer(p, payments[id])

-----------------------------------------------------------------------------
(* The ways in: simulate_payment_status, apply_midtrans_payment_result,
   sync_midtrans_payment_status. *)
(* A status that neither mapping nor validation knows ends the call. *)
ApplyKnown(p, id, status) ==
  \/ status \notin Statuses /\ Quit(p, "error")
  \/ /\ status \in Statuses
     /\ ApplyTo(p, id, status)
     /\ UNCHANGED <<tables, call, snap, history, queue, shown, crashes>>

StatusStart(p) ==
  /\ pc[p] = "new"
  /\ \/ call[p].op = "status" /\ ApplyKnown(p, call[p].payment, call[p].status)
     \/ call[p].op = "return" /\ ApplyKnown(p, call[p].payment, Mapped(call[p].word))

SyncRead(p) ==
  /\ pc[p] = "new" /\ call[p].op = "sync"
  /\ LET id == call[p].payment IN
     \/ id \notin DOMAIN payments /\ Quit(p, "error")
     \/ /\ id \in DOMAIN payments
        /\ \/ payments[id].status # "PENDING" /\ Answer(p, payments[id])
           \/ payments[id].status = "PENDING" /\ id \in old /\ ApplyKnown(p, id, "EXPIRED")
           \/ payments[id].status = "PENDING" /\ id \notin old /\ Proceed(p, "fetch")

(* fetch_transaction_status fails, or Midtrans reports what it likes. *)
SyncFetch(p) ==
  /\ pc[p] = "fetch"
  /\ \/ Quit(p, "error")
     \/ \E word \in FetchStatus : ApplyKnown(p, call[p].payment, Mapped(word))

-----------------------------------------------------------------------------
(* apply_payment_status of the repository: one transaction. *)
ApplyRead(p) ==
  /\ pc[p] = "applyRead"
  /\ LET id == apply[p].payment IN
     \/ id \notin DOMAIN payments /\ Quit(p, "error")
     \/ /\ id \in DOMAIN payments
        /\ payments[id].status # "PENDING" \/ apply[p].status = "PENDING"
        /\ Answer(p, payments[id])
     \/ /\ id \in DOMAIN payments
        /\ payments[id].status = "PENDING" /\ apply[p].status # "PENDING"
        /\ Proceed(p, "applyWrite")

(* Mutant: the credit leaves the version alone, so that mutate_wallet cannot tell. *)
CreditedQuietly(w, amount) == [wallets EXCEPT ![w].active = @ + amount]

(* UPDATE wallets SET active_balance = active_balance + $1, version = version + 1 *)
Credited(w, amount) == [wallets EXCEPT ![w] = Stored(Apply("TOP_UP", @, amount))]

(* Mutant: UPDATE ... WHERE id, whatever the status has become. *)
StillPendingAssumed(id) == TRUE

(* UPDATE ... WHERE id AND status = 'PENDING' finds the row. *)
StillPending(id) == payments[id].status = "PENDING"

(* Mutant: the caller is told what it asked for. *)
BeatenTold(p) == [payments[apply[p].payment] EXCEPT !.status = apply[p].status]

(* The UPDATE has found no row: find_payment_intent reads what the other left. *)
Beaten(p) == payments[apply[p].payment]

(* Mutant: the receipt of a failure is a top-up's. *)
ReceiptAlwaysTopUp(id, status) == [payment |-> id, type |-> "TOP_UP"]

Receipt(id, status) == [payment |-> id, type |-> ReceiptType[status]]

(* The conditional UPDATE, the credit when PAID, the receipt (unique per source,
   payment and type) and COMMIT. *)
ApplyWrite(p) ==
  /\ pc[p] = "applyWrite"
  /\ LET id == apply[p].payment
         status == apply[p].status
         row == [payments[id] EXCEPT !.status = status]
         receipt == Receipt(id, status) IN
     \/ ~StillPending(id) /\ Answer(p, Beaten(p))
     \/ StillPending(id) /\ receipt \in receipts /\ Quit(p, "error")
     \/ /\ StillPending(id) /\ receipt \notin receipts
        /\ payments' = [payments EXCEPT ![id] = row]
        /\ wallets' = IF status = "PAID" THEN Credited(row.wallet, row.amount) ELSE wallets
        /\ receipts' = receipts \cup {receipt}
        /\ Return(p, row)
        /\ UNCHANGED <<charges, old, call, snap, apply, history, queue, crashes>>

-----------------------------------------------------------------------------
(* get_payment_intent_for_user, and the wallet page: its history first, then the
   unpaid payments, each expired when its time has come.  (The page's list also has
   the payments of the user's other role; here a user has one.) *)
GetRead(p) ==
  /\ pc[p] = "new" /\ call[p].op = "get"
  /\ LET id == call[p].payment
         visible == id \in DOMAIN payments /\ payments[id].wallet = call[p].wallet IN
     \/ ~visible /\ Quit(p, "error")
     \/ /\ visible
        /\ queue' = [queue EXCEPT ![p] = {payments[id]}]
        /\ GoTo(p, "list")
        /\ UNCHANGED <<tables, call, snap, apply, history, shown, crashes>>

DetailHistory(p) ==
  /\ pc[p] = "new" /\ call[p].op = "detail"
  /\ history' = [history EXCEPT ![p] =
                   {id \in DOMAIN payments :
                      /\ payments[id].wallet = call[p].wallet
                      /\ [payment |-> id, type |-> "TOP_UP"] \in receipts}]
  /\ GoTo(p, "unpaid")
  /\ UNCHANGED <<tables, call, snap, apply, queue, shown, crashes>>

(* Mutant: WHERE status = 'PENDING'. *)
UnpaidIsPending(w) == {row \in Range(payments) : row.wallet = w /\ row.status = "PENDING"}

(* WHERE status IN ('PENDING', 'EXPIRED', 'FAILED') *)
Unpaid(w) == {row \in Range(payments) : row.wallet = w /\ row.status # "PAID"}

DetailUnpaid(p) ==
  /\ pc[p] = "unpaid"
  /\ queue' = [queue EXCEPT ![p] = Unpaid(call[p].wallet)]
  /\ GoTo(p, "list")
  /\ UNCHANGED <<tables, call, snap, apply, history, shown, crashes>>

(* expire_payment_if_needed, on a row that may no longer be current. *)
ListNext(p) ==
  /\ pc[p] = "list"
  /\ \E row \in queue[p] :
       /\ queue' = [queue EXCEPT ![p] = @ \ {row}]
       /\ UNCHANGED <<tables, call, snap, history, crashes>>
       /\ \/ /\ row.status = "PENDING" /\ row.id \in old
             /\ ApplyTo(p, row.id, "EXPIRED")
             /\ UNCHANGED shown
          \/ /\ row.status # "PENDING" \/ row.id \notin old
             /\ shown' = [shown EXCEPT ![p] = @ \cup {row}]
             /\ UNCHANGED <<pc, apply>>

(* filter_unpaid_without_settled_top_up on the wallet page. *)
ListDone(p) ==
  /\ pc[p] = "list" /\ queue[p] = {}
  /\ shown' = [shown EXCEPT ![p] = {row \in @ : row.id \notin history[p]}]
  /\ GoTo(p, "ok")
  /\ UNCHANGED <<tables, call, snap, apply, history, queue, crashes>>

-----------------------------------------------------------------------------
(* mutate_wallet (see WalletHolds); its receipts name no payment. *)
MutateRead(p) ==
  /\ pc[p] = "new" /\ call[p].op \in {"TOP_UP", "WITHDRAW"}
  /\ LET w == wallets[call[p].wallet] IN
     \/ ~Allowed(call[p].op, w, call[p].amount) /\ Quit(p, "error")
     \/ /\ Allowed(call[p].op, w, call[p].amount)
        /\ snap' = [snap EXCEPT ![p] = w]
        /\ GoTo(p, "update")
        /\ UNCHANGED <<tables, call, apply, history, queue, shown, crashes>>

MutateUpdate(p) ==
  /\ pc[p] = "update"
  /\ LET w == call[p].wallet IN
     \/ wallets[w].version # snap[p].version /\ Quit(p, "conflict")
     \/ /\ wallets[w].version = snap[p].version
        /\ wallets' = [wallets EXCEPT ![w] =
                         Stored(Apply(call[p].op, snap[p], call[p].amount))]
        /\ GoTo(p, "ok")
        /\ UNCHANGED <<payments, receipts, charges, old, locals, crashes>>

(* PAYMENT_EXPIRY_MINUTES pass. *)
GrowOld(id) ==
  /\ id \in DOMAIN payments \ old
  /\ old' = old \cup {id}
  /\ UNCHANGED <<wallets, payments, receipts, charges, pc, locals, crashes>>

(* A handler is dropped between two statements; what it has committed stays. *)
Abort(p) ==
  /\ crashes < MaxCrashes
  /\ pc[p] \notin {"new"} \cup Outcomes
  /\ crashes' = crashes + 1
  /\ GoTo(p, "aborted")
  /\ UNCHANGED <<tables, locals>>

-----------------------------------------------------------------------------
OpenPayment(id, w) ==
  [id |-> id, wallet |-> w, key |-> NoKey, amount |-> OpenAmount, channel |-> "bca_va",
   status |-> "PENDING"]

Init ==
  /\ wallets = [w \in Wallets |-> [NewWallet EXCEPT !.active = InitialActive]]
  /\ payments \in {[id \in OpenPayments |-> OpenPayment(id, w)] : w \in Wallets}
  /\ receipts = {}
  /\ charges = {Order(id, OpenAmount, "bca_va") : id \in OpenPayments}
  /\ old = {}
  /\ pc = [p \in Requests |-> "new"]
  /\ call \in [Requests -> Calls]
  /\ snap = [p \in Requests |-> NewWallet]
  /\ apply = [p \in Requests |-> NothingToApply]
  /\ history = [p \in Requests |-> {}]
  /\ queue = [p \in Requests |-> {}]
  /\ shown = [p \in Requests |-> {}]
  /\ crashes = 0

Next ==
  \/ \E p \in Requests :
       \/ IntentLookup(p) \/ IntentCharge(p) \/ IntentInsert(p) \/ IntentRelookup(p)
       \/ StatusStart(p) \/ SyncRead(p) \/ SyncFetch(p)
       \/ ApplyRead(p) \/ ApplyWrite(p)
       \/ GetRead(p) \/ DetailHistory(p) \/ DetailUnpaid(p) \/ ListNext(p) \/ ListDone(p)
       \/ MutateRead(p) \/ MutateUpdate(p) \/ Abort(p)
  \/ \E id \in PaymentIds : GrowOld(id)

Spec == Init /\ [][Next]_vars

-----------------------------------------------------------------------------
(* What a handler has established when it is about to execute the statement named:
   the call it serves, that the row it will update exists, that its operation was
   allowed on the row it read. *)
HandlerOK(p) ==
  /\ pc[p] \in {"charge", "insert", "relookup"} => call[p] \in IntentCall /\ call[p].amount > 0
  /\ pc[p] = "insert" => Parses(call[p].method)
  /\ pc[p] = "fetch" => call[p] \in SyncCall
  /\ pc[p] = "applyRead" => apply[p].payment \in PaymentIds
  /\ pc[p] = "applyWrite" =>
       apply[p].payment \in DOMAIN payments /\ apply[p].status # "PENDING"
  /\ pc[p] = "update" =>
       call[p] \in MutateCall /\ Allowed(call[p].op, snap[p], call[p].amount)

TypeOK ==
  /\ wallets \in [Wallets -> Wallet]
  /\ DOMAIN payments \subseteq PaymentIds
  /\ payments \in [DOMAIN payments -> Payment]
  /\ \A id \in DOMAIN payments : payments[id].id = id
  /\ receipts \subseteq [payment : DOMAIN payments, type : Range(ReceiptType)]
  /\ charges \subseteq [order : PaymentIds, amount : Nat \ {0}, channel : Channel]
  /\ old \subseteq DOMAIN payments
  /\ pc \in [Requests -> {"new", "charge", "insert", "relookup", "fetch", "applyRead",
                          "applyWrite", "unpaid", "list", "update"} \cup Outcomes]
  /\ call \in [Requests -> Calls]
  /\ snap \in [Requests -> Wallet]
  /\ apply \in [Requests -> [payment : PaymentIds \cup {NoKey}, status : Statuses]]
  /\ history \in [Requests -> SUBSET DOMAIN payments]
  /\ queue \in [Requests -> SUBSET Payment]
  /\ shown \in [Requests -> SUBSET Payment]
  /\ crashes \in 0 .. MaxCrashes
  /\ \A p \in Requests : HandlerOK(p)

-----------------------------------------------------------------------------
Paid(w) == {id \in DOMAIN payments : payments[id].wallet = w /\ payments[id].status = "PAID"}
Mutations(w, type) ==
  {p \in Requests : call[p].op = type /\ call[p].wallet = w /\ pc[p] = "ok"}

(* The balance is what was paid in and taken out: every PAID payment is credited
   once, however often its status is reported and by whom, and no versioned write of
   mutate_wallet undoes a credit that came in after its read. *)
BalanceExplained ==
  \A w \in Wallets :
    wallets[w].active =
      InitialActive
        + SumFunctionOnSet([id \in DOMAIN payments |-> payments[id].amount], Paid(w))
        + SumFunctionOnSet([p \in Requests |-> call[p].amount], Mutations(w, "TOP_UP"))
        - SumFunctionOnSet([p \in Requests |-> call[p].amount], Mutations(w, "WITHDRAW"))

(* A payment that is PAID, FAILED or EXPIRED stays so, whichever of two reports that
   both found it PENDING comes second ("State transitions reject invalid lifecycle
   movement"). *)
PaymentFinality ==
  [][\A id \in DOMAIN payments :
       payments[id].status # "PENDING" => payments'[id] = payments[id]]_vars

(* The history has exactly one midtrans row for a payment that left PENDING, of the
   type of the status it has, and none for one that did not. *)
ReceiptPerPayment ==
  \A id \in DOMAIN payments :
    {r.type : r \in {s \in receipts : s.payment = id}} =
      IF payments[id].status = "PENDING" THEN {} ELSE {ReceiptType[payments[id].status]}

(* Whoever is told of an intent is told of one that is stored under that amount and
   channel and, the service not running on its own, that Midtrans was asked to collect
   so: two requests with one key, racing or one after the other, whatever amounts and
   methods they name, agree on all of it. *)
IntentRepliesStand ==
  \A p \in Requests : call[p].op = "intent" /\ pc[p] = "ok" =>
    \A row \in shown[p] :
      /\ row.id \in DOMAIN payments
      /\ payments[row.id].amount = row.amount /\ payments[row.id].channel = row.channel
      /\ ServerKeySet => Order(row.id, row.amount, row.channel) \in charges

(* A reply that calls a payment PAID, FAILED or EXPIRED stays true, though the wallet
   page looks at rows it read before others settled them, and a report may lose to
   another that came in after it found the payment PENDING. *)
FinalRepliesStand ==
  \A p \in Requests : pc[p] = "ok" =>
    \A row \in shown[p] : row.status # "PENDING" => payments[row.id] = row

(* A payment that was there before the page was asked for is on the page, in its history
   or its list, unless it was PAID between the two reads: no other race loses it. *)
PageLosesOnlyPaid ==
  \A p \in Requests : call[p].op = "detail" /\ pc[p] = "ok" =>
    \A id \in OpenPayments : payments[id].wallet = call[p].wallet =>
      \/ id \in history[p] \/ id \in {row.id : row \in shown[p]}
      \/ payments[id].status = "PAID"

(* What PaymentContract sees of the tables and of the handlers. *)
CallAmounts  == {c.amount : c \in Calls \cap (IntentCall \cup MutateCall)}
ActiveColumn == [w \in Wallets |-> wallets[w].active]
PaymentRow(row) == [wallet |-> row.wallet, amount |-> row.amount, status |-> row.status]
PaymentRows  == [id \in DOMAIN payments |-> PaymentRow(payments[id])]
Carried      == {p \in Requests : call[p].op \in {"TOP_UP", "WITHDRAW"} /\ pc[p] = "ok"}

Contract == INSTANCE PaymentContract WITH
  Amounts <- CallAmounts, active <- ActiveColumn, payments <- PaymentRows, carried <- Carried

(* The handlers, statement by statement and interleaved in any order, do to balances and
   payments what PaymentContract does in single steps. *)
ImplementsContract == Contract!Spec
=============================================================================
