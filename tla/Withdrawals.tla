---------------------------- MODULE Withdrawals ----------------------------
(***************************************************************************)
(* Withdrawals: create_withdrawal, which sends the payout to the bank      *)
(* before it debits the wallet and stores the row, and                     *)
(* simulate_withdrawal_status, which completes a withdrawal or returns its *)
(* money.                                                                  *)
(*                                                                         *)
(* One action per database statement or gateway call; no statement here    *)
(* shares a transaction with another.  Module Midtrans says what an        *)
(* exchange with IRIS may come to.  The plain receipts of withdraw and     *)
(* top_up, which nothing here reads, are left out (WalletHolds has them).  *)
(***************************************************************************)
EXTENDS WalletDomain, Midtrans, FiniteSets, Functions

CONSTANTS
  Requests, Wallets,
  Keys, NoKey,     \* Idempotency-Key headers; NoKey is a request without one
  NoAccount,
  Calls,
  InitialActive,
  MaxCrashes       \* bound on dropped handlers

(* idempotent_operation_id of user, role and key; else a new UUID. *)
WithdrawalIds == (Wallets \X Keys) \cup Requests

Refunding == {"FAILED", "EXPIRED"}
Terminal  == {"COMPLETED"} \cup Refunding

(* An amount and a destination; NoAccount is a bank or a number that is not well formed. *)
CreateCall == [op : {"create"}, wallet : Wallets, key : Keys \cup {NoKey}, amount : Nat,
               account : Accounts \cup {NoAccount}]
StatusCall == [op : {"status"}, withdrawal : WithdrawalIds, status : Terminal \cup {"unknown"}]

ASSUME CallsAssumption == Calls \subseteq CreateCall \cup StatusCall
ASSUME KeysAssumption == NoKey \notin Keys /\ NoAccount \notin Accounts
ASSUME BoundsAssumption ==
  InitialActive \in Nat /\ MaxCrashes \in Nat
ASSUME RequestsAssumption == IsFiniteSet(Requests)

VARIABLES
  wallets,      \* table wallets
  withdrawals,  \* table wallet_withdrawals, by the ids it holds
  receipts,     \* the rows of wallet_transactions with source midtrans
  payouts,      \* what IRIS has been told to pay out, and under which reference
  pc, call,
  account,      \* the account as validated
  named,        \* what the reference of its payout is
  snap,         \* the wallet row the handler has read
  reply,        \* the withdrawal rows to answer with
  crashes

tables == <<wallets, withdrawals, receipts, payouts>>
locals == <<call, account, named, snap, reply>>
vars   == <<tables, pc, locals, crashes>>

-----------------------------------------------------------------------------
(* A payout goes by the reference its request carried, or by the one IRIS answered, which
   may also be blank or lost. *)
Naming    == {"own", "answered", "blank", "failed"}
Reference == [request : Requests, named : Naming]

Withdrawal == [id : WithdrawalIds, wallet : Wallets, key : Keys \cup {NoKey},
               amount : Nat \ {0}, account : Accounts, reference : Reference,
               status : {"PENDING"} \cup Terminal]

ReceiptType == [FAILED |-> "WITHDRAW_FAILED", EXPIRED |-> "WITHDRAW_EXPIRED"]

(* "failed" is the gateway's doing, "refused" the service's own. *)
Outcomes == {"ok", "refused", "failed", "conflict", "aborted"}

GoTo(p, label) == pc' = [pc EXCEPT ![p] = label]
Proceed(p, label) == GoTo(p, label) /\ UNCHANGED <<tables, locals, crashes>>
Quit(p, outcome) == Proceed(p, outcome)

Answer(p, id) ==
  /\ reply' = [reply EXCEPT ![p] = {withdrawals[id]}]
  /\ GoTo(p, "ok")
  /\ UNCHANGED <<tables, call, account, named, snap, crashes>>

-----------------------------------------------------------------------------
(* create_withdrawal *)
IdOf(p) == IF call[p].op = "status" THEN call[p].withdrawal
           ELSE IF call[p].key = NoKey THEN p ELSE <<call[p].wallet, call[p].key>>

ByKey(w, key) ==
  {id \in DOMAIN withdrawals : withdrawals[id].wallet = w /\ withdrawals[id].key = key}

(* The validation chain, the search by key, and the form of the account. *)
CreateLookup(p) ==
  /\ pc[p] = "new" /\ call[p].op = "create"
  /\ LET found == IF call[p].key = NoKey THEN {} ELSE ByKey(call[p].wallet, call[p].key) IN
     \/ call[p].amount = 0 /\ Quit(p, "refused")
     \/ call[p].amount > 0 /\ \E id \in found : Answer(p, id)
     \/ /\ call[p].amount > 0 /\ found = {}
        /\ Proceed(p, IF call[p].account # NoAccount THEN "account" ELSE "refused")

(* validate_bank_account *)
CreateAccount(p) ==
  /\ pc[p] = "account"
  /\ \/ ValidationMayFail /\ Quit(p, "failed")
     \/ \E a \in ValidatedAs(call[p].account) :
          /\ account' = [account EXCEPT ![p] = a]
          /\ GoTo(p, "payout")
          /\ UNCHANGED <<tables, call, named, snap, reply, crashes>>

(* The order sent to IRIS for the request, by the name its answer gives it. *)
Order(p, name) == [reference |-> [request |-> p, named |-> name],
                   amount |-> call[p].amount, account |-> account[p]]

(* Mutant: an error of create_payout is only logged. *)
AfterPayoutUnchecked(name) == "debitRead"

(* An error of create_payout ends the request, and so does a blank reference. *)
AfterPayout(name) == IF name \in {"failed", "blank"} THEN "failed" ELSE "debitRead"

(* create_payout under a new reference; from here on the handler uses the one returned. *)
CreatePayout(p) ==
  /\ pc[p] = "payout"
  /\ \E result \in Payout :
       /\ payouts' = IF result.paid THEN payouts \cup {Order(p, result.reference)} ELSE payouts
       /\ named' = [named EXCEPT ![p] = result.reference]
       /\ GoTo(p, AfterPayout(result.reference))
  /\ UNCHANGED <<wallets, withdrawals, receipts, call, account, snap, reply, crashes>>

(* withdraw: mutate_wallet reads, checks the balance, and writes under the version. *)
DebitRead(p) ==
  /\ pc[p] = "debitRead"
  /\ LET w == wallets[call[p].wallet] IN
     \/ ~Allowed("WITHDRAW", w, call[p].amount) /\ Quit(p, "refused")
     \/ /\ Allowed("WITHDRAW", w, call[p].amount)
        /\ snap' = [snap EXCEPT ![p] = w]
        /\ GoTo(p, "debitUpdate")
        /\ UNCHANGED <<tables, call, account, named, reply, crashes>>

VersionMatches(p, w) == wallets[w].version = snap[p].version

DebitUpdate(p) ==
  /\ pc[p] = "debitUpdate"
  /\ LET w == call[p].wallet IN
     \/ ~VersionMatches(p, w) /\ Quit(p, "conflict")
     \/ /\ VersionMatches(p, w)
        /\ wallets' = [wallets EXCEPT ![w] =
                         Stored(Apply("WITHDRAW", snap[p], call[p].amount))]
        /\ GoTo(p, "insert")
        /\ UNCHANGED <<withdrawals, receipts, payouts, locals, crashes>>

(* Mutant: the row keeps the reference the request carried. *)
NewWithdrawalAsAsked(p) ==
  [id |-> IdOf(p), wallet |-> call[p].wallet, key |-> call[p].key,
   amount |-> call[p].amount, account |-> account[p],
   reference |-> [request |-> p, named |-> "own"], status |-> "PENDING"]

NewWithdrawal(p) ==
  [id |-> IdOf(p), wallet |-> call[p].wallet, key |-> call[p].key,
   amount |-> call[p].amount, account |-> account[p],
   reference |-> [request |-> p, named |-> named[p]], status |-> "PENDING"]

Insert(p) ==
  /\ withdrawals' = [id \in DOMAIN withdrawals \cup {IdOf(p)} |->
                       IF id = IdOf(p) THEN NewWithdrawal(p) ELSE withdrawals[id]]
  /\ reply' = [reply EXCEPT ![p] = {NewWithdrawal(p)}]
  /\ GoTo(p, "ok")
  /\ UNCHANGED <<wallets, receipts, payouts, call, account, named, snap, crashes>>

(* Mutant: INSERT ... ON CONFLICT DO UPDATE. *)
CreateUpsert(p) == pc[p] = "insert" /\ Insert(p)

(* insert_withdrawal; the id and the key are unique. *)
CreateInsert(p) ==
  /\ pc[p] = "insert"
  /\ \/ IdOf(p) \in DOMAIN withdrawals /\ Proceed(p, "relookup")
     \/ IdOf(p) \notin DOMAIN withdrawals /\ Insert(p)

(* The row that was there first is the answer, and the debit is to be returned. *)
CreateRelookup(p) ==
  /\ pc[p] = "relookup"
  /\ \E id \in ByKey(call[p].wallet, call[p].key) :
       reply' = [reply EXCEPT ![p] = {withdrawals[id]}]
  /\ GoTo(p, "refundRead")
  /\ UNCHANGED <<tables, call, account, named, snap, crashes>>

-----------------------------------------------------------------------------
(* simulate_withdrawal_status *)
StatusRead(p) ==
  /\ pc[p] = "new" /\ call[p].op = "status"
  /\ LET known == call[p].status \in Terminal /\ IdOf(p) \in DOMAIN withdrawals IN
     \/ ~known /\ Quit(p, "refused")
     \/ known /\ withdrawals[IdOf(p)].status # "PENDING" /\ Answer(p, IdOf(p))
     \/ /\ known /\ withdrawals[IdOf(p)].status = "PENDING"
        /\ Proceed(p, IF call[p].status \in Refunding THEN "refundRead" ELSE "statusWrite")

(* Its last two statements: record_status_transaction, whose row is unique per
   source, withdrawal and type, and update_withdrawal_status WHERE id. *)
StatusRecord(p) ==
  /\ pc[p] = "record"
  /\ LET receipt == [withdrawal |-> IdOf(p), type |-> ReceiptType[call[p].status]] IN
     \/ receipt \in receipts /\ Quit(p, "refused")
     \/ /\ receipt \notin receipts
        /\ receipts' = receipts \cup {receipt}
        /\ GoTo(p, "statusWrite")
        /\ UNCHANGED <<wallets, withdrawals, payouts, locals, crashes>>

StatusWrite(p) ==
  /\ pc[p] = "statusWrite"
  /\ LET row == [withdrawals[IdOf(p)] EXCEPT !.status = call[p].status] IN
     /\ withdrawals' = [withdrawals EXCEPT ![IdOf(p)] = row]
     /\ reply' = [reply EXCEPT ![p] = {row}]
  /\ GoTo(p, "ok")
  /\ UNCHANGED <<wallets, receipts, payouts, call, account, named, snap, crashes>>

-----------------------------------------------------------------------------
(* top_up, called by both handlers to return money.  create_withdrawal ignores its
   error, simulate_withdrawal_status ends with it. *)
RefundWallet(p) == IF call[p].op = "create" THEN call[p].wallet
                   ELSE withdrawals[IdOf(p)].wallet

(* Mutant: the loser gets back the winner's amount. *)
RefundOfRow(p) == withdrawals[IdOf(p)].amount

RefundAmount(p) == IF call[p].op = "create" THEN call[p].amount
                   ELSE withdrawals[IdOf(p)].amount

RefundRead(p) ==
  /\ pc[p] = "refundRead"
  /\ snap' = [snap EXCEPT ![p] = wallets[RefundWallet(p)]]
  /\ GoTo(p, "refundUpdate")
  /\ UNCHANGED <<tables, call, account, named, reply, crashes>>

RefundUpdate(p) ==
  /\ pc[p] = "refundUpdate"
  /\ LET w == RefundWallet(p) IN
     \/ /\ ~VersionMatches(p, w)
        /\ Proceed(p, IF call[p].op = "create" THEN "ok" ELSE "conflict")
     \/ /\ VersionMatches(p, w)
        /\ wallets' = [wallets EXCEPT ![w] = Stored(Apply("TOP_UP", snap[p], RefundAmount(p)))]
        /\ GoTo(p, IF call[p].op = "create" THEN "ok" ELSE "record")
        /\ UNCHANGED <<withdrawals, receipts, payouts, locals, crashes>>

(* A handler is dropped between two statements; what it has committed stays. *)
Abort(p) ==
  /\ crashes < MaxCrashes
  /\ pc[p] \notin {"new"} \cup Outcomes
  /\ crashes' = crashes + 1
  /\ GoTo(p, "aborted")
  /\ UNCHANGED <<tables, locals>>

-----------------------------------------------------------------------------
Init ==
  /\ wallets = [w \in Wallets |-> [NewWallet EXCEPT !.active = InitialActive]]
  /\ withdrawals = [id \in {} |-> {}]
  /\ receipts = {}
  /\ payouts = {}
  /\ pc = [p \in Requests |-> "new"]
  /\ call \in [Requests -> Calls]
  /\ account = [p \in Requests |-> NoAccount]
  /\ named = [p \in Requests |-> "own"]
  /\ snap = [p \in Requests |-> NewWallet]
  /\ reply = [p \in Requests |-> {}]
  /\ crashes = 0

Next ==
  \E p \in Requests :
    \/ CreateLookup(p) \/ CreateAccount(p) \/ CreatePayout(p)
    \/ DebitRead(p) \/ DebitUpdate(p) \/ CreateInsert(p) \/ CreateRelookup(p)
    \/ StatusRead(p) \/ StatusRecord(p) \/ StatusWrite(p)
    \/ RefundRead(p) \/ RefundUpdate(p) \/ Abort(p)

Spec == Init /\ [][Next]_vars

-----------------------------------------------------------------------------
(* What a handler has established when it is about to execute the statement named. *)
HandlerOK(p) ==
  /\ pc[p] \in {"account", "payout", "debitRead", "debitUpdate", "insert", "relookup"} =>
       call[p] \in CreateCall /\ call[p].amount > 0
  /\ pc[p] = "account" => call[p].account \in Accounts
  /\ pc[p] \in {"payout", "debitRead", "debitUpdate", "insert"} => account[p] \in Accounts
  /\ pc[p] = "debitUpdate" => Allowed("WITHDRAW", snap[p], call[p].amount)
  /\ pc[p] \in {"refundRead", "refundUpdate"} =>
       \/ call[p] \in CreateCall /\ call[p].amount > 0
       \/ call[p] \in StatusCall /\ call[p].status \in Refunding
  /\ pc[p] = "record" => call[p] \in StatusCall /\ call[p].status \in Refunding
  /\ pc[p] = "statusWrite" => call[p] \in StatusCall /\ call[p].status \in Terminal
  /\ pc[p] \in {"relookup", "refundRead", "refundUpdate", "record", "statusWrite"} =>
       IdOf(p) \in DOMAIN withdrawals

TypeOK ==
  /\ wallets \in [Wallets -> Wallet]
  /\ DOMAIN withdrawals \subseteq WithdrawalIds
  /\ withdrawals \in [DOMAIN withdrawals -> Withdrawal]
  /\ \A id \in DOMAIN withdrawals : withdrawals[id].id = id
  /\ receipts \subseteq [withdrawal : DOMAIN withdrawals, type : Range(ReceiptType)]
  /\ payouts \subseteq [reference : Reference, amount : Nat \ {0}, account : Accounts]
  /\ pc \in [Requests -> {"new", "account", "payout", "debitRead", "debitUpdate", "insert",
                          "relookup", "refundRead", "refundUpdate", "record", "statusWrite"}
                         \cup Outcomes]
  /\ call \in [Requests -> Calls]
  /\ account \in [Requests -> Accounts \cup {NoAccount}]
  /\ named \in [Requests -> Naming]
  /\ snap \in [Requests -> Wallet]
  /\ reply \in [Requests -> SUBSET Withdrawal]
  /\ crashes \in 0 .. MaxCrashes
  /\ \A p \in Requests : HandlerOK(p)

-----------------------------------------------------------------------------
Amount(ids) == SumFunctionOnSet([id \in DOMAIN withdrawals |-> withdrawals[id].amount], ids)
Reports == {p \in Requests : call[p].op = "status"}
Unreported(w) == {id \in DOMAIN withdrawals :
                    withdrawals[id].wallet = w /\ \A p \in Reports : call[p].withdrawal # id}
PayoutsOf(w) == {payout \in payouts : call[payout.reference.request].wallet = w}

(* Whoever is told of a withdrawal is told of one that is stored and whose payout was
   sent for the stored amount to the stored account, which IRIS may have corrected, and
   goes by the stored reference, which IRIS may have given it; requests that share a key
   agree on all of it, in a race too. *)
WithdrawalRepliesStand ==
  \A p \in Requests : call[p].op = "create" /\ pc[p] = "ok" =>
    \A row \in reply[p] :
      /\ row.id \in DOMAIN withdrawals
      /\ withdrawals[row.id].reference = row.reference
      /\ IrisKeysSet =>
           [reference |-> row.reference, amount |-> row.amount, account |-> row.account]
             \in payouts

(* The wallet has paid for every stored withdrawal, the reported one aside: no update
   is lost, and the refund of a request that came second for a key gives back what
   that request had paid.  Of two reports that both find it PENDING both refund, so this is
   said of at most one; it then bounds the balance by what it was before. *)
StoredAreDebited ==
  Cardinality(Reports) <= 1 =>
    \A w \in Wallets : wallets[w].active + Amount(Unreported(w)) <= InitialActive

(* No money leaves the wallet for which no payout was sent, unless the service runs
   without IRIS. *)
DebitsHavePayouts == IrisKeysSet =>
  \A w \in Wallets :
    InitialActive - wallets[w].active <=
      SumFunctionOnSet([payout \in payouts |-> payout.amount], PayoutsOf(w))

(* A payout is sent only for a withdrawal that is created: when the handler has
   returned, other than for a failure at the gateway, the row with its reference
   exists. *)
PayoutHasWithdrawal ==
  \A payout \in payouts : pc[payout.reference.request] \in {"ok", "refused", "conflict"} =>
    \E id \in DOMAIN withdrawals : withdrawals[id].reference = payout.reference
=============================================================================
