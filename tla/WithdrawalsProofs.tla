------------------------- MODULE WithdrawalsProofs -------------------------
(***************************************************************************)
(* Proofs about Withdrawals for every set of calls, keys and accounts and  *)
(* every finite number of requests.                                               *)
(***************************************************************************)
EXTENDS Withdrawals, SumTheorems, TLAPS

-----------------------------------------------------------------------------
Labels == {"new", "account", "payout", "debitRead", "debitUpdate", "insert", "relookup",
           "refundRead", "refundUpdate", "record", "statusWrite"} \cup Outcomes

LEMMA CallOfOp ==
  ASSUME TypeOK, NEW p \in Requests
  PROVE  /\ call[p].op = "create" <=> call[p] \in CreateCall
         /\ call[p].op = "status" <=> call[p] \in StatusCall
BY CallsAssumption DEF TypeOK, CreateCall, StatusCall

LEMMA IdIsId ==
  ASSUME TypeOK, NEW p \in Requests PROVE IdOf(p) \in WithdrawalIds
<1>1. CASE call[p].op = "status"
  <2>1. call[p] \in StatusCall
    BY <1>1, CallOfOp
  <2> QED
    BY <1>1, <2>1 DEF IdOf, StatusCall
<1>2. CASE call[p].op # "status"
  <2>1. call[p] \in CreateCall
    BY <1>2, CallsAssumption DEF TypeOK, StatusCall
  <2>2. call[p].wallet \in Wallets /\ call[p].key \in Keys \cup {NoKey}
    BY <2>1 DEF CreateCall
  <2> QED
    BY <1>2, <2>2 DEF IdOf, WithdrawalIds
<1> QED
  BY <1>1, <1>2

(* What an operation stores is a row, if its amount is one and it may debit it. *)
LEMMA StoredIsWallet ==
  ASSUME NEW w \in Wallet, NEW t \in {"TOP_UP", "WITHDRAW"}, NEW a \in Nat,
         t = "WITHDRAW" => w.active >= a
  PROVE  Stored(Apply(t, w, a)) \in Wallet
<1> DEFINE active == w.active + ActiveMove(t, a)
           held == w.held + HeldMove(t, a)
<1>1. w.active \in Nat /\ w.held \in Nat /\ w.version \in Nat
  BY DEF Wallet
<1>2. active \in Nat /\ held \in Nat
  BY <1>1 DEF ActiveMove, HeldMove, CreditsActive, DebitsActive, CreditsHeld, DebitsHeld
<1> HIDE DEF active, held
<1>3. Apply(t, w, a) \in Wallet
  <2>1. [w EXCEPT !.active = active, !.held = held] \in Wallet
    BY <1>2 DEF Wallet
  <2> QED
    BY <2>1 DEF Apply, active, held, Wallet
<1> QED
  BY <1>3 DEF Stored, Wallet

(* One handler moves and what it has established holds; the others keep theirs. *)
LEMMA HandlersKept ==
  ASSUME TypeOK, NEW p \in Requests, NEW label \in Labels, GoTo(p, label), call' = call,
         DOMAIN withdrawals \subseteq DOMAIN withdrawals',
         \A q \in Requests \ {p} : account'[q] = account[q] /\ snap'[q] = snap[q],
         HandlerOK(p)'
  PROVE  pc' \in [Requests -> Labels] /\ \A q \in Requests : HandlerOK(q)'
<1>1. pc' \in [Requests -> Labels]
  BY DEF TypeOK, GoTo, Labels
<1>2. ASSUME NEW q \in Requests, q # p PROVE HandlerOK(q)'
  <2>1. pc'[q] = pc[q] /\ account'[q] = account[q] /\ snap'[q] = snap[q] /\ call'[q] = call[q]
    BY <1>2 DEF TypeOK, GoTo
  <2>2. IdOf(q)' = IdOf(q) /\ HandlerOK(q)
    BY DEF IdOf, TypeOK
  <2> QED
    BY <2>1, <2>2 DEF HandlerOK
<1> QED
  BY <1>1, <1>2

(* A handler that only moves on. *)
LEMMA ProceedTyped ==
  ASSUME TypeOK, NEW p \in Requests, NEW label \in Labels, Proceed(p, label), HandlerOK(p)'
  PROVE  TypeOK'
<1>1. UNCHANGED <<tables, locals, crashes>> /\ GoTo(p, label)
  BY DEF Proceed
<1>2. pc' \in [Requests -> Labels] /\ \A q \in Requests : HandlerOK(q)'
  BY <1>1, HandlersKept DEF locals, tables
<1> QED
  BY <1>1, <1>2 DEF TypeOK, tables, locals, Labels

LEMMA QuitTyped ==
  ASSUME TypeOK, NEW p \in Requests, NEW outcome \in Outcomes, Proceed(p, outcome)
  PROVE  TypeOK'
<1>1. pc'[p] = outcome
  BY DEF Proceed, GoTo, TypeOK
<1>2. HandlerOK(p)'
  BY <1>1 DEF HandlerOK, Outcomes
<1> QED
  BY <1>2, ProceedTyped DEF Labels

LEMMA AnswerTyped ==
  ASSUME TypeOK, NEW p \in Requests, NEW id \in DOMAIN withdrawals, Answer(p, id)
  PROVE  TypeOK'
<1>1. pc'[p] = "ok" /\ GoTo(p, "ok") /\ UNCHANGED <<tables, call, account, named, snap, crashes>>
  BY DEF Answer, GoTo, TypeOK
<1>2. HandlerOK(p)'
  BY <1>1 DEF HandlerOK
<1>3. pc' \in [Requests -> Labels] /\ \A q \in Requests : HandlerOK(q)'
  BY <1>1, <1>2, HandlersKept DEF tables, Labels, Outcomes
<1>4. withdrawals[id] \in Withdrawal
  BY DEF TypeOK
<1>5. reply' \in [Requests -> SUBSET Withdrawal]
  BY <1>4 DEF Answer, TypeOK
<1> QED
  BY <1>1, <1>3, <1>5 DEF TypeOK, tables, Labels

-----------------------------------------------------------------------------
LEMMA CreateLookupTyped ==
  ASSUME TypeOK, NEW p \in Requests, CreateLookup(p) PROVE TypeOK'
<1> DEFINE found == IF call[p].key = NoKey THEN {} ELSE ByKey(call[p].wallet, call[p].key)
<1>1. call[p] \in CreateCall
  BY CallOfOp DEF CreateLookup
<1>2. CASE Quit(p, "refused")
  BY <1>2, QuitTyped DEF Quit, Outcomes
<1>3. CASE \E id \in found : Answer(p, id)
  BY <1>3, AnswerTyped DEF ByKey
<1>4. CASE /\ call[p].amount > 0 /\ call[p].account # NoAccount
           /\ Proceed(p, "account")
  <2>1. pc'[p] = "account" /\ UNCHANGED <<tables, locals, crashes>>
    BY <1>4 DEF Proceed, GoTo, TypeOK
  <2>2. HandlerOK(p)'
    BY <1>1, <1>4, <2>1 DEF HandlerOK, CreateCall, locals
  <2> QED
    BY <1>4, <2>2, ProceedTyped DEF Labels
<1>5. CASE Proceed(p, "refused")
  BY <1>5, QuitTyped DEF Outcomes
<1> QED
  BY <1>2, <1>3, <1>4, <1>5 DEF CreateLookup

LEMMA CreateAccountTyped ==
  ASSUME TypeOK, NEW p \in Requests, CreateAccount(p) PROVE TypeOK'
<1>1. CASE Quit(p, "failed")
  BY <1>1, QuitTyped DEF Quit, Outcomes
<1>2. ASSUME NEW a \in ValidatedAs(call[p].account),
             account' = [account EXCEPT ![p] = a], GoTo(p, "payout"),
             UNCHANGED <<tables, call, named, snap, reply, crashes>>
      PROVE  TypeOK'
  <2>1. HandlerOK(p) /\ pc[p] = "account"
    BY DEF TypeOK, CreateAccount
  <2>2. a \in Accounts
    BY <2>1 DEF HandlerOK, ValidatedAs
  <2>3. pc'[p] = "payout" /\ account'[p] = a
        /\ \A q \in Requests \ {p} : account'[q] = account[q] /\ snap'[q] = snap[q]
    BY <1>2 DEF TypeOK, GoTo
  <2>4. HandlerOK(p)'
    BY <1>2, <2>1, <2>2, <2>3 DEF HandlerOK
  <2>5. pc' \in [Requests -> Labels] /\ \A q \in Requests : HandlerOK(q)'
    BY <1>2, <2>3, <2>4, HandlersKept DEF tables, Labels
  <2>6. account' \in [Requests -> Accounts \cup {NoAccount}]
    BY <1>2, <2>2 DEF TypeOK
  <2> QED
    BY <1>2, <2>5, <2>6 DEF TypeOK, tables, Labels
<1> QED
  BY <1>1, <1>2 DEF CreateAccount

LEMMA CreatePayoutTyped ==
  ASSUME TypeOK, NEW p \in Requests, CreatePayout(p) PROVE TypeOK'
<1>1. PICK result \in Payout :
        /\ payouts' = IF result.paid THEN payouts \cup {Order(p, result.reference)} ELSE payouts
        /\ named' = [named EXCEPT ![p] = result.reference]
        /\ GoTo(p, AfterPayout(result.reference))
  BY DEF CreatePayout
<1>2. /\ HandlerOK(p) /\ pc[p] = "payout"
      /\ UNCHANGED <<wallets, withdrawals, receipts, call, account, snap, reply, crashes>>
  BY DEF TypeOK, CreatePayout
<1>3. call[p].amount \in Nat \ {0} /\ account[p] \in Accounts
  BY <1>2 DEF HandlerOK, CreateCall
<1>4. AfterPayout(result.reference) \in {"failed", "debitRead"}
  BY DEF AfterPayout
<1>5. pc'[p] \in {"failed", "debitRead"}
  BY <1>1, <1>4 DEF TypeOK, GoTo
<1>6. HandlerOK(p)'
  BY <1>2, <1>5 DEF HandlerOK, IdOf
<1>7. pc' \in [Requests -> Labels] /\ \A q \in Requests : HandlerOK(q)'
  BY <1>1, <1>2, <1>4, <1>6, HandlersKept DEF Labels, Outcomes
<1>8. result.reference \in Naming
  BY DEF Payout, Naming
<1>9. payouts' \subseteq [reference : Reference, amount : Nat \ {0}, account : Accounts]
  BY <1>1, <1>3, <1>8 DEF TypeOK, Order, Reference
<1>10. named' \in [Requests -> Naming]
  BY <1>1, <1>8 DEF TypeOK
<1> QED
  BY <1>2, <1>7, <1>9, <1>10 DEF TypeOK, Labels

(* The handler reads a wallet it will write under the version. *)
LEMMA ReadTyped ==
  ASSUME TypeOK, NEW p \in Requests, NEW w \in Wallets, NEW label \in Labels,
         snap' = [snap EXCEPT ![p] = wallets[w]], GoTo(p, label),
         UNCHANGED <<tables, call, account, named, reply, crashes>>, HandlerOK(p)'
  PROVE  TypeOK'
<1>1. \A q \in Requests \ {p} : account'[q] = account[q] /\ snap'[q] = snap[q]
  BY DEF TypeOK
<1>2. pc' \in [Requests -> Labels] /\ \A q \in Requests : HandlerOK(q)'
  BY <1>1, HandlersKept DEF tables
<1>3. snap' \in [Requests -> Wallet]
  BY DEF TypeOK
<1> QED
  BY <1>2, <1>3 DEF TypeOK, tables, Labels

(* The handler writes a wallet. *)
LEMMA WalletWriteTyped ==
  ASSUME TypeOK, NEW p \in Requests, NEW w \in Wallets, NEW label \in Labels,
         NEW new \in Wallet, wallets' = [wallets EXCEPT ![w] = new], GoTo(p, label),
         UNCHANGED <<withdrawals, receipts, payouts, locals, crashes>>, HandlerOK(p)'
  PROVE  TypeOK'
<1>1. pc' \in [Requests -> Labels] /\ \A q \in Requests : HandlerOK(q)'
  BY HandlersKept DEF locals
<1>2. wallets' \in [Wallets -> Wallet]
  BY DEF TypeOK
<1> QED
  BY <1>1, <1>2 DEF TypeOK, locals, Labels

LEMMA DebitReadTyped ==
  ASSUME TypeOK, NEW p \in Requests, DebitRead(p) PROVE TypeOK'
<1> DEFINE w == call[p].wallet
<1>1. HandlerOK(p) /\ pc[p] = "debitRead"
  BY DEF TypeOK, DebitRead
<1>2. w \in Wallets
  BY <1>1 DEF HandlerOK, CreateCall
<1>3. CASE Quit(p, "refused")
  BY <1>3, QuitTyped DEF Quit, Outcomes
<1>4. CASE /\ Allowed("WITHDRAW", wallets[w], call[p].amount)
           /\ snap' = [snap EXCEPT ![p] = wallets[w]]
           /\ GoTo(p, "debitUpdate")
           /\ UNCHANGED <<tables, call, account, named, reply, crashes>>
  <2>1. pc'[p] = "debitUpdate" /\ snap'[p] = wallets[w]
    BY <1>4 DEF TypeOK, GoTo
  <2>2. HandlerOK(p)'
    BY <1>1, <1>4, <2>1 DEF HandlerOK
  <2> QED
    BY <1>2, <1>4, <2>2, ReadTyped DEF Labels
<1> QED
  BY <1>3, <1>4 DEF DebitRead

LEMMA DebitUpdateTyped ==
  ASSUME TypeOK, NEW p \in Requests, DebitUpdate(p) PROVE TypeOK'
<1> DEFINE w == call[p].wallet
           new == Stored(Apply("WITHDRAW", snap[p], call[p].amount))
<1>1. HandlerOK(p) /\ pc[p] = "debitUpdate" /\ snap[p] \in Wallet
  BY DEF TypeOK, DebitUpdate
<1>2. w \in Wallets /\ call[p].amount \in Nat /\ Allowed("WITHDRAW", snap[p], call[p].amount)
  BY <1>1 DEF HandlerOK, CreateCall
<1>3. new \in Wallet
  BY <1>1, <1>2, StoredIsWallet DEF Allowed, DebitsActive
<1>4. CASE Quit(p, "conflict")
  BY <1>4, QuitTyped DEF Quit, Outcomes
<1>5. CASE /\ wallets' = [wallets EXCEPT ![w] = new]
           /\ GoTo(p, "insert")
           /\ UNCHANGED <<withdrawals, receipts, payouts, locals, crashes>>
  <2>1. pc'[p] = "insert"
    BY <1>5 DEF TypeOK, GoTo
  <2>2. HandlerOK(p)'
    BY <1>1, <1>5, <2>1 DEF HandlerOK, locals
  <2> HIDE DEF new
  <2> QED
    BY <1>2, <1>3, <1>5, <2>2, WalletWriteTyped DEF Labels
<1> QED
  BY <1>4, <1>5 DEF DebitUpdate

LEMMA NewWithdrawalTyped ==
  ASSUME TypeOK, NEW p \in Requests, pc[p] = "insert"
  PROVE  NewWithdrawal(p) \in Withdrawal /\ NewWithdrawal(p).id = IdOf(p)
<1>1. call[p] \in CreateCall /\ call[p].amount > 0 /\ account[p] \in Accounts
  BY DEF TypeOK, HandlerOK
<1>2. IdOf(p) \in WithdrawalIds
  BY IdIsId
<1> QED
  BY <1>1, <1>2 DEF TypeOK, NewWithdrawal, Withdrawal, CreateCall, Reference

(* The table with one row written to it, and the handler answering with that row. *)
LEMMA RowWriteTyped ==
  ASSUME TypeOK, NEW p \in Requests, NEW id \in WithdrawalIds, NEW row \in Withdrawal,
         row.id = id,
         withdrawals' = [i \in DOMAIN withdrawals \cup {id} |->
                           IF i = id THEN row ELSE withdrawals[i]],
         reply' = [reply EXCEPT ![p] = {row}], GoTo(p, "ok"),
         UNCHANGED <<wallets, receipts, payouts, call, account, named, snap, crashes>>
  PROVE  TypeOK'
<1>1. DOMAIN withdrawals' = DOMAIN withdrawals \cup {id}
  OBVIOUS
<1>2. pc'[p] = "ok"
  BY DEF TypeOK, GoTo
<1>3. HandlerOK(p)'
  BY <1>2 DEF HandlerOK
<1>4. pc' \in [Requests -> Labels] /\ \A q \in Requests : HandlerOK(q)'
  BY <1>1, <1>3, HandlersKept DEF Labels, Outcomes
<1>5. /\ DOMAIN withdrawals' \subseteq WithdrawalIds
      /\ withdrawals' \in [DOMAIN withdrawals' -> Withdrawal]
      /\ \A i \in DOMAIN withdrawals' : withdrawals'[i].id = i
  BY <1>1 DEF TypeOK
<1>6. receipts' \subseteq [withdrawal : DOMAIN withdrawals', type : Range(ReceiptType)]
  BY <1>1 DEF TypeOK
<1>7. reply' \in [Requests -> SUBSET Withdrawal]
  BY DEF TypeOK
<1> QED
  BY <1>4, <1>5, <1>6, <1>7 DEF TypeOK, Labels

LEMMA CreateInsertTyped ==
  ASSUME TypeOK, NEW p \in Requests, CreateInsert(p) PROVE TypeOK'
<1>1. CASE IdOf(p) \in DOMAIN withdrawals /\ Proceed(p, "relookup")
  <2>1. pc'[p] = "relookup" /\ UNCHANGED <<tables, locals, crashes>>
    BY <1>1 DEF Proceed, GoTo, TypeOK
  <2>2. HandlerOK(p) /\ pc[p] = "insert" /\ IdOf(p)' = IdOf(p)
    BY <2>1 DEF TypeOK, CreateInsert, IdOf, locals
  <2>3. HandlerOK(p)'
    BY <1>1, <2>1, <2>2 DEF HandlerOK, locals, tables
  <2> QED
    BY <1>1, <2>3, ProceedTyped DEF Labels
<1>2. CASE Insert(p)
  <2>1. NewWithdrawal(p) \in Withdrawal /\ NewWithdrawal(p).id = IdOf(p)
    BY NewWithdrawalTyped DEF CreateInsert
  <2> QED
    BY <1>2, <2>1, IdIsId, RowWriteTyped DEF Insert
<1> QED
  BY <1>1, <1>2 DEF CreateInsert

LEMMA CreateRelookupTyped ==
  ASSUME TypeOK, NEW p \in Requests, CreateRelookup(p) PROVE TypeOK'
<1>1. /\ GoTo(p, "refundRead") /\ UNCHANGED <<tables, call, account, named, snap, crashes>>
      /\ HandlerOK(p) /\ pc[p] = "relookup"
  BY DEF CreateRelookup, TypeOK
<1>2. pc'[p] = "refundRead" /\ IdOf(p)' = IdOf(p)
  BY <1>1 DEF GoTo, TypeOK, IdOf
<1>3. HandlerOK(p)'
  BY <1>1, <1>2 DEF HandlerOK, tables
<1>4. pc' \in [Requests -> Labels] /\ \A q \in Requests : HandlerOK(q)'
  BY <1>1, <1>3, HandlersKept DEF tables, Labels
<1>5. reply' \in [Requests -> SUBSET Withdrawal]
  <2>1. PICK id \in DOMAIN withdrawals : reply' = [reply EXCEPT ![p] = {withdrawals[id]}]
    BY DEF CreateRelookup, ByKey
  <2> QED
    BY <2>1 DEF TypeOK
<1> QED
  BY <1>1, <1>4, <1>5 DEF TypeOK, tables, Labels

-----------------------------------------------------------------------------
LEMMA StatusReadTyped ==
  ASSUME TypeOK, NEW p \in Requests, StatusRead(p) PROVE TypeOK'
<1> DEFINE label == IF call[p].status \in Refunding THEN "refundRead" ELSE "statusWrite"
<1>1. call[p] \in StatusCall
  BY CallOfOp DEF StatusRead
<1>2. CASE Quit(p, "refused")
  BY <1>2, QuitTyped DEF Quit, Outcomes
<1>3. CASE IdOf(p) \in DOMAIN withdrawals /\ Answer(p, IdOf(p))
  BY <1>3, AnswerTyped
<1>4. CASE /\ call[p].status \in Terminal /\ IdOf(p) \in DOMAIN withdrawals
           /\ Proceed(p, label)
  <2>1. pc'[p] = label /\ UNCHANGED <<tables, locals, crashes>> /\ IdOf(p)' = IdOf(p)
    BY <1>4 DEF Proceed, GoTo, TypeOK, IdOf, locals
  <2>2. HandlerOK(p)'
    BY <1>1, <1>4, <2>1 DEF HandlerOK, tables, locals
  <2> QED
    BY <1>4, <2>2, ProceedTyped DEF Labels
<1> QED
  BY <1>2, <1>3, <1>4 DEF StatusRead

LEMMA StatusRecordTyped ==
  ASSUME TypeOK, NEW p \in Requests, StatusRecord(p) PROVE TypeOK'
<1> DEFINE receipt == [withdrawal |-> IdOf(p), type |-> ReceiptType[call[p].status]]
<1>1. /\ HandlerOK(p) /\ pc[p] = "record" /\ call[p].status \in Refunding
      /\ call[p] \in StatusCall /\ IdOf(p) \in DOMAIN withdrawals
  BY DEF TypeOK, StatusRecord, HandlerOK
<1>2. CASE Quit(p, "refused")
  BY <1>2, QuitTyped DEF Quit, Outcomes
<1>3. CASE /\ receipts' = receipts \cup {receipt}
           /\ GoTo(p, "statusWrite")
           /\ UNCHANGED <<wallets, withdrawals, payouts, locals, crashes>>
  <2>1. pc'[p] = "statusWrite" /\ IdOf(p)' = IdOf(p)
    BY <1>3 DEF GoTo, TypeOK, IdOf, locals
  <2>2. HandlerOK(p)'
    BY <1>1, <1>3, <2>1 DEF HandlerOK, locals, Terminal
  <2>3. pc' \in [Requests -> Labels] /\ \A q \in Requests : HandlerOK(q)'
    BY <1>3, <2>2, HandlersKept DEF locals, Labels
  <2>4. receipt \in [withdrawal : DOMAIN withdrawals, type : Range(ReceiptType)]
    BY <1>1 DEF ReceiptType, Refunding, Range
  <2> QED
    BY <1>3, <2>3, <2>4 DEF TypeOK, locals, Labels
<1> QED
  BY <1>2, <1>3 DEF StatusRecord

(* The row update_withdrawal_status leaves. *)
Reported(p) == [withdrawals[IdOf(p)] EXCEPT !.status = call[p].status]

LEMMA ReportedRow ==
  ASSUME TypeOK, NEW p \in Requests, StatusWrite(p)
  PROVE  /\ IdOf(p) \in DOMAIN withdrawals
         /\ Reported(p) \in Withdrawal /\ Reported(p).id = IdOf(p)
         /\ Reported(p).reference = withdrawals[IdOf(p)].reference
         /\ Reported(p).amount = withdrawals[IdOf(p)].amount
         /\ Reported(p).account = withdrawals[IdOf(p)].account
         /\ withdrawals' = [i \in DOMAIN withdrawals \cup {IdOf(p)} |->
                              IF i = IdOf(p) THEN Reported(p) ELSE withdrawals[i]]
         /\ reply' = [reply EXCEPT ![p] = {Reported(p)}]
<1>1. call[p].status \in Terminal /\ IdOf(p) \in DOMAIN withdrawals
  BY DEF TypeOK, StatusWrite, HandlerOK
<1>2. withdrawals[IdOf(p)] \in Withdrawal /\ withdrawals[IdOf(p)].id = IdOf(p)
  BY <1>1 DEF TypeOK
<1>3. DOMAIN withdrawals \cup {IdOf(p)} = DOMAIN withdrawals
  BY <1>1
<1>4. /\ withdrawals' = [withdrawals EXCEPT ![IdOf(p)] = Reported(p)]
      /\ reply' = [reply EXCEPT ![p] = {Reported(p)}]
  BY DEF StatusWrite, Reported
<1>5. withdrawals' = [i \in DOMAIN withdrawals \cup {IdOf(p)} |->
                        IF i = IdOf(p) THEN Reported(p) ELSE withdrawals[i]]
  BY <1>3, <1>4 DEF TypeOK
<1> QED
  BY <1>1, <1>2, <1>4, <1>5 DEF Reported, Withdrawal

LEMMA StatusWriteTyped ==
  ASSUME TypeOK, NEW p \in Requests, StatusWrite(p) PROVE TypeOK'
<1>1. /\ GoTo(p, "ok")
      /\ UNCHANGED <<wallets, receipts, payouts, call, account, named, snap, crashes>>
  BY DEF StatusWrite
<1> QED
  BY <1>1, ReportedRow, IdIsId, RowWriteTyped

-----------------------------------------------------------------------------
LEMMA RefundWalletIsWallet ==
  ASSUME TypeOK, NEW p \in Requests, pc[p] \in {"refundRead", "refundUpdate"}
  PROVE  /\ RefundWallet(p) \in Wallets /\ RefundAmount(p) \in Nat
         /\ call[p].op # "create" => call[p] \in StatusCall /\ call[p].status \in Refunding
         /\ call[p].op = "create" => call[p] \in CreateCall
<1>1. HandlerOK(p)
  BY DEF TypeOK
<1>2. IdOf(p) \in DOMAIN withdrawals
  BY <1>1 DEF HandlerOK
<1>3. withdrawals[IdOf(p)] \in Withdrawal
  BY <1>2 DEF TypeOK
<1>4. CASE call[p].op = "create"
  <2>1. call[p] \in CreateCall
    BY <1>4, CallOfOp
  <2> QED
    BY <1>4, <2>1 DEF RefundWallet, RefundAmount, CreateCall
<1>5. CASE call[p].op # "create"
  <2>1. call[p] \in StatusCall /\ call[p].status \in Refunding
    BY <1>1, <1>5 DEF HandlerOK, CreateCall
  <2> QED
    BY <1>3, <1>5, <2>1 DEF RefundWallet, RefundAmount, Withdrawal
<1> QED
  BY <1>4, <1>5

LEMMA RefundReadTyped ==
  ASSUME TypeOK, NEW p \in Requests, RefundRead(p) PROVE TypeOK'
<1>1. /\ pc[p] = "refundRead" /\ GoTo(p, "refundUpdate") /\ HandlerOK(p)
      /\ snap' = [snap EXCEPT ![p] = wallets[RefundWallet(p)]]
      /\ UNCHANGED <<tables, call, account, named, reply, crashes>>
  BY DEF RefundRead, TypeOK
<1>2. pc'[p] = "refundUpdate" /\ IdOf(p)' = IdOf(p)
  BY <1>1 DEF GoTo, TypeOK, IdOf
<1>3. HandlerOK(p)'
  BY <1>1, <1>2 DEF HandlerOK, tables
<1> QED
  BY <1>1, <1>3, RefundWalletIsWallet, ReadTyped DEF Labels

LEMMA RefundUpdateTyped ==
  ASSUME TypeOK, NEW p \in Requests, RefundUpdate(p) PROVE TypeOK'
<1> DEFINE w == RefundWallet(p)
           new == Stored(Apply("TOP_UP", snap[p], RefundAmount(p)))
<1>1. pc[p] = "refundUpdate" /\ HandlerOK(p) /\ snap[p] \in Wallet
  BY DEF RefundUpdate, TypeOK
<1>2. w \in Wallets /\ RefundAmount(p) \in Nat
  BY <1>1, RefundWalletIsWallet
<1>3. new \in Wallet
  BY <1>1, <1>2, StoredIsWallet
<1>4. CASE \/ Proceed(p, "ok") \/ Proceed(p, "conflict")
  BY <1>4, QuitTyped DEF Outcomes
<1>5. CASE /\ wallets' = [wallets EXCEPT ![w] = new]
           /\ GoTo(p, IF call[p].op = "create" THEN "ok" ELSE "record")
           /\ UNCHANGED <<withdrawals, receipts, payouts, locals, crashes>>
  <2> DEFINE label == IF call[p].op = "create" THEN "ok" ELSE "record"
  <2>1. label \in Labels /\ GoTo(p, label)
    BY <1>5 DEF Labels, Outcomes
  <2>2. pc'[p] = label /\ IdOf(p)' = IdOf(p)
    BY <1>5 DEF GoTo, TypeOK, IdOf, locals
  <2>3. HandlerOK(p)'
    BY <1>1, <1>5, <2>2, RefundWalletIsWallet DEF HandlerOK, locals
  <2> HIDE DEF new, label, w
  <2> QED
    BY <1>2, <1>3, <1>5, <2>1, <2>3, WalletWriteTyped
<1> QED
  BY <1>4, <1>5 DEF RefundUpdate

LEMMA AbortTyped ==
  ASSUME TypeOK, NEW p \in Requests, Abort(p) PROVE TypeOK'
<1>1. /\ crashes < MaxCrashes /\ crashes' = crashes + 1
      /\ GoTo(p, "aborted") /\ UNCHANGED <<tables, locals>>
  BY DEF Abort
<1>2. pc'[p] = "aborted"
  BY <1>1 DEF GoTo, TypeOK
<1>3. HandlerOK(p)'
  BY <1>2 DEF HandlerOK
<1>4. pc' \in [Requests -> Labels] /\ \A q \in Requests : HandlerOK(q)'
  BY <1>1, <1>3, HandlersKept DEF locals, tables, Labels, Outcomes
<1>5. crashes' \in 0 .. MaxCrashes
  BY <1>1, BoundsAssumption DEF TypeOK
<1> QED
  BY <1>1, <1>4, <1>5 DEF TypeOK, locals, tables, Labels

LEMMA InitTyped == Init => TypeOK
<1> SUFFICES ASSUME Init PROVE TypeOK
  OBVIOUS
<1>1. [NewWallet EXCEPT !.active = InitialActive] \in Wallet
  BY BoundsAssumption DEF NewWallet, Wallet
<1>2. NewWallet \in Wallet
  BY DEF NewWallet, Wallet
<1>3. \A p \in Requests : HandlerOK(p)
  BY DEF Init, HandlerOK
<1> QED
  BY <1>1, <1>2, <1>3, BoundsAssumption DEF Init, TypeOK, Outcomes, Naming

LEMMA NextTyped == TypeOK /\ [Next]_vars => TypeOK'
<1> SUFFICES ASSUME TypeOK, [Next]_vars PROVE TypeOK'
  OBVIOUS
<1>1. CASE UNCHANGED vars
  BY <1>1 DEF vars, tables, locals, TypeOK, HandlerOK, IdOf
<1> QED
  BY <1>1, CreateLookupTyped, CreateAccountTyped, CreatePayoutTyped, DebitReadTyped,
     DebitUpdateTyped, CreateInsertTyped, CreateRelookupTyped, StatusReadTyped,
     StatusRecordTyped, StatusWriteTyped, RefundReadTyped, RefundUpdateTyped,
     AbortTyped DEF Next

(* No balance leaves its CHECK, no row is stored that its columns refuse, and every
   handler works on what it has checked: an amount that is positive, an account that
   has been validated, a withdrawal that exists. *)
THEOREM TypeCorrect == Spec => []TypeOK
BY InitTyped, NextTyped, PTL DEF Spec

-----------------------------------------------------------------------------
(* The payout follows the row.  A handler that has paid keeps the order it sent and the
   name it has been told for it; the row it stores is that order under that name; nothing
   but the status of a row ever changes. *)
Sent(p) == Order(p, named[p])

OrderOf(row) ==
  [reference |-> row.reference, amount |-> row.amount, account |-> row.account]

HandlersPaid ==
  IrisKeysSet => \A p \in Requests :
    pc[p] \in {"debitRead", "debitUpdate", "insert"} => Sent(p) \in payouts

RowsPaid == IrisKeysSet => \A id \in DOMAIN withdrawals : OrderOf(withdrawals[id]) \in payouts

Same(a, b) == a.reference = b.reference /\ a.amount = b.amount /\ a.account = b.account

RepliesRead ==
  \A p \in Requests : \A row \in reply[p] :
    row.id \in DOMAIN withdrawals /\ Same(withdrawals[row.id], row)

IInv == TypeOK /\ HandlersPaid /\ RowsPaid /\ RepliesRead

(* A handler that is not about to debit or to store, under payouts that only grow. *)
LEMMA PaidKept ==
  ASSUME TypeOK, HandlersPaid, NEW p \in Requests, NEW label \in Labels, GoTo(p, label),
         call' = call,
         \A q \in Requests \ {p} : account'[q] = account[q] /\ named'[q] = named[q],
         payouts \subseteq payouts',
         IrisKeysSet /\ label \in {"debitRead", "debitUpdate", "insert"} => Sent(p)' \in payouts'
  PROVE  HandlersPaid'
<1> SUFFICES ASSUME IrisKeysSet, NEW q \in Requests,
                    pc'[q] \in {"debitRead", "debitUpdate", "insert"}
             PROVE  Sent(q)' \in payouts'
  BY DEF HandlersPaid
<1>1. CASE q = p
  BY <1>1 DEF GoTo, TypeOK
<1>2. CASE q # p
  <2>1. pc'[q] = pc[q] /\ Sent(q)' = Sent(q)
    BY <1>2 DEF GoTo, TypeOK, Sent, Order
  <2> QED
    BY <2>1 DEF HandlersPaid
<1> QED
  BY <1>1, <1>2

(* A handler that changes no table but wallets and receipts, answers nothing, and either
   has paid or is not about to store. *)
LEMMA StepKeeps ==
  ASSUME IInv, NEW p \in Requests, NEW label \in Labels, GoTo(p, label), TypeOK',
         UNCHANGED <<withdrawals, payouts, call, account, named, reply>>,
         label \in {"debitRead", "debitUpdate", "insert"} =>
           pc[p] \in {"debitRead", "debitUpdate"}
  PROVE  IInv'
<1>1. Sent(p)' = Sent(p)
  BY DEF Sent, Order
<1>2. IrisKeysSet /\ label \in {"debitRead", "debitUpdate", "insert"} => Sent(p)' \in payouts'
  BY <1>1 DEF IInv, HandlersPaid
<1>3. HandlersPaid'
  BY <1>2, PaidKept DEF IInv
<1> QED
  BY <1>3 DEF IInv, RowsPaid, RepliesRead, OrderOf, Same

(* A handler that reads a row and answers with it. *)
LEMMA AnswerKeeps ==
  ASSUME IInv, NEW p \in Requests, NEW id \in DOMAIN withdrawals, NEW label \in Labels,
         reply' = [reply EXCEPT ![p] = {withdrawals[id]}], GoTo(p, label), TypeOK',
         UNCHANGED <<withdrawals, payouts, call, account, named>>,
         label \notin {"debitRead", "debitUpdate", "insert"}
  PROVE  IInv'
<1>1. HandlersPaid'
  BY PaidKept DEF IInv
<1>2. withdrawals[id].id = id
  BY DEF IInv, TypeOK
<1>3. RepliesRead'
  BY <1>2 DEF IInv, TypeOK, RepliesRead, Same
<1> QED
  BY <1>1, <1>3 DEF IInv, RowsPaid, OrderOf

(* A handler that writes a row with the reference, amount and account the id has
   already, or with an order it has paid under an id that is new, and answers with it. *)
LEMMA WriteKeeps ==
  ASSUME IInv, NEW p \in Requests, NEW id \in WithdrawalIds, NEW row, row.id = id,
         withdrawals' = [i \in DOMAIN withdrawals \cup {id} |->
                           IF i = id THEN row ELSE withdrawals[i]],
         reply' = [reply EXCEPT ![p] = {row}], GoTo(p, "ok"), TypeOK',
         UNCHANGED <<payouts, call, account, named>>,
         \/ id \in DOMAIN withdrawals /\ Same(withdrawals[id], row)
         \/ id \notin DOMAIN withdrawals /\ (IrisKeysSet => OrderOf(row) \in payouts)
  PROVE  IInv'
<1>1. HandlersPaid'
  BY PaidKept DEF IInv, Labels, Outcomes
<1>2. IrisKeysSet => OrderOf(row) \in payouts
  BY DEF IInv, RowsPaid, Same, OrderOf
<1>3. RowsPaid'
  BY <1>2 DEF IInv, RowsPaid, OrderOf
<1>4. ASSUME NEW q \in Requests, NEW r \in reply'[q]
      PROVE  r.id \in DOMAIN withdrawals' /\ Same(withdrawals'[r.id], r)
  <2>1. CASE q = p
    <3>1. r = row
      BY <2>1, <1>4 DEF IInv, TypeOK
    <3> QED
      BY <3>1 DEF Same
  <2>2. CASE q # p
    <3>1. r \in reply[q]
      BY <2>2, <1>4 DEF IInv, TypeOK
    <3>2. r.id \in DOMAIN withdrawals /\ Same(withdrawals[r.id], r)
      BY <3>1 DEF IInv, RepliesRead
    <3> QED
      BY <3>2 DEF Same
  <2> QED
    BY <2>1, <2>2
<1>5. RepliesRead'
  BY <1>4 DEF RepliesRead
<1> QED
  BY <1>1, <1>3, <1>5 DEF IInv

-----------------------------------------------------------------------------
LEMMA ProceedKeeps ==
  ASSUME IInv, NEW p \in Requests, NEW label \in Labels, Proceed(p, label), TypeOK',
         label \in {"debitRead", "debitUpdate", "insert"} =>
           pc[p] \in {"debitRead", "debitUpdate"}
  PROVE  IInv'
BY StepKeeps DEF Proceed, tables, locals

LEMMA AnsweredKeeps ==
  ASSUME IInv, NEW p \in Requests, NEW id \in DOMAIN withdrawals, Answer(p, id), TypeOK'
  PROVE  IInv'
BY AnswerKeeps DEF Answer, tables, Labels, Outcomes

LEMMA CreateLookupKeeps ==
  ASSUME IInv, NEW p \in Requests, CreateLookup(p), TypeOK' PROVE IInv'
<1>1. \/ \E label \in {"refused", "account"} : Proceed(p, label)
      \/ \E id \in DOMAIN withdrawals : Answer(p, id)
  BY DEF CreateLookup, Quit, ByKey
<1> QED
  BY <1>1, ProceedKeeps, AnsweredKeeps DEF Labels, Outcomes

LEMMA CreateAccountKeeps ==
  ASSUME IInv, NEW p \in Requests, CreateAccount(p), TypeOK' PROVE IInv'
<1>1. CASE Quit(p, "failed")
  BY <1>1, ProceedKeeps DEF Quit, Labels, Outcomes
<1>2. ASSUME NEW a, account' = [account EXCEPT ![p] = a], GoTo(p, "payout"),
             UNCHANGED <<tables, call, named, snap, reply, crashes>>
      PROVE  IInv'
  <2>1. \A q \in Requests \ {p} : account'[q] = account[q] /\ named'[q] = named[q]
    BY <1>2 DEF IInv, TypeOK
  <2>2. HandlersPaid'
    BY <1>2, <2>1, PaidKept DEF IInv, Labels, tables
  <2> QED
    BY <1>2, <2>2 DEF IInv, RowsPaid, RepliesRead, OrderOf, Same, tables
<1> QED
  BY <1>1, <1>2 DEF CreateAccount

LEMMA CreatePayoutKeeps ==
  ASSUME IInv, NEW p \in Requests, CreatePayout(p), TypeOK' PROVE IInv'
<1>1. PICK result \in Payout :
        /\ payouts' = IF result.paid THEN payouts \cup {Order(p, result.reference)} ELSE payouts
        /\ named' = [named EXCEPT ![p] = result.reference]
        /\ GoTo(p, AfterPayout(result.reference))
  BY DEF CreatePayout
<1>2. UNCHANGED <<wallets, withdrawals, receipts, call, account, snap, reply>>
  BY DEF CreatePayout
<1>3. /\ payouts \subseteq payouts' /\ Sent(p)' = Order(p, result.reference)
      /\ \A q \in Requests \ {p} : named'[q] = named[q]
  BY <1>1, <1>2 DEF IInv, TypeOK, Sent, Order
<1>4. IrisKeysSet /\ AfterPayout(result.reference) = "debitRead" => result.paid
  BY DEF AfterPayout, Payout
<1>5. AfterPayout(result.reference) \in {"failed", "debitRead"}
  BY DEF AfterPayout
<1>6. HandlersPaid'
  BY <1>1, <1>2, <1>3, <1>4, <1>5, PaidKept DEF IInv, Labels, Outcomes
<1> QED
  BY <1>2, <1>3, <1>6 DEF IInv, RowsPaid, RepliesRead, OrderOf, Same

LEMMA DebitReadKeeps ==
  ASSUME IInv, NEW p \in Requests, DebitRead(p), TypeOK' PROVE IInv'
<1>1. /\ pc[p] = "debitRead" /\ \E label \in {"refused", "debitUpdate"} : GoTo(p, label)
      /\ UNCHANGED <<withdrawals, payouts, call, account, named, reply>>
  BY DEF DebitRead, Quit, Proceed, tables, locals
<1> QED
  BY <1>1, StepKeeps DEF Labels, Outcomes

LEMMA DebitUpdateKeeps ==
  ASSUME IInv, NEW p \in Requests, DebitUpdate(p), TypeOK' PROVE IInv'
<1>1. /\ pc[p] = "debitUpdate" /\ \E label \in {"conflict", "insert"} : GoTo(p, label)
      /\ UNCHANGED <<withdrawals, payouts, call, account, named, reply>>
  BY DEF DebitUpdate, Quit, Proceed, tables, locals
<1> QED
  BY <1>1, StepKeeps DEF Labels, Outcomes

LEMMA CreateInsertKeeps ==
  ASSUME IInv, NEW p \in Requests, CreateInsert(p), TypeOK' PROVE IInv'
<1>1. CASE Proceed(p, "relookup")
  BY <1>1, ProceedKeeps DEF Labels
<1>2. CASE IdOf(p) \notin DOMAIN withdrawals /\ Insert(p)
  <2>1. NewWithdrawal(p).id = IdOf(p) /\ OrderOf(NewWithdrawal(p)) = Sent(p)
    BY DEF NewWithdrawal, OrderOf, Sent, Order
  <2>2. IrisKeysSet => OrderOf(NewWithdrawal(p)) \in payouts
    BY <2>1 DEF IInv, HandlersPaid, CreateInsert
  <2>3. IdOf(p) \in WithdrawalIds
    BY IdIsId DEF IInv
  <2> QED
    BY <1>2, <2>1, <2>2, <2>3, WriteKeeps DEF Insert
<1> QED
  BY <1>1, <1>2 DEF CreateInsert

LEMMA CreateRelookupKeeps ==
  ASSUME IInv, NEW p \in Requests, CreateRelookup(p), TypeOK' PROVE IInv'
<1>1. PICK id \in DOMAIN withdrawals : reply' = [reply EXCEPT ![p] = {withdrawals[id]}]
  BY DEF CreateRelookup, ByKey
<1> QED
  BY <1>1, AnswerKeeps DEF CreateRelookup, tables, Labels

LEMMA StatusReadKeeps ==
  ASSUME IInv, NEW p \in Requests, StatusRead(p), TypeOK' PROVE IInv'
<1>1. \/ \E label \in {"refused", "refundRead", "statusWrite"} : Proceed(p, label)
      \/ \E id \in DOMAIN withdrawals : Answer(p, id)
  BY DEF StatusRead, Quit
<1> QED
  BY <1>1, ProceedKeeps, AnsweredKeeps DEF Labels, Outcomes

LEMMA StatusRecordKeeps ==
  ASSUME IInv, NEW p \in Requests, StatusRecord(p), TypeOK' PROVE IInv'
<1>1. /\ \E label \in {"refused", "statusWrite"} : GoTo(p, label)
      /\ UNCHANGED <<withdrawals, payouts, call, account, named, reply>>
  BY DEF StatusRecord, Quit, Proceed, tables, locals
<1> QED
  BY <1>1, StepKeeps DEF Labels, Outcomes

LEMMA StatusWriteKeeps ==
  ASSUME IInv, NEW p \in Requests, StatusWrite(p), TypeOK' PROVE IInv'
<1>1. IdOf(p) \in DOMAIN withdrawals /\ Same(withdrawals[IdOf(p)], Reported(p))
  BY ReportedRow DEF IInv, Same
<1>2. IdOf(p) \in WithdrawalIds /\ Reported(p).id = IdOf(p)
  BY ReportedRow, IdIsId DEF IInv
<1>3. /\ withdrawals' = [i \in DOMAIN withdrawals \cup {IdOf(p)} |->
                           IF i = IdOf(p) THEN Reported(p) ELSE withdrawals[i]]
      /\ reply' = [reply EXCEPT ![p] = {Reported(p)}]
      /\ GoTo(p, "ok") /\ UNCHANGED <<payouts, call, account, named>>
  BY ReportedRow DEF IInv, StatusWrite
<1> QED
  BY <1>1, <1>2, <1>3, WriteKeeps

LEMMA RefundReadKeeps ==
  ASSUME IInv, NEW p \in Requests, RefundRead(p), TypeOK' PROVE IInv'
BY StepKeeps DEF RefundRead, tables, Labels

LEMMA RefundUpdateKeeps ==
  ASSUME IInv, NEW p \in Requests, RefundUpdate(p), TypeOK' PROVE IInv'
<1>1. /\ \E label \in {"ok", "conflict", "record"} : GoTo(p, label)
      /\ UNCHANGED <<withdrawals, payouts, call, account, named, reply>>
  BY DEF RefundUpdate, Proceed, tables, locals
<1> QED
  BY <1>1, StepKeeps DEF Labels, Outcomes

LEMMA AbortKeeps ==
  ASSUME IInv, NEW p \in Requests, Abort(p), TypeOK' PROVE IInv'
BY StepKeeps DEF Abort, tables, locals, Labels, Outcomes

LEMMA InitInvariant == Init => IInv
<1> SUFFICES ASSUME Init PROVE HandlersPaid /\ RowsPaid /\ RepliesRead
  BY InitTyped DEF IInv
<1> QED
  BY DEF Init, HandlersPaid, RowsPaid, RepliesRead

LEMMA NextKeepsInvariant == IInv /\ [Next]_vars => IInv'
<1> SUFFICES ASSUME IInv, [Next]_vars PROVE IInv'
  OBVIOUS
<1>1. TypeOK'
  BY NextTyped DEF IInv
<1>2. CASE UNCHANGED vars
  BY <1>1, <1>2 DEF vars, tables, locals, IInv, HandlersPaid, RowsPaid, RepliesRead,
     OrderOf, Sent, Order, Same
<1> QED
  BY <1>1, <1>2, CreateLookupKeeps, CreateAccountKeeps, CreatePayoutKeeps, DebitReadKeeps,
     DebitUpdateKeeps, CreateInsertKeeps, CreateRelookupKeeps, StatusReadKeeps,
     StatusRecordKeeps, StatusWriteKeeps, RefundReadKeeps, RefundUpdateKeeps,
     AbortKeeps DEF Next

LEMMA InvariantReplies == IInv => WithdrawalRepliesStand
<1> SUFFICES ASSUME IInv, NEW p \in Requests, NEW row \in reply[p]
             PROVE  /\ row.id \in DOMAIN withdrawals
                    /\ withdrawals[row.id].reference = row.reference
                    /\ IrisKeysSet => OrderOf(row) \in payouts
  BY DEF WithdrawalRepliesStand, OrderOf
<1>1. row.id \in DOMAIN withdrawals /\ Same(withdrawals[row.id], row)
  BY DEF IInv, RepliesRead
<1>2. OrderOf(row) = OrderOf(withdrawals[row.id])
  BY <1>1 DEF OrderOf, Same
<1> QED
  BY <1>1, <1>2 DEF IInv, RowsPaid, Same

(* Whoever is told of a withdrawal, by its own insertion, by key, or after losing the
   race for the key, is told of a stored row whose payout was sent for that amount to
   that account, however many requests race and wherever they are dropped. *)
THEOREM WithdrawalReplies == Spec => []WithdrawalRepliesStand
BY InitInvariant, NextKeepsInvariant, InvariantReplies, PTL DEF Spec

-----------------------------------------------------------------------------
(* What a step means for money.  Before sending its payout a handler has done nothing;
   then it is to debit the wallet, and then it owes the row or the refund. *)
Unsent    == {"new", "account", "payout"}
Debiting  == {"debitRead", "debitUpdate"}
Owing     == {"insert", "relookup", "refundRead", "refundUpdate"}
Reporting == {"new", "refundRead", "refundUpdate"}
Writing   == {"debitUpdate", "refundUpdate"}

OthersWait(p) == \A q \in Requests \ {p} : pc'[q] = pc[q] /\ snap'[q] = snap[q]

RowsStay ==
  /\ DOMAIN withdrawals' = DOMAIN withdrawals
  /\ \A id \in DOMAIN withdrawals :
       /\ withdrawals'[id].wallet = withdrawals[id].wallet
       /\ withdrawals'[id].amount = withdrawals[id].amount

(* The handler reads, answers or ends; it gets nowhere that money would have been moved for. *)
Quiet(p) ==
  /\ UNCHANGED <<wallets, payouts, call>> /\ RowsStay /\ OthersWait(p)
  /\ pc'[p] \in Unsent => pc[p] \in Unsent
  /\ pc'[p] \in Debiting => pc[p] \in Debiting
  /\ pc'[p] \in Owing /\ call[p].op = "create" => pc[p] \in Owing
  /\ pc'[p] \in Reporting /\ call[p].op = "status" => pc[p] \in Reporting
  /\ pc'[p] \in Writing => snap'[p] = wallets[RefundWallet(p)]

Pays(p) ==
  /\ pc[p] = "payout" /\ pc'[p] \in {"failed", "debitRead"} /\ call[p].op = "create"
  /\ \E name \in Naming : payouts' \in {payouts, payouts \cup {Order(p, name)}}
  /\ UNCHANGED <<wallets, withdrawals, call>> /\ OthersWait(p)

Debits(p) ==
  /\ pc[p] = "debitUpdate" /\ pc'[p] = "insert" /\ call[p].op = "create"
  /\ VersionMatches(p, call[p].wallet)
  /\ wallets' = [wallets EXCEPT ![call[p].wallet] =
                   Stored(Apply("WITHDRAW", snap[p], call[p].amount))]
  /\ UNCHANGED <<withdrawals, payouts, call>> /\ OthersWait(p)

Stores(p) ==
  /\ pc[p] = "insert" /\ pc'[p] = "ok" /\ call[p].op = "create"
  /\ IdOf(p) \notin DOMAIN withdrawals /\ Insert(p)
  /\ UNCHANGED <<wallets, payouts, call>> /\ OthersWait(p)

Refunds(p) ==
  /\ pc[p] = "refundUpdate" /\ pc'[p] \in {"ok", "record"}
  /\ VersionMatches(p, RefundWallet(p))
  /\ wallets' = [wallets EXCEPT ![RefundWallet(p)] =
                   Stored(Apply("TOP_UP", snap[p], RefundAmount(p)))]
  /\ UNCHANGED <<withdrawals, payouts, call>> /\ OthersWait(p)

LEMMA MovesOn ==
  ASSUME TypeOK, NEW p \in Requests, NEW label, GoTo(p, label)
  PROVE  pc'[p] = label /\ \A q \in Requests \ {p} : pc'[q] = pc[q]
BY DEF TypeOK, GoTo

(* A handler that only moves on, to a place no further than where it is. *)
LEMMA ProceedQuiet ==
  ASSUME TypeOK, NEW p \in Requests, NEW label, Proceed(p, label),
         label \in Unsent => pc[p] \in Unsent,
         label \notin Debiting \cup Writing,
         label \in Owing /\ call[p].op = "create" => pc[p] \in Owing,
         label \in Reporting /\ call[p].op = "status" => pc[p] \in Reporting
  PROVE  Quiet(p)
BY MovesOn DEF Proceed, tables, locals, Quiet, RowsStay, OthersWait, Writing

LEMMA EndQuiet ==
  ASSUME TypeOK, NEW p \in Requests, NEW outcome \in Outcomes, Proceed(p, outcome)
  PROVE  Quiet(p)
BY ProceedQuiet DEF Outcomes, Unsent, Debiting, Writing, Owing, Reporting

LEMMA AnswerQuiet ==
  ASSUME TypeOK, NEW p \in Requests, NEW id, Answer(p, id) PROVE Quiet(p)
<1>1. pc'[p] = "ok" /\ OthersWait(p) /\ UNCHANGED <<tables, call, account, named, snap, crashes>>
  BY MovesOn DEF Answer, OthersWait
<1> QED
  BY <1>1 DEF Quiet, RowsStay, tables, Unsent, Debiting, Writing, Owing, Reporting

LEMMA CreateSteps ==
  ASSUME TypeOK, NEW p \in Requests,
         \/ CreateLookup(p) \/ CreateAccount(p) \/ CreatePayout(p) \/ DebitRead(p)
         \/ DebitUpdate(p) \/ CreateInsert(p) \/ CreateRelookup(p)
  PROVE  Quiet(p) \/ Pays(p) \/ Debits(p) \/ Stores(p)
<1>1. CASE CreateLookup(p)
  <2>1. CASE \E outcome \in {"refused"} : Proceed(p, outcome)
    BY <2>1, EndQuiet DEF Outcomes
  <2>2. CASE \E id \in DOMAIN withdrawals : Answer(p, id)
    BY <2>2, AnswerQuiet
  <2>3. CASE Proceed(p, "account")
    BY <1>1, <2>3, ProceedQuiet DEF CreateLookup, Unsent, Debiting, Writing, Owing, Reporting
  <2> QED
    BY <1>1, <2>1, <2>2, <2>3 DEF CreateLookup, Quit, ByKey
<1>2. CASE CreateAccount(p)
  <2>1. CASE Quit(p, "failed")
    BY <2>1, EndQuiet DEF Outcomes, Quit
  <2>2. CASE GoTo(p, "payout") /\ UNCHANGED <<tables, call, named, snap, reply, crashes>>
    <3>1. pc'[p] = "payout" /\ OthersWait(p) /\ pc[p] = "account"
      BY <1>2, <2>2, MovesOn DEF CreateAccount, OthersWait
    <3>2. call[p].op = "create"
      BY <3>1, CallOfOp DEF TypeOK, HandlerOK
    <3> QED
      BY <2>2, <3>1, <3>2 DEF Quiet, RowsStay, tables, Unsent, Debiting, Writing, Owing, Reporting
  <2> QED
    BY <1>2, <2>1, <2>2 DEF CreateAccount
<1>3. CASE CreatePayout(p)
  <2>1. PICK result \in Payout :
          /\ payouts' = IF result.paid THEN payouts \cup {Order(p, result.reference)} ELSE payouts
          /\ GoTo(p, AfterPayout(result.reference))
    BY <1>3 DEF CreatePayout
  <2>2. /\ pc[p] = "payout"
        /\ UNCHANGED <<wallets, withdrawals, receipts, call, account, snap, reply, crashes>>
    BY <1>3 DEF CreatePayout
  <2>3. AfterPayout(result.reference) \in {"failed", "debitRead"}
    BY DEF AfterPayout
  <2>4. pc'[p] \in {"failed", "debitRead"} /\ OthersWait(p)
    BY <2>1, <2>2, <2>3, MovesOn DEF OthersWait
  <2>5. call[p].op = "create"
    BY <2>2, CallOfOp DEF TypeOK, HandlerOK
  <2>6. result.reference \in Naming
    BY DEF Payout, Naming
  <2> QED
    BY <2>1, <2>2, <2>4, <2>5, <2>6 DEF Pays
<1>4. CASE DebitRead(p)
  <2>1. CASE Quit(p, "refused")
    BY <2>1, EndQuiet DEF Outcomes, Quit
  <2>2. CASE /\ snap' = [snap EXCEPT ![p] = wallets[call[p].wallet]]
             /\ GoTo(p, "debitUpdate") /\ UNCHANGED <<tables, call, account, named, reply, crashes>>
    <3>1. pc'[p] = "debitUpdate" /\ \A q \in Requests \ {p} : pc'[q] = pc[q]
      BY <2>2, MovesOn
    <3>2. snap'[p] = wallets[call[p].wallet] /\ OthersWait(p)
      BY <2>2, <3>1 DEF OthersWait, TypeOK
    <3>3. pc[p] = "debitRead" /\ call[p].op = "create"
      BY <1>4, CallOfOp DEF DebitRead, TypeOK, HandlerOK
    <3> QED
      BY <2>2, <3>1, <3>2, <3>3 DEF Quiet, RowsStay, RefundWallet, tables,
         Unsent, Debiting, Writing, Owing, Reporting
  <2> QED
    BY <1>4, <2>1, <2>2 DEF DebitRead
<1>5. CASE DebitUpdate(p)
  <2>1. CASE Quit(p, "conflict")
    BY <2>1, EndQuiet DEF Outcomes, Quit
  <2>2. CASE /\ VersionMatches(p, call[p].wallet)
             /\ wallets' = [wallets EXCEPT ![call[p].wallet] =
                              Stored(Apply("WITHDRAW", snap[p], call[p].amount))]
             /\ GoTo(p, "insert") /\ UNCHANGED <<withdrawals, receipts, payouts, locals, crashes>>
    <3>1. pc'[p] = "insert" /\ OthersWait(p)
      BY <2>2, MovesOn DEF OthersWait, locals
    <3>2. pc[p] = "debitUpdate" /\ call[p].op = "create"
      BY <1>5, CallOfOp DEF DebitUpdate, TypeOK, HandlerOK
    <3> QED
      BY <2>2, <3>1, <3>2 DEF Debits, locals
  <2> QED
    BY <1>5, <2>1, <2>2 DEF DebitUpdate
<1>6. CASE CreateInsert(p)
  <2>1. pc[p] = "insert" /\ call[p].op = "create"
    BY <1>6, CallOfOp DEF CreateInsert, TypeOK, HandlerOK
  <2>2. CASE Proceed(p, "relookup")
    BY <2>1, <2>2, ProceedQuiet DEF Unsent, Debiting, Writing, Owing, Reporting
  <2>3. CASE IdOf(p) \notin DOMAIN withdrawals /\ Insert(p)
    <3>1. pc'[p] = "ok" /\ OthersWait(p)
      BY <2>3, MovesOn DEF Insert, OthersWait
    <3> QED
      BY <2>1, <2>3, <3>1 DEF Stores, Insert
  <2> QED
    BY <1>6, <2>2, <2>3 DEF CreateInsert
<1>7. CASE CreateRelookup(p)
  <2>1. pc[p] = "relookup" /\ call[p].op = "create"
    BY <1>7, CallOfOp DEF CreateRelookup, TypeOK, HandlerOK
  <2>2. GoTo(p, "refundRead") /\ UNCHANGED <<tables, call, account, named, snap, crashes>>
    BY <1>7 DEF CreateRelookup
  <2>3. pc'[p] = "refundRead" /\ OthersWait(p)
    BY <2>2, MovesOn DEF OthersWait
  <2> QED
    BY <2>1, <2>2, <2>3 DEF Quiet, RowsStay, tables, Unsent, Debiting, Writing, Owing, Reporting
<1> QED
  BY <1>1, <1>2, <1>3, <1>4, <1>5, <1>6, <1>7

LEMMA OtherSteps ==
  ASSUME TypeOK, NEW p \in Requests,
         \/ StatusRead(p) \/ StatusRecord(p) \/ StatusWrite(p)
         \/ RefundRead(p) \/ RefundUpdate(p) \/ Abort(p)
  PROVE  Quiet(p) \/ Refunds(p)
<1>1. CASE StatusRead(p)
  <2>1. pc[p] = "new" /\ call[p].op = "status"
    BY <1>1 DEF StatusRead
  <2>2. CASE \E outcome \in {"refused"} : Proceed(p, outcome)
    BY <2>2, EndQuiet DEF Outcomes
  <2>3. CASE Answer(p, IdOf(p))
    BY <2>3, AnswerQuiet
  <2>4. CASE \E label \in {"refundRead", "statusWrite"} : Proceed(p, label)
    BY <2>1, <2>4, ProceedQuiet DEF Unsent, Debiting, Writing, Owing, Reporting
  <2> QED
    BY <1>1, <2>2, <2>3, <2>4 DEF StatusRead, Quit
<1>2. CASE StatusRecord(p)
  <2>1. CASE Quit(p, "refused")
    BY <2>1, EndQuiet DEF Outcomes, Quit
  <2>2. CASE GoTo(p, "statusWrite") /\ UNCHANGED <<wallets, withdrawals, payouts, locals, crashes>>
    <3>1. pc'[p] = "statusWrite" /\ OthersWait(p)
      BY <2>2, MovesOn DEF OthersWait, locals
    <3> QED
      BY <2>2, <3>1 DEF Quiet, RowsStay, locals, Unsent, Debiting, Writing, Owing, Reporting
  <2> QED
    BY <1>2, <2>1, <2>2 DEF StatusRecord
<1>3. CASE StatusWrite(p)
  <2>1. GoTo(p, "ok") /\ UNCHANGED <<wallets, receipts, payouts, call, account, named, snap, crashes>>
    BY <1>3 DEF StatusWrite
  <2>2. pc'[p] = "ok" /\ OthersWait(p)
    BY <2>1, MovesOn DEF OthersWait
  <2>3. /\ IdOf(p) \in DOMAIN withdrawals
        /\ withdrawals' = [withdrawals EXCEPT ![IdOf(p)] =
                             [withdrawals[IdOf(p)] EXCEPT !.status = call[p].status]]
        /\ withdrawals[IdOf(p)] \in Withdrawal
    BY <1>3 DEF StatusWrite, TypeOK, HandlerOK
  <2>4. RowsStay
    <3>1. /\ [withdrawals[IdOf(p)] EXCEPT !.status = call[p].status].wallet = withdrawals[IdOf(p)].wallet
          /\ [withdrawals[IdOf(p)] EXCEPT !.status = call[p].status].amount = withdrawals[IdOf(p)].amount
      BY <2>3 DEF Withdrawal
    <3> QED
      BY <2>3, <3>1 DEF RowsStay, TypeOK
  <2> QED
    BY <2>1, <2>2, <2>4 DEF Quiet, Unsent, Debiting, Writing, Owing, Reporting
<1>4. CASE RefundRead(p)
  <2>1. /\ pc[p] = "refundRead" /\ snap' = [snap EXCEPT ![p] = wallets[RefundWallet(p)]]
        /\ GoTo(p, "refundUpdate") /\ UNCHANGED <<tables, call, account, named, reply, crashes>>
    BY <1>4 DEF RefundRead
  <2>2. pc'[p] = "refundUpdate" /\ \A q \in Requests \ {p} : pc'[q] = pc[q]
    BY <2>1, MovesOn
  <2>3. snap'[p] = wallets[RefundWallet(p)] /\ OthersWait(p)
    BY <2>1, <2>2 DEF OthersWait, TypeOK
  <2> QED
    BY <2>1, <2>2, <2>3 DEF Quiet, RowsStay, tables, Unsent, Debiting, Writing, Owing, Reporting
<1>5. CASE RefundUpdate(p)
  <2>1. CASE \E outcome \in {"ok", "conflict"} : Proceed(p, outcome)
    BY <2>1, EndQuiet DEF Outcomes
  <2>2. CASE /\ VersionMatches(p, RefundWallet(p))
             /\ wallets' = [wallets EXCEPT ![RefundWallet(p)] =
                              Stored(Apply("TOP_UP", snap[p], RefundAmount(p)))]
             /\ \E label \in {"ok", "record"} : GoTo(p, label)
             /\ UNCHANGED <<withdrawals, receipts, payouts, locals, crashes>>
    <3>1. pc'[p] \in {"ok", "record"} /\ OthersWait(p)
      BY <2>2, MovesOn DEF OthersWait, locals
    <3> QED
      BY <1>5, <2>2, <3>1 DEF Refunds, RefundUpdate, locals
  <2> QED
    BY <1>5, <2>1, <2>2 DEF RefundUpdate
<1>6. CASE Abort(p)
  <2>1. GoTo(p, "aborted") /\ UNCHANGED <<tables, locals>>
    BY <1>6 DEF Abort
  <2>2. pc'[p] = "aborted" /\ OthersWait(p)
    BY <2>1, MovesOn DEF OthersWait, locals
  <2> QED
    BY <2>1, <2>2 DEF Quiet, RowsStay, locals, tables, Unsent, Debiting, Writing, Owing, Reporting
<1> QED
  BY <1>1, <1>2, <1>3, <1>4, <1>5, <1>6

LEMMA StepKinds ==
  ASSUME TypeOK, [Next]_vars
  PROVE  \/ UNCHANGED vars
         \/ \E p \in Requests : Quiet(p) \/ Pays(p) \/ Debits(p) \/ Stores(p) \/ Refunds(p)
BY CreateSteps, OtherSteps DEF Next

-----------------------------------------------------------------------------
(* A wallet whose version a handler still finds is the wallet it has read. *)
SnapshotCurrent ==
  \A p \in Requests : pc[p] \in Writing =>
    LET w == wallets[RefundWallet(p)] IN
      snap[p].version <= w.version /\ (snap[p].version = w.version => snap[p] = w)

LEMMA WritersWallet ==
  ASSUME TypeOK, NEW p \in Requests, pc[p] \in Writing
  PROVE  /\ RefundWallet(p) \in Wallets
         /\ call[p].op # "create" => IdOf(p) \in DOMAIN withdrawals
         /\ pc[p] = "debitUpdate" => call[p].op = "create"
<1>1. HandlerOK(p)
  BY DEF TypeOK
<1>2. CASE pc[p] = "debitUpdate"
  <2>1. call[p] \in CreateCall
    BY <1>1, <1>2 DEF HandlerOK
  <2> QED
    BY <1>2, <2>1 DEF RefundWallet, CreateCall
<1>3. CASE pc[p] = "refundUpdate"
  BY <1>1, <1>3, RefundWalletIsWallet DEF HandlerOK
<1> QED
  BY <1>2, <1>3 DEF Writing

(* A handler about to write goes on naming the same wallet. *)
LEMMA WritersWalletStays ==
  ASSUME TypeOK, NEW p \in Requests, pc[p] \in Writing, call' = call,
         \A id \in DOMAIN withdrawals : withdrawals'[id].wallet = withdrawals[id].wallet
  PROVE  RefundWallet(p)' = RefundWallet(p)
BY WritersWallet DEF RefundWallet, IdOf

LEMMA StoredMove ==
  ASSUME NEW s \in Wallet, NEW a \in Nat, NEW t \in {"WITHDRAW", "TOP_UP"}
  PROVE  /\ Stored(Apply(t, s, a)).version = s.version + 1
         /\ Stored(Apply(t, s, a)).active = IF t = "TOP_UP" THEN s.active + a ELSE s.active - a
BY DEF Stored, Apply, Wallet, ActiveMove, CreditsActive, DebitsActive

(* One wallet is written, under a version one above the one found. *)
LEMMA SnapshotsKept ==
  ASSUME TypeOK, TypeOK', SnapshotCurrent, NEW p \in Requests, call' = call, OthersWait(p),
         \A id \in DOMAIN withdrawals : withdrawals'[id].wallet = withdrawals[id].wallet,
         \A w \in Wallets : \/ wallets'[w] = wallets[w]
                            \/ wallets'[w].version = wallets[w].version + 1,
         pc'[p] \in Writing =>
           RefundWallet(p)' \in Wallets /\ snap'[p] = wallets'[RefundWallet(p)']
  PROVE  SnapshotCurrent'
<1> SUFFICES ASSUME NEW q \in Requests, pc'[q] \in Writing
             PROVE  LET w == wallets'[RefundWallet(q)'] IN
                      /\ snap'[q].version <= w.version
                      /\ snap'[q].version = w.version => snap'[q] = w
  BY DEF SnapshotCurrent
<1>1. CASE q = p
  BY <1>1 DEF TypeOK, Wallet
<1>2. CASE q # p
  <2>1. pc[q] \in Writing /\ snap'[q] = snap[q]
    BY <1>2 DEF OthersWait
  <2>2. RefundWallet(q)' = RefundWallet(q) /\ RefundWallet(q) \in Wallets
    BY <2>1, WritersWallet, WritersWalletStays
  <2>3. PICK w \in Wallets : w = RefundWallet(q)
    BY <2>2
  <2>4. /\ snap[q].version \in Int /\ wallets[w].version \in Int
        /\ snap[q].version <= wallets[w].version
        /\ snap[q].version = wallets[w].version => snap[q] = wallets[w]
    BY <2>1, <2>3 DEF SnapshotCurrent, TypeOK, Wallet
  <2>5. \/ wallets'[w] = wallets[w]
        \/ wallets'[w].version = wallets[w].version + 1
    OBVIOUS
  <2>6. snap[q].version <= wallets'[w].version
        /\ (snap[q].version = wallets'[w].version => snap[q] = wallets'[w])
    BY <2>4, <2>5
  <2> QED
    BY <2>1, <2>2, <2>3, <2>6
<1> QED
  BY <1>1, <1>2

(* What a debit and a refund leave in the wallet. *)
LEMMA WriteEffect ==
  ASSUME TypeOK, SnapshotCurrent, NEW p \in Requests, Debits(p) \/ Refunds(p)
  PROVE  \E w \in Wallets :
           /\ w = RefundWallet(p)
           /\ wallets'[w].version = wallets[w].version + 1
           /\ Debits(p) => call[p].amount \in Nat /\ w = call[p].wallet
                           /\ wallets'[w].active = wallets[w].active - call[p].amount
           /\ Refunds(p) => RefundAmount(p) \in Nat
                            /\ wallets'[w].active = wallets[w].active + RefundAmount(p)
           /\ \A v \in Wallets \ {w} : wallets'[v] = wallets[v]
<1>1. pc[p] \in Writing
  BY DEF Debits, Refunds, Writing
<1>2. PICK w \in Wallets : w = RefundWallet(p)
  BY <1>1, WritersWallet
<1>3. CASE Debits(p)
  <2>1. call[p] \in CreateCall /\ w = call[p].wallet
    BY <1>2, <1>3, CallOfOp DEF Debits, RefundWallet
  <2>2. PICK a \in Nat : a = call[p].amount
    BY <2>1 DEF CreateCall
  <2>3. snap[p] = wallets[w] /\ snap[p] \in Wallet
    BY <1>1, <1>2, <1>3, <2>1 DEF Debits, SnapshotCurrent, VersionMatches, TypeOK
  <2>4. wallets' = [wallets EXCEPT ![w] = Stored(Apply("WITHDRAW", snap[p], a))]
    BY <1>3, <2>1, <2>2 DEF Debits
  <2>5. wallets'[w] = Stored(Apply("WITHDRAW", snap[p], a))
        /\ \A v \in Wallets \ {w} : wallets'[v] = wallets[v]
    BY <2>4 DEF TypeOK
  <2>6. /\ Stored(Apply("WITHDRAW", snap[p], a)).version = snap[p].version + 1
        /\ Stored(Apply("WITHDRAW", snap[p], a)).active = snap[p].active - a
    BY <2>3, StoredMove
  <2>7. ~Refunds(p)
    BY <1>3 DEF Debits, Refunds
  <2> QED
    BY <1>2, <2>1, <2>2, <2>3, <2>5, <2>6, <2>7
<1>4. CASE Refunds(p)
  <2>1. PICK a \in Nat : a = RefundAmount(p)
    BY <1>4, RefundWalletIsWallet DEF Refunds
  <2>3. snap[p] = wallets[w] /\ snap[p] \in Wallet
    BY <1>1, <1>2, <1>4 DEF Refunds, SnapshotCurrent, VersionMatches, TypeOK
  <2>4. wallets' = [wallets EXCEPT ![w] = Stored(Apply("TOP_UP", snap[p], a))]
    BY <1>2, <1>4, <2>1 DEF Refunds
  <2>5. wallets'[w] = Stored(Apply("TOP_UP", snap[p], a))
        /\ \A v \in Wallets \ {w} : wallets'[v] = wallets[v]
    BY <2>4 DEF TypeOK
  <2>6. /\ Stored(Apply("TOP_UP", snap[p], a)).version = snap[p].version + 1
        /\ Stored(Apply("TOP_UP", snap[p], a)).active = snap[p].active + a
    BY <2>3, StoredMove
  <2>7. ~Debits(p)
    BY <1>4 DEF Debits, Refunds
  <2> QED
    BY <1>2, <2>1, <2>3, <2>5, <2>6, <2>7
<1> QED
  BY <1>3, <1>4

LEMMA NextSnapshots == TypeOK /\ SnapshotCurrent /\ [Next]_vars => SnapshotCurrent'
<1> SUFFICES ASSUME TypeOK, SnapshotCurrent, [Next]_vars PROVE SnapshotCurrent'
  OBVIOUS
<1>1. TypeOK'
  BY NextTyped
<1>2. CASE UNCHANGED vars
  BY <1>2 DEF vars, tables, locals, SnapshotCurrent, RefundWallet, IdOf
<1>3. ASSUME NEW p \in Requests, Quiet(p) PROVE SnapshotCurrent'
  <2>1. ASSUME pc'[p] \in Writing
        PROVE  RefundWallet(p)' \in Wallets /\ snap'[p] = wallets'[RefundWallet(p)']
    <3>1. HandlerOK(p)' /\ call' = call /\ RowsStay
      BY <1>1, <1>3 DEF TypeOK, Quiet
    <3>2. CASE call[p].op = "create"
      <4>1. call[p] \in CreateCall
        BY <3>2, CallOfOp
      <4> QED
        BY <1>3, <2>1, <3>1, <3>2, <4>1 DEF RefundWallet, CreateCall, Quiet
    <3>3. CASE call[p].op # "create"
      <4>1. IdOf(p)' \in DOMAIN withdrawals' /\ IdOf(p)' = IdOf(p)
        BY <2>1, <3>1, <3>3 DEF HandlerOK, Writing, CreateCall, IdOf
      <4>2. IdOf(p) \in DOMAIN withdrawals
            /\ withdrawals'[IdOf(p)].wallet = withdrawals[IdOf(p)].wallet
        BY <3>1, <4>1 DEF RowsStay
      <4>3. withdrawals[IdOf(p)].wallet \in Wallets
        BY <4>2 DEF TypeOK, Withdrawal
      <4>4. RefundWallet(p)' = RefundWallet(p) /\ RefundWallet(p) \in Wallets
        BY <3>1, <3>3, <4>1, <4>2, <4>3 DEF RefundWallet
      <4> QED
        BY <1>3, <2>1, <4>4 DEF Quiet
    <3> QED
      BY <3>2, <3>3
  <2> QED
    BY <1>1, <1>3, <2>1, SnapshotsKept DEF Quiet, RowsStay
<1>4. ASSUME NEW p \in Requests, Pays(p) PROVE SnapshotCurrent'
  <2>1. pc'[p] \notin Writing
    BY <1>4 DEF Pays, Writing
  <2> QED
    BY <1>1, <1>4, <2>1, SnapshotsKept DEF Pays
<1>5. ASSUME NEW p \in Requests, Stores(p) PROVE SnapshotCurrent'
  <2>1. pc'[p] \notin Writing
    BY <1>5 DEF Stores, Writing
  <2>2. \A id \in DOMAIN withdrawals : withdrawals'[id] = withdrawals[id]
    BY <1>5 DEF Stores, Insert
  <2> QED
    BY <1>1, <1>5, <2>1, <2>2, SnapshotsKept DEF Stores
<1>6. ASSUME NEW p \in Requests, Debits(p) \/ Refunds(p) PROVE SnapshotCurrent'
  <2>1. pc'[p] \notin Writing /\ call' = call /\ OthersWait(p) /\ withdrawals' = withdrawals
    BY <1>6 DEF Debits, Refunds, Writing
  <2>2. \A w \in Wallets : \/ wallets'[w] = wallets[w]
                           \/ wallets'[w].version = wallets[w].version + 1
    BY <1>6, WriteEffect
  <2> QED
    BY <1>1, <2>1, <2>2, SnapshotsKept
<1> QED
  BY <1>2, <1>3, <1>4, <1>5, <1>6, StepKinds

-----------------------------------------------------------------------------
(* No money leaves without a payout: the debits made so far are covered by the payouts of
   the handlers that are past their debit, or past the chance of making one. *)
Worth == [payout \in payouts |-> payout.amount]
Spent(w) == {payout \in PayoutsOf(w) : pc[payout.reference.request] \notin Debiting}

DebitsCovered ==
  \A w \in Wallets : InitialActive - wallets[w].active <= SumFunctionOnSet(Worth, Spent(w))

DebitInv ==
  /\ IInv /\ SnapshotCurrent
  /\ IsFiniteSet(payouts) /\ \A payout \in payouts : pc[payout.reference.request] \notin Unsent
  /\ IrisKeysSet => DebitsCovered

LEMMA SpentFinite ==
  ASSUME TypeOK, IsFiniteSet(payouts), NEW w
  PROVE  /\ IsFiniteSet(Spent(w)) /\ IsFiniteSet(PayoutsOf(w)) /\ Spent(w) \subseteq PayoutsOf(w)
         /\ \A x \in payouts : Worth[x] = x.amount /\ Worth[x] \in Nat
<1>1. PayoutsOf(w) \subseteq payouts /\ Spent(w) \subseteq PayoutsOf(w)
  BY DEF PayoutsOf, Spent
<1>2. IsFiniteSet(PayoutsOf(w)) /\ IsFiniteSet(Spent(w))
  BY <1>1, FS_Subset
<1>3. \A x \in payouts : Worth[x] = x.amount /\ Worth[x] \in Nat
  BY DEF Worth, TypeOK
<1> QED
  BY <1>1, <1>2, <1>3

(* The payouts that count only become more, and the debit of the step is among them. *)
LEMMA CoverKept ==
  ASSUME TypeOK, TypeOK', IsFiniteSet(payouts), IsFiniteSet(payouts'), DebitsCovered,
         payouts \subseteq payouts', NEW w \in Wallets, Spent(w) \subseteq Spent(w)',
         \/ wallets'[w].active >= wallets[w].active
         \/ \E new \in Spent(w)' \ Spent(w) :
              wallets'[w].active >= wallets[w].active - new.amount
  PROVE  InitialActive - wallets'[w].active <= SumFunctionOnSet(Worth', Spent(w)')
<1> DEFINE S == Spent(w)
           T == Spent(w)'
<1>1. /\ IsFiniteSet(S) /\ \A x \in S : Worth[x] = x.amount /\ Worth[x] \in Nat
      /\ S \subseteq payouts
  BY SpentFinite DEF PayoutsOf, Spent
<1>2. IsFiniteSet(T) /\ \A x \in T : Worth'[x] = x.amount /\ Worth'[x] \in Nat
  <2>1. T \subseteq payouts'
    BY DEF PayoutsOf, Spent
  <2>2. \A x \in payouts' : Worth'[x] = x.amount /\ Worth'[x] \in Nat
    BY DEF Worth, TypeOK
  <2> QED
    BY <2>1, <2>2, FS_Subset
<1>3. S \subseteq T /\ InitialActive - wallets[w].active <= SumFunctionOnSet(Worth, S)
      /\ InitialActive \in Int /\ wallets[w].active \in Int /\ wallets'[w].active \in Int
  BY BoundsAssumption DEF DebitsCovered, TypeOK, Wallet
<1>4. \/ wallets'[w].active >= wallets[w].active
      \/ \E new \in T \ S : wallets'[w].active >= wallets[w].active - new.amount
  OBVIOUS
<1> DEFINE F == Worth
           G == Worth'
<1>5. IsFiniteSet(S) /\ IsFiniteSet(T) /\ S \subseteq T
      /\ \A x \in S : F[x] \in Int /\ G[x] \in Int /\ F[x] = G[x]
  BY <1>1, <1>2, <1>3
<1>6. \A x \in T : G[x] \in Nat /\ G[x] = x.amount
  BY <1>2
<1>7. InitialActive - wallets[w].active <= SumFunctionOnSet(F, S)
  BY <1>3
<1> HIDE DEF S, T, F, G
<1>8. SumFunctionOnSet(F, S) = SumFunctionOnSet(G, S) /\ SumFunctionOnSet(G, S) \in Int
  BY <1>5, SumSame, SumInt
<1>9. CASE wallets'[w].active >= wallets[w].active
  <2>1. SumFunctionOnSet(G, S) <= SumFunctionOnSet(G, T) /\ SumFunctionOnSet(G, T) \in Int
    BY <1>5, <1>6, SumSubset, SumInt
  <2>2. InitialActive - wallets'[w].active <= SumFunctionOnSet(G, T)
    BY <1>3, <1>7, <1>8, <1>9, <2>1
  <2> QED
    BY <2>2 DEF G, T
<1>10. CASE \E new \in T \ S : wallets'[w].active >= wallets[w].active - new.amount
  <2>1. PICK new \in T \ S : wallets'[w].active >= wallets[w].active - new.amount
    BY <1>10
  <2>2. PICK a \in Nat : a = new.amount /\ a = G[new]
    BY <1>6, <2>1
  <2>3. SumFunctionOnSet(G, S \cup {new}) = a + SumFunctionOnSet(G, S)
    BY <1>5, <1>6, <2>1, <2>2, SumAdd
  <2>4. S \cup {new} \in SUBSET T
    BY <1>5, <2>1
  <2>5. SumFunctionOnSet(G, S \cup {new}) <= SumFunctionOnSet(G, T)
        /\ SumFunctionOnSet(G, T) \in Int
    BY <1>5, <1>6, <2>4, SumSubset, SumInt
  <2>6. InitialActive - wallets'[w].active <= SumFunctionOnSet(G, T)
    BY <1>3, <1>7, <1>8, <2>1, <2>2, <2>3, <2>5
  <2> QED
    BY <2>6 DEF G, T
<1> QED
  BY <1>4, <1>9, <1>10

LEMMA NextDebits == DebitInv /\ [Next]_vars => DebitInv'
<1> SUFFICES ASSUME DebitInv, [Next]_vars PROVE DebitInv'
  OBVIOUS
<1>1. TypeOK /\ IInv' /\ TypeOK' /\ SnapshotCurrent' /\ SnapshotCurrent
  BY NextKeepsInvariant, NextSnapshots DEF DebitInv, IInv
<1>2. CASE UNCHANGED vars
  BY <1>1, <1>2 DEF vars, tables, locals, DebitInv, DebitsCovered, Spent, PayoutsOf, Worth
<1>3. ASSUME NEW p \in Requests, Quiet(p) \/ Stores(p) \/ Refunds(p) \/ Debits(p) \/ Pays(p)
      PROVE  DebitInv'
  <2>1. call' = call /\ OthersWait(p) /\ payouts \subseteq payouts'
    BY <1>3 DEF Quiet, Pays, Debits, Stores, Refunds
  <2>2. IsFiniteSet(payouts')
    BY <1>3, FS_AddElement DEF DebitInv, Quiet, Pays, Debits, Stores, Refunds
  <2>3. \A payout \in payouts : payout.reference.request \in Requests
    BY <1>1 DEF TypeOK, Reference
  <2>4. pc'[p] \in Debiting => pc[p] \in Debiting \/ pc[p] \in Unsent
    BY <1>3 DEF Quiet, Pays, Debits, Stores, Refunds, Debiting, Unsent
  <2>5. pc'[p] \in Unsent => pc[p] \in Unsent /\ payouts' = payouts
    BY <1>3 DEF Quiet, Pays, Debits, Stores, Refunds, Unsent
  <2>6. \A payout \in payouts' \ payouts : \E name \in Naming : payout = Order(p, name)
    BY <1>3 DEF Quiet, Pays, Debits, Stores, Refunds
  <2>7. \A payout \in payouts' : pc'[payout.reference.request] \notin Unsent
    <3>1. ASSUME NEW payout \in payouts PROVE pc'[payout.reference.request] \notin Unsent
      BY <2>1, <2>3, <2>5 DEF OthersWait, DebitInv
    <3>2. ASSUME NEW payout \in payouts' \ payouts PROVE pc'[payout.reference.request] \notin Unsent
      BY <2>5, <2>6, <3>2 DEF Order
    <3> QED
      BY <3>1, <3>2
  <2>8. \A w \in Wallets : Spent(w) \subseteq Spent(w)'
    <3>1. SUFFICES ASSUME NEW w \in Wallets, NEW payout \in Spent(w)
                   PROVE  payout \in Spent(w)'
      OBVIOUS
    <3>2. payout \in payouts /\ call[payout.reference.request].wallet = w
          /\ pc[payout.reference.request] \notin Debiting
      BY DEF Spent, PayoutsOf
    <3>3. pc'[payout.reference.request] \notin Debiting
      BY <2>1, <2>3, <2>4, <3>2 DEF OthersWait, DebitInv
    <3> QED
      BY <2>1, <3>2, <3>3 DEF Spent, PayoutsOf
  <2>9. ASSUME IrisKeysSet, NEW w \in Wallets
        PROVE  InitialActive - wallets'[w].active <= SumFunctionOnSet(Worth', Spent(w)')
    <3>1. ASSUME Debits(p), w = call[p].wallet
          PROVE  \E new \in Spent(w)' \ Spent(w) :
                   wallets'[w].active >= wallets[w].active - new.amount
      <4>1. Sent(p) \in payouts /\ payouts' = payouts
        BY <2>9, <3>1 DEF DebitInv, IInv, HandlersPaid, Debits
      <4>2. Sent(p) \in Spent(w)' \ Spent(w)
        BY <2>1, <3>1, <4>1 DEF Spent, PayoutsOf, Debits, Sent, Order, Debiting
      <4>3. PICK v \in Wallets : /\ Debits(p) => call[p].amount \in Nat /\ v = call[p].wallet
                                    /\ wallets'[v].active = wallets[v].active - call[p].amount
        BY <1>1, <3>1, WriteEffect
      <4>4. wallets'[w].active = wallets[w].active - call[p].amount
            /\ wallets[w].active \in Int /\ call[p].amount \in Int
        BY <1>1, <3>1, <4>3 DEF TypeOK, Wallet
      <4>5. wallets'[w].active >= wallets[w].active - Sent(p).amount
        BY <4>4 DEF Sent, Order
      <4> QED
        BY <4>2, <4>5
    <3>2. ASSUME ~(Debits(p) /\ w = call[p].wallet)
          PROVE  wallets'[w].active >= wallets[w].active
      <4>1. wallets[w].active \in Nat /\ wallets'[w].active \in Nat
        BY <1>1 DEF TypeOK, Wallet
      <4>2. CASE Debits(p) \/ Refunds(p)
        <5>1. PICK v \in Wallets :
                /\ Debits(p) => v = call[p].wallet
                /\ Refunds(p) => RefundAmount(p) \in Nat
                                 /\ wallets'[v].active = wallets[v].active + RefundAmount(p)
                /\ \A u \in Wallets \ {v} : wallets'[u] = wallets[u]
          BY <1>1, <4>2, WriteEffect
        <5>2. CASE v # w
          BY <4>1, <5>1, <5>2
        <5>3. CASE v = w
          <6>1. Refunds(p)
            BY <3>2, <4>2, <5>1, <5>3
          <6> QED
            BY <4>1, <5>1, <5>3, <6>1
        <5> QED
          BY <5>2, <5>3
      <4>3. CASE wallets' = wallets
        BY <4>1, <4>3
      <4> QED
        BY <1>3, <4>2, <4>3 DEF Quiet, Pays, Stores
    <3>3. DebitsCovered /\ IsFiniteSet(payouts)
      BY <2>9 DEF DebitInv
    <3> QED
      BY <1>1, <2>1, <2>2, <2>8, <3>1, <3>2, <3>3, CoverKept
  <2>10. IrisKeysSet => DebitsCovered'
    BY <2>9 DEF DebitsCovered
  <2> QED
    BY <1>1, <2>2, <2>7, <2>10 DEF DebitInv
<1> QED
  BY <1>1, <1>2, <1>3, StepKinds

LEMMA InitDebits == Init => DebitInv
<1> SUFFICES ASSUME Init PROVE DebitInv
  OBVIOUS
<1>1. IInv /\ SnapshotCurrent /\ TypeOK
  BY InitInvariant DEF Init, SnapshotCurrent, Writing, IInv
<1>2. payouts = {} /\ IsFiniteSet(payouts)
  BY FS_EmptySet DEF Init
<1>3. ASSUME NEW w \in Wallets
      PROVE  InitialActive - wallets[w].active <= SumFunctionOnSet(Worth, Spent(w))
  <2>1. wallets[w].active = InitialActive
    BY DEF Init, NewWallet
  <2>2. Spent(w) = {}
    BY <1>2 DEF Spent, PayoutsOf
  <2>3. SumFunctionOnSet(Worth, {}) = 0
    BY SumEmpty
  <2> QED
    BY <2>1, <2>2, <2>3, BoundsAssumption
<1> QED
  BY <1>1, <1>2, <1>3 DEF DebitInv, DebitsCovered

LEMMA DebitsImply == DebitInv => DebitsHavePayouts
<1> SUFFICES ASSUME DebitInv, IrisKeysSet, NEW w \in Wallets
             PROVE  InitialActive - wallets[w].active <= SumFunctionOnSet(Worth, PayoutsOf(w))
  BY DEF DebitsHavePayouts, Worth
<1> DEFINE T == Spent(w)
           S == PayoutsOf(w)
           F == Worth
<1>1. TypeOK /\ IsFiniteSet(payouts)
  BY DEF DebitInv, IInv
<1>2. IsFiniteSet(S) /\ IsFiniteSet(T) /\ T \in SUBSET S /\ \A x \in S : F[x] \in Nat
  BY <1>1, SpentFinite DEF PayoutsOf
<1>3. InitialActive - wallets[w].active <= SumFunctionOnSet(F, T)
      /\ InitialActive \in Int /\ wallets[w].active \in Int
  BY <1>1, BoundsAssumption DEF DebitInv, DebitsCovered, TypeOK, Wallet
<1> HIDE DEF S, T, F
<1>4. SumFunctionOnSet(F, T) <= SumFunctionOnSet(F, S)
      /\ SumFunctionOnSet(F, T) \in Int /\ SumFunctionOnSet(F, S) \in Int
  <2>1. \A x \in T : F[x] \in Int
    BY <1>2
  <2>2. SumFunctionOnSet(F, T) \in Int /\ SumFunctionOnSet(F, S) \in Int
    BY <1>2, <2>1, SumInt
  <2> QED
    BY <1>2, <2>2, SumSubset
<1>5. InitialActive - wallets[w].active <= SumFunctionOnSet(F, S)
  BY <1>3, <1>4
<1> QED
  BY <1>5 DEF F, S

(* No money leaves a wallet for which no payout was sent, however many requests race,
   however often IRIS is paid in vain and wherever a handler is dropped. *)
THEOREM DebitsArePaidOut == Spec => []DebitsHavePayouts
BY InitDebits, NextDebits, DebitsImply, PTL DEF Spec

-----------------------------------------------------------------------------
(* The wallet has paid for what is stored.  Beside the rows, it has paid for the debits
   whose row or refund a handler still owes; a reported row counts until its report has
   returned the money, or can no longer return it. *)
OneReport == \A p, q \in Reports : p = q

Counted(w) ==
  {id \in DOMAIN withdrawals :
     /\ withdrawals[id].wallet = w
     /\ \A p \in Reports : call[p].withdrawal = id => pc[p] \in Reporting}

Debtors(w) ==
  {p \in Requests : call[p].op = "create" /\ call[p].wallet = w /\ pc[p] \in Owing}

RowAmount == [id \in DOMAIN withdrawals |-> withdrawals[id].amount]
Due == [p \in Requests |-> call[p].amount]

Solvent ==
  \A w \in Wallets :
    wallets[w].active + SumFunctionOnSet(RowAmount, Counted(w))
      + SumFunctionOnSet(Due, Debtors(w)) <= InitialActive

StoredInv ==
  /\ TypeOK /\ SnapshotCurrent /\ IsFiniteSet(DOMAIN withdrawals)
  /\ OneReport => Solvent

LEMMA AmountsTyped ==
  ASSUME TypeOK, IsFiniteSet(DOMAIN withdrawals), NEW w
  PROVE  /\ IsFiniteSet(Counted(w)) /\ IsFiniteSet(Debtors(w))
         /\ \A id \in Counted(w) :
              /\ id \in DOMAIN withdrawals
              /\ RowAmount[id] = withdrawals[id].amount /\ RowAmount[id] \in Nat
         /\ \A p \in Debtors(w) : Due[p] = call[p].amount /\ Due[p] \in Nat
         /\ SumFunctionOnSet(RowAmount, Counted(w)) \in Nat
         /\ SumFunctionOnSet(Due, Debtors(w)) \in Nat
<1>1. IsFiniteSet(Counted(w)) /\ IsFiniteSet(Debtors(w))
  BY RequestsAssumption, FS_Subset DEF Counted, Debtors
<1>2. \A id \in Counted(w) :
        /\ id \in DOMAIN withdrawals
        /\ RowAmount[id] = withdrawals[id].amount /\ RowAmount[id] \in Nat
  BY DEF RowAmount, Counted, TypeOK, Withdrawal
<1>3. \A p \in Debtors(w) : Due[p] = call[p].amount /\ Due[p] \in Nat
  BY CallOfOp DEF Due, Debtors, CreateCall
<1>4. SumFunctionOnSet(RowAmount, Counted(w)) \in Nat
  BY <1>1, <1>2, SumNat
<1>5. SumFunctionOnSet(Due, Debtors(w)) \in Nat
  BY <1>1, <1>3, SumNat
<1> QED
  BY <1>1, <1>2, <1>3, <1>4, <1>5

(* What the rows that count are worth after a step that changes no amount. *)
LEMMA RowsWorth ==
  ASSUME TypeOK, IsFiniteSet(DOMAIN withdrawals), NEW w,
         DOMAIN withdrawals \subseteq DOMAIN withdrawals',
         \A id \in DOMAIN withdrawals : withdrawals'[id].amount = withdrawals[id].amount,
         Counted(w)' \subseteq Counted(w)
  PROVE  /\ SumFunctionOnSet(RowAmount', Counted(w)') <= SumFunctionOnSet(RowAmount, Counted(w))
         /\ \A id \in Counted(w) \ Counted(w)' :
              SumFunctionOnSet(RowAmount', Counted(w)') + withdrawals[id].amount
                <= SumFunctionOnSet(RowAmount, Counted(w))
         /\ SumFunctionOnSet(RowAmount', Counted(w)') \in Nat
<1> DEFINE S == Counted(w)
           T == Counted(w)'
           F == RowAmount
           G == RowAmount'
<1>1. IsFiniteSet(S) /\ T \in SUBSET S
      /\ \A id \in S : F[id] \in Nat /\ F[id] = withdrawals[id].amount /\ id \in DOMAIN withdrawals
  BY AmountsTyped
<1>2. \A id \in T : G[id] = F[id]
  BY <1>1 DEF RowAmount
<1> HIDE DEF S, T, F, G
<1>3. /\ SumFunctionOnSet(G, T) <= SumFunctionOnSet(F, S) /\ SumFunctionOnSet(G, T) \in Nat
      /\ \A id \in S \ T : SumFunctionOnSet(G, T) + F[id] <= SumFunctionOnSet(F, S)
  BY <1>1, <1>2, SumShrinks
<1>4. \A id \in S \ T :
        SumFunctionOnSet(G, T) + withdrawals[id].amount <= SumFunctionOnSet(F, S)
  BY <1>1, <1>3
<1> QED
  BY <1>3, <1>4 DEF S, T, F, G

(* And what is still owed. *)
LEMMA DebtsWorth ==
  ASSUME TypeOK, IsFiniteSet(DOMAIN withdrawals), call' = call, NEW w,
         Debtors(w)' \subseteq Debtors(w)
  PROVE  /\ SumFunctionOnSet(Due', Debtors(w)') <= SumFunctionOnSet(Due, Debtors(w))
         /\ \A p \in Debtors(w) \ Debtors(w)' :
              SumFunctionOnSet(Due', Debtors(w)') + call[p].amount
                <= SumFunctionOnSet(Due, Debtors(w))
         /\ SumFunctionOnSet(Due', Debtors(w)') \in Nat
<1> DEFINE S == Debtors(w)
           T == Debtors(w)'
           F == Due
<1>1. IsFiniteSet(S) /\ T \in SUBSET S
      /\ \A p \in S : F[p] \in Nat /\ F[p] = call[p].amount
  BY AmountsTyped
<1>2. Due' = F
  BY DEF Due
<1> HIDE DEF S, T, F
<1>3. /\ SumFunctionOnSet(F, T) <= SumFunctionOnSet(F, S) /\ SumFunctionOnSet(F, T) \in Nat
      /\ \A p \in S \ T : SumFunctionOnSet(F, T) + F[p] <= SumFunctionOnSet(F, S)
  BY <1>1, SumShrinks
<1>4. \A p \in S \ T :
        SumFunctionOnSet(F, T) + call[p].amount <= SumFunctionOnSet(F, S)
  BY <1>1, <1>3
<1> QED
  BY <1>2, <1>3, <1>4 DEF S, T, F

-----------------------------------------------------------------------------
(* Where a handler that does not move money stands, nothing new counts. *)
LEMMA QuietSolvent ==
  ASSUME StoredInv, TypeOK', Solvent, NEW p \in Requests, Quiet(p) \/ Pays(p) PROVE Solvent'
<1>1. TypeOK /\ IsFiniteSet(DOMAIN withdrawals)
  BY DEF StoredInv
<1>2. /\ UNCHANGED <<wallets, call>> /\ RowsStay /\ OthersWait(p)
      /\ pc'[p] \in Owing /\ call[p].op = "create" => pc[p] \in Owing
      /\ pc'[p] \in Reporting /\ call[p].op = "status" => pc[p] \in Reporting
  BY DEF Quiet, Pays, RowsStay, Owing, Reporting
<1>3. SUFFICES ASSUME NEW w \in Wallets
               PROVE  wallets'[w].active + SumFunctionOnSet(RowAmount', Counted(w)')
                        + SumFunctionOnSet(Due', Debtors(w)') <= InitialActive
  BY DEF Solvent
<1>4. Counted(w)' \subseteq Counted(w)
  <2>1. SUFFICES ASSUME NEW id \in Counted(w)', NEW q \in Reports, call[q].withdrawal = id
                 PROVE  pc[q] \in Reporting
    BY <1>2 DEF Counted, RowsStay
  <2>2. q \in Requests /\ call[q].op = "status" /\ pc'[q] \in Reporting
    BY <1>2, <2>1 DEF Counted, Reports
  <2> QED
    BY <1>2, <2>2 DEF OthersWait
<1>5. Debtors(w)' \subseteq Debtors(w)
  BY <1>2 DEF Debtors, OthersWait
<1>6. /\ SumFunctionOnSet(RowAmount', Counted(w)') <= SumFunctionOnSet(RowAmount, Counted(w))
      /\ SumFunctionOnSet(RowAmount', Counted(w)') \in Nat
  BY <1>1, <1>2, <1>4, RowsWorth DEF RowsStay
<1>7. /\ SumFunctionOnSet(Due', Debtors(w)') <= SumFunctionOnSet(Due, Debtors(w))
      /\ SumFunctionOnSet(Due', Debtors(w)') \in Nat
  BY <1>1, <1>2, <1>5, DebtsWorth
<1>8. /\ SumFunctionOnSet(RowAmount, Counted(w)) \in Nat
      /\ SumFunctionOnSet(Due, Debtors(w)) \in Nat
      /\ wallets[w].active \in Nat /\ InitialActive \in Nat
  BY <1>1, AmountsTyped, BoundsAssumption DEF TypeOK, Wallet
<1> QED
  BY <1>2, <1>6, <1>7, <1>8 DEF Solvent

(* A debit makes its handler owe the amount. *)
LEMMA DebitSolvent ==
  ASSUME StoredInv, TypeOK', Solvent, NEW p \in Requests, Debits(p) PROVE Solvent'
<1>1. TypeOK /\ IsFiniteSet(DOMAIN withdrawals) /\ SnapshotCurrent
  BY DEF StoredInv
<1>2. /\ UNCHANGED <<withdrawals, call>> /\ OthersWait(p)
      /\ pc[p] = "debitUpdate" /\ pc'[p] = "insert" /\ call[p].op = "create"
  BY DEF Debits
<1>3. PICK v \in Wallets :
        /\ call[p].amount \in Nat /\ v = call[p].wallet
        /\ wallets'[v].active = wallets[v].active - call[p].amount
        /\ \A u \in Wallets \ {v} : wallets'[u] = wallets[u]
  BY <1>1, WriteEffect
<1>4. SUFFICES ASSUME NEW w \in Wallets
               PROVE  wallets'[w].active + SumFunctionOnSet(RowAmount', Counted(w)')
                        + SumFunctionOnSet(Due', Debtors(w)') <= InitialActive
  BY DEF Solvent
<1>5. Counted(w)' = Counted(w) /\ RowAmount' = RowAmount
  <2>1. \A q \in Reports : q # p
    BY <1>2 DEF Reports
  <2>2. \A q \in Reports : pc'[q] = pc[q]
    BY <1>2, <2>1 DEF OthersWait, Reports
  <2>3. Reports' = Reports
    BY <1>2 DEF Reports
  <2> QED
    BY <1>2, <2>2, <2>3 DEF Counted, RowAmount
<1>6. /\ SumFunctionOnSet(RowAmount, Counted(w)) \in Nat
      /\ SumFunctionOnSet(Due, Debtors(w)) \in Nat
      /\ wallets[w].active \in Nat /\ InitialActive \in Nat
  BY <1>1, AmountsTyped, BoundsAssumption DEF TypeOK, Wallet
<1>7. CASE w # v
  <2>1. Debtors(w)' \subseteq Debtors(w)
    BY <1>2, <1>3, <1>7 DEF Debtors, OthersWait
  <2>2. /\ SumFunctionOnSet(Due', Debtors(w)') <= SumFunctionOnSet(Due, Debtors(w))
        /\ SumFunctionOnSet(Due', Debtors(w)') \in Nat
    BY <1>1, <1>2, <2>1, DebtsWorth
  <2>3. wallets'[w] = wallets[w]
    BY <1>3, <1>7
  <2> QED
    BY <1>5, <1>6, <2>2, <2>3 DEF Solvent
<1>8. CASE w = v
  <2> DEFINE S == Debtors(w)
             T == Debtors(w)'
             F == Due
  <2>1. p \notin S /\ T \in SUBSET (S \cup {p})
    BY <1>2 DEF Debtors, OthersWait, Owing
  <2>2. IsFiniteSet(S) /\ \A q \in S : F[q] \in Nat
    BY <1>1, AmountsTyped
  <2>3. Due' = F /\ F[p] = call[p].amount
    BY <1>2 DEF Due
  <2>4. PICK a \in Nat : a = call[p].amount
    BY <1>3
  <2> HIDE DEF S, T, F
  <2>5. SumFunctionOnSet(F, T) <= SumFunctionOnSet(F, S) + a /\ SumFunctionOnSet(F, T) \in Nat
    BY <2>1, <2>2, <2>3, <2>4, SumGrows
  <2>6. SumFunctionOnSet(Due', Debtors(w)') <= SumFunctionOnSet(Due, Debtors(w)) + a
        /\ SumFunctionOnSet(Due', Debtors(w)') \in Nat
    BY <2>3, <2>5 DEF S, T, F
  <2>7. wallets'[w].active = wallets[w].active - a
    BY <1>3, <1>8, <2>4
  <2> QED
    BY <1>5, <1>6, <2>4, <2>6, <2>7 DEF Solvent
<1> QED
  BY <1>7, <1>8

(* A row that is stored takes the place of the debt. *)
LEMMA StoreSolvent ==
  ASSUME StoredInv, TypeOK', Solvent, NEW p \in Requests, Stores(p) PROVE Solvent'
<1>1. TypeOK /\ IsFiniteSet(DOMAIN withdrawals) /\ SnapshotCurrent
  BY DEF StoredInv
<1>2. /\ UNCHANGED <<wallets, call>> /\ OthersWait(p)
      /\ pc[p] = "insert" /\ pc'[p] = "ok" /\ call[p].op = "create"
      /\ IdOf(p) \notin DOMAIN withdrawals
  BY DEF Stores
<1>3. PICK id : id = IdOf(p)
  OBVIOUS
<1>4. call[p] \in CreateCall
  BY <1>1, <1>2, CallOfOp
<1>5. PICK v \in Wallets, a \in Nat : v = call[p].wallet /\ a = call[p].amount
  BY <1>4 DEF CreateCall
<1>6. NewWithdrawal(p).wallet = v /\ NewWithdrawal(p).amount = a
  BY <1>5 DEF NewWithdrawal
<1>7. /\ DOMAIN withdrawals' = DOMAIN withdrawals \cup {id} /\ id \notin DOMAIN withdrawals
      /\ withdrawals'[id] = NewWithdrawal(p)
      /\ \A i \in DOMAIN withdrawals : withdrawals'[i] = withdrawals[i]
  BY <1>2, <1>3 DEF Stores, Insert
<1>8. SUFFICES ASSUME NEW w \in Wallets
               PROVE  wallets'[w].active + SumFunctionOnSet(RowAmount', Counted(w)')
                        + SumFunctionOnSet(Due', Debtors(w)') <= InitialActive
  BY DEF Solvent
<1>9. Counted(w)' \ {id} \subseteq Counted(w) /\ id \notin Counted(w)
  <2>1. Reports' = Reports /\ p \notin Reports /\ Reports \subseteq Requests
    BY <1>2 DEF Reports
  <2>2. \A q \in Reports : pc'[q] = pc[q]
    BY <1>2, <2>1 DEF OthersWait
  <2> QED
    BY <1>2, <1>7, <2>1, <2>2 DEF Counted
<1>10. /\ SumFunctionOnSet(RowAmount, Counted(w)) \in Nat
       /\ SumFunctionOnSet(Due, Debtors(w)) \in Nat
       /\ wallets[w].active \in Nat /\ InitialActive \in Nat
  BY <1>1, AmountsTyped, BoundsAssumption DEF TypeOK, Wallet
<1>11. Debtors(w)' \subseteq Debtors(w) /\ p \notin Debtors(w)'
       /\ (w = v => p \in Debtors(w))
  BY <1>2, <1>5 DEF Debtors, OthersWait, Owing
<1>12. /\ SumFunctionOnSet(Due', Debtors(w)') <= SumFunctionOnSet(Due, Debtors(w))
       /\ SumFunctionOnSet(Due', Debtors(w)') \in Nat
       /\ w = v => SumFunctionOnSet(Due', Debtors(w)') + a <= SumFunctionOnSet(Due, Debtors(w))
  <2>1. /\ SumFunctionOnSet(Due', Debtors(w)') <= SumFunctionOnSet(Due, Debtors(w))
        /\ SumFunctionOnSet(Due', Debtors(w)') \in Nat
        /\ \A q \in Debtors(w) \ Debtors(w)' :
             SumFunctionOnSet(Due', Debtors(w)') + call[q].amount
               <= SumFunctionOnSet(Due, Debtors(w))
    BY <1>1, <1>2, <1>11, DebtsWorth
  <2> QED
    BY <1>5, <1>11, <2>1
<1>13. CASE w # v
  <2>1. Counted(w)' \subseteq Counted(w)
    BY <1>6, <1>7, <1>9, <1>13 DEF Counted
  <2>2. /\ SumFunctionOnSet(RowAmount', Counted(w)') <= SumFunctionOnSet(RowAmount, Counted(w))
        /\ SumFunctionOnSet(RowAmount', Counted(w)') \in Nat
    BY <1>1, <1>7, <2>1, RowsWorth
  <2> QED
    BY <1>2, <1>10, <1>12, <2>2 DEF Solvent
<1>14. CASE w = v
  <2> DEFINE S == Counted(w)
             T == Counted(w)'
             F == RowAmount
             G == RowAmount'
  <2>1. IsFiniteSet(S) /\ id \notin S /\ T \in SUBSET (S \cup {id})
        /\ \A i \in S : F[i] \in Nat /\ F[i] = withdrawals[i].amount /\ i \in DOMAIN withdrawals
    BY <1>1, <1>9, AmountsTyped
  <2>2. G[id] = a
    BY <1>6, <1>7 DEF RowAmount
  <2>3. \A i \in S : G[i] = F[i]
    BY <1>7, <2>1 DEF RowAmount
  <2> HIDE DEF S, T, F, G
  <2>4. SumFunctionOnSet(G, T) <= SumFunctionOnSet(F, S) + a /\ SumFunctionOnSet(G, T) \in Nat
    BY <2>1, <2>2, <2>3, SumGrows
  <2>5. /\ SumFunctionOnSet(RowAmount', Counted(w)') <= SumFunctionOnSet(RowAmount, Counted(w)) + a
        /\ SumFunctionOnSet(RowAmount', Counted(w)') \in Nat
    BY <2>4 DEF S, T, F, G
  <2> QED
    BY <1>2, <1>10, <1>12, <1>14, <2>5 DEF Solvent
<1> QED
  BY <1>13, <1>14

(* What comes back to the wallet is no longer owed, or no longer counts: the only report
   is the one that returns it. *)
LEMMA RefundSolvent ==
  ASSUME StoredInv, TypeOK', OneReport, Solvent, NEW p \in Requests, Refunds(p) PROVE Solvent'
<1>1. TypeOK /\ IsFiniteSet(DOMAIN withdrawals) /\ SnapshotCurrent
  BY DEF StoredInv
<1>2. /\ UNCHANGED <<withdrawals, call>> /\ OthersWait(p)
      /\ pc[p] = "refundUpdate" /\ pc'[p] \in {"ok", "record"} /\ RefundAmount(p) \in Nat
  BY <1>1, RefundWalletIsWallet DEF Refunds
<1>3. PICK v \in Wallets :
        /\ v = RefundWallet(p)
        /\ wallets'[v].active = wallets[v].active + RefundAmount(p)
        /\ \A u \in Wallets \ {v} : wallets'[u] = wallets[u]
  BY <1>1, WriteEffect
<1>4. SUFFICES ASSUME NEW w \in Wallets
               PROVE  wallets'[w].active + SumFunctionOnSet(RowAmount', Counted(w)')
                        + SumFunctionOnSet(Due', Debtors(w)') <= InitialActive
  BY DEF Solvent
<1>5. Counted(w)' \subseteq Counted(w) /\ Debtors(w)' \subseteq Debtors(w) /\ p \notin Debtors(w)'
  <2>1. Reports' = Reports /\ Reports \subseteq Requests
    BY <1>2 DEF Reports
  <2>2. \A q \in Requests : pc'[q] \in Reporting => pc[q] \in Reporting
    BY <1>2 DEF OthersWait, Reporting
  <2>3. Counted(w)' \subseteq Counted(w)
    BY <1>2, <2>1, <2>2 DEF Counted
  <2> QED
    BY <1>2, <2>3 DEF Debtors, OthersWait, Owing
<1>6. /\ SumFunctionOnSet(RowAmount, Counted(w)) \in Nat
      /\ SumFunctionOnSet(Due, Debtors(w)) \in Nat
      /\ wallets[w].active \in Nat /\ InitialActive \in Nat
  BY <1>1, AmountsTyped, BoundsAssumption DEF TypeOK, Wallet
<1>7. /\ SumFunctionOnSet(RowAmount', Counted(w)') <= SumFunctionOnSet(RowAmount, Counted(w))
      /\ \A id \in Counted(w) \ Counted(w)' :
           SumFunctionOnSet(RowAmount', Counted(w)') + withdrawals[id].amount
             <= SumFunctionOnSet(RowAmount, Counted(w))
      /\ SumFunctionOnSet(RowAmount', Counted(w)') \in Nat
  BY <1>1, <1>2, <1>5, RowsWorth
<1>8. /\ SumFunctionOnSet(Due', Debtors(w)') <= SumFunctionOnSet(Due, Debtors(w))
      /\ \A q \in Debtors(w) \ Debtors(w)' :
           SumFunctionOnSet(Due', Debtors(w)') + call[q].amount
             <= SumFunctionOnSet(Due, Debtors(w))
      /\ SumFunctionOnSet(Due', Debtors(w)') \in Nat
  BY <1>1, <1>2, <1>5, DebtsWorth
<1>9. CASE w # v
  <2>1. wallets'[w] = wallets[w]
    BY <1>3, <1>9
  <2> QED
    BY <1>6, <1>7, <1>8, <2>1 DEF Solvent
<1>10. CASE w = v /\ call[p].op = "create"
  <2>1. PICK a \in Nat : a = RefundAmount(p)
    BY <1>2
  <2>2. p \in Debtors(w) /\ a = call[p].amount
    BY <1>2, <1>3, <1>10, <2>1 DEF Debtors, Owing, RefundWallet, RefundAmount
  <2>3. SumFunctionOnSet(Due', Debtors(w)') + a <= SumFunctionOnSet(Due, Debtors(w))
    BY <1>5, <1>8, <2>2
  <2>4. wallets'[w].active = wallets[w].active + a
    BY <1>3, <1>10, <2>1
  <2> QED
    BY <1>6, <1>7, <1>8, <2>1, <2>3, <2>4 DEF Solvent
<1>11. CASE w = v /\ call[p].op # "create"
  <2>1. PICK a \in Nat : a = RefundAmount(p)
    BY <1>2
  <2>2. PICK id : id = IdOf(p)
    OBVIOUS
  <2>3. p \in Reports /\ id = call[p].withdrawal
    <3>1. call[p] \in StatusCall
      BY <1>1, <1>2, <1>11, RefundWalletIsWallet
    <3> QED
      BY <1>1, <2>2, <3>1, CallOfOp DEF Reports, IdOf
  <2>4. id \in DOMAIN withdrawals /\ withdrawals[id].wallet = w /\ withdrawals[id].amount = a
    <3>1. id \in DOMAIN withdrawals
      BY <1>1, <1>2, <2>2 DEF TypeOK, HandlerOK
    <3> QED
      BY <1>3, <1>11, <2>1, <2>2, <3>1 DEF RefundWallet, RefundAmount
  <2>5. id \in Counted(w)
    BY <1>2, <2>3, <2>4 DEF Counted, OneReport, Reporting
  <2>6. id \notin Counted(w)'
    BY <1>2, <2>3 DEF Counted, Reports, Reporting
  <2>7. SumFunctionOnSet(RowAmount', Counted(w)') + a <= SumFunctionOnSet(RowAmount, Counted(w))
    BY <1>7, <2>4, <2>5, <2>6
  <2>8. wallets'[w].active = wallets[w].active + a
    BY <1>3, <1>11, <2>1
  <2> QED
    BY <1>6, <1>7, <1>8, <2>1, <2>7, <2>8 DEF Solvent
<1> QED
  BY <1>9, <1>10, <1>11

-----------------------------------------------------------------------------
LEMMA NextStored == StoredInv /\ [Next]_vars => StoredInv'
<1> SUFFICES ASSUME StoredInv, [Next]_vars PROVE StoredInv'
  OBVIOUS
<1>1. TypeOK' /\ SnapshotCurrent' /\ TypeOK
  BY NextTyped, NextSnapshots DEF StoredInv
<1>2. CASE UNCHANGED vars
  BY <1>1, <1>2 DEF vars, tables, locals, StoredInv, OneReport, Reports, Solvent, Counted,
     Debtors, RowAmount, Due
<1>3. ASSUME NEW p \in Requests, Quiet(p) \/ Stores(p) \/ Refunds(p) \/ Debits(p) \/ Pays(p)
      PROVE  StoredInv'
  <2>1. call' = call
    BY <1>3 DEF Quiet, Pays, Debits, Stores, Refunds
  <2>2. \/ DOMAIN withdrawals' = DOMAIN withdrawals
        \/ DOMAIN withdrawals' = DOMAIN withdrawals \cup {IdOf(p)}
    BY <1>3 DEF Quiet, RowsStay, Pays, Debits, Stores, Refunds, Insert
  <2>3. IsFiniteSet(DOMAIN withdrawals')
    BY <2>2, FS_AddElement DEF StoredInv
  <2>4. ASSUME OneReport' PROVE Solvent'
    <3>1. OneReport /\ Solvent
      BY <2>1, <2>4 DEF OneReport, Reports, StoredInv
    <3> QED
      BY <1>1, <1>3, <3>1, QuietSolvent, DebitSolvent, StoreSolvent, RefundSolvent
  <2> QED
    BY <1>1, <2>3, <2>4 DEF StoredInv
<1> QED
  BY <1>1, <1>2, <1>3, StepKinds

LEMMA InitStored == Init => StoredInv
<1> SUFFICES ASSUME Init PROVE StoredInv
  OBVIOUS
<1>1. TypeOK /\ SnapshotCurrent
  BY InitTyped DEF Init, SnapshotCurrent, Writing
<1>2. DOMAIN withdrawals = {} /\ IsFiniteSet(DOMAIN withdrawals)
  BY FS_EmptySet DEF Init
<1>3. ASSUME NEW w \in Wallets
      PROVE  wallets[w].active + SumFunctionOnSet(RowAmount, Counted(w))
               + SumFunctionOnSet(Due, Debtors(w)) <= InitialActive
  <2>1. wallets[w].active = InitialActive
    BY DEF Init, NewWallet
  <2>2. Counted(w) = {} /\ Debtors(w) = {}
    BY <1>2 DEF Init, Counted, Debtors, Owing
  <2>3. SumFunctionOnSet(RowAmount, {}) = 0 /\ SumFunctionOnSet(Due, {}) = 0
    BY SumEmpty
  <2> QED
    BY <2>1, <2>2, <2>3, BoundsAssumption
<1> QED
  BY <1>1, <1>2, <1>3 DEF StoredInv, Solvent

LEMMA StoredImplies == StoredInv => StoredAreDebited
<1> SUFFICES ASSUME StoredInv, Cardinality(Reports) <= 1, NEW w \in Wallets
             PROVE  wallets[w].active + SumFunctionOnSet(RowAmount, Unreported(w)) <= InitialActive
  BY DEF StoredAreDebited, Amount, RowAmount
<1>1. IsFiniteSet(Reports) /\ TypeOK /\ IsFiniteSet(DOMAIN withdrawals)
  BY RequestsAssumption, FS_Subset DEF Reports, StoredInv
<1>2. OneReport
  <2>1. SUFFICES ASSUME NEW p \in Reports, NEW q \in Reports, p # q PROVE FALSE
    BY DEF OneReport
  <2>2. IsFiniteSet({p}) /\ Cardinality({p}) = 1
    BY FS_Singleton
  <2>3. Cardinality({p} \cup {q}) = 2
    <3> DEFINE P == {p}
    <3>1. q \notin P /\ IsFiniteSet(P) /\ Cardinality(P) = 1
      BY <2>1, <2>2
    <3> HIDE DEF P
    <3>2. Cardinality(P \cup {q}) = Cardinality(P) + 1
      BY <3>1, FS_AddElement, Zenon
    <3> QED
      BY <3>1, <3>2 DEF P
  <2>4. {p} \cup {q} \in SUBSET Reports
    BY <2>1
  <2>5. Cardinality({p} \cup {q}) <= Cardinality(Reports) /\ Cardinality(Reports) \in Nat
    BY <1>1, <2>4, FS_Subset, FS_CardinalityType
  <2> QED
    BY <2>3, <2>5
<1> DEFINE T == Unreported(w)
           S == Counted(w)
           F == RowAmount
<1>3. IsFiniteSet(S) /\ T \in SUBSET S /\ \A id \in S : F[id] \in Nat
  BY <1>1, AmountsTyped DEF Unreported, Counted
<1>4. /\ wallets[w].active + SumFunctionOnSet(F, S)
           + SumFunctionOnSet(Due, Debtors(w)) <= InitialActive
      /\ SumFunctionOnSet(F, S) \in Nat /\ SumFunctionOnSet(Due, Debtors(w)) \in Nat
      /\ wallets[w].active \in Nat /\ InitialActive \in Nat
  BY <1>1, <1>2, AmountsTyped, BoundsAssumption DEF StoredInv, Solvent, TypeOK, Wallet
<1> HIDE DEF S, T, F
<1>5. SumFunctionOnSet(F, T) <= SumFunctionOnSet(F, S) /\ SumFunctionOnSet(F, T) \in Nat
  BY <1>3, SumShrinks
<1>6. wallets[w].active + SumFunctionOnSet(F, T) <= InitialActive
  BY <1>4, <1>5
<1> QED
  BY <1>6 DEF F, T

(* Every stored withdrawal but the one reported on has been paid for by its wallet,
   whatever is lost, raced for or dropped on the way. *)
THEOREM StoredArePaidFor == Spec => []StoredAreDebited
BY InitStored, NextStored, StoredImplies, PTL DEF Spec
=============================================================================
