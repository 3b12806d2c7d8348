---------------------------- MODULE SellerEscrow ----------------------------
(***************************************************************************)
(* A seller's money: credit_seller_escrow puts the proceeds of an auction  *)
(* on the held balance, release_seller_payout and settle_seller_escrow     *)
(* move them to the active one, withdraw takes them out.                   *)
(*                                                                         *)
(* One action per database statement.  The write phase of the credit, from *)
(* its versioned UPDATE to COMMIT, is one step; the settlement goes        *)
(* through mutate_wallet_with_metadata, whose two writes are two           *)
(* transactions.                                                           *)
(***************************************************************************)
EXTENDS WalletDomain, FiniteSets, Functions

CONSTANTS
  Requests, Sellers,
  Correlations,    \* what the auction service calls a sale
  Orders,          \* what the order service calls one
  None,            \* no correlation or order id, or a blank one
  Calls,
  MaxCrashes       \* bound on dropped handlers

CreditCall   == [op : {"credit"}, seller : Sellers, ref : Correlations \cup {None}, amount : Nat]
SettleCall   == [op : {"payout"}, seller : Sellers, ref : Orders \cup {None}, amount : Nat]
WithdrawCall == [op : {"withdraw"}, seller : Sellers, amount : Nat]

ASSUME CallsAssumption == Calls \subseteq CreditCall \cup SettleCall \cup WithdrawCall
ASSUME NoneAssumption == None \notin Correlations \cup Orders
ASSUME RequestsAssumption ==
  IsFiniteSet(Requests) /\ Requests \cap (Correlations \cup Orders) = {}
ASSUME BoundsAssumption == MaxCrashes \in Nat

VARIABLES
  wallets,   \* table wallets, the rows with role SELLER, by seller
  receipts,  \* table wallet_transactions, the SELLER_ESCROW and _SETTLE rows
  pc, call,
  snap,      \* the wallet row the handler has read
  crashes

vars == <<wallets, receipts, pc, call, snap, crashes>>

-----------------------------------------------------------------------------
(* A row that names no sale or order is told apart by the request that wrote it. *)
Receipt == [type : {"SELLER_ESCROW", "SELLER_ESCROW_SETTLE"},
            ref : Correlations \cup Orders \cup Requests, seller : Sellers, amount : Nat \ {0}]

Type(p) == IF call[p].op = "credit" THEN "SELLER_ESCROW"
           ELSE IF call[p].op = "payout" THEN "SELLER_ESCROW_SETTLE" ELSE "WITHDRAW"

ReceiptOf(p) == [type |-> Type(p), seller |-> call[p].seller, amount |-> call[p].amount,
                 ref |-> IF call[p].ref = None THEN p ELSE call[p].ref]

(* A row with this request's source, correlation and type, whoever the seller: what
   the searches look for and what the unique index refuses a second time. *)
Recorded(p) ==
  \E r \in receipts : r.type = Type(p) /\ r.ref = call[p].ref

Outcomes == {"ok", "error", "conflict", "aborted"}

GoTo(p, label) == pc' = [pc EXCEPT ![p] = label]
Proceed(p, label) == GoTo(p, label) /\ UNCHANGED <<wallets, receipts, call, snap, crashes>>
Quit(p, outcome) == Proceed(p, outcome)

HasWallet(p) == call[p].seller \in DOMAIN wallets
VersionMatches(p) == wallets[call[p].seller].version = snap[p].version

StoreWallet(p) ==
  wallets' = [wallets EXCEPT ![call[p].seller] = Stored(Apply(Type(p), snap[p], call[p].amount))]

-----------------------------------------------------------------------------
(* credit_seller_escrow *)
CreditStart(p) ==
  /\ pc[p] = "new" /\ call[p].op = "credit"
  /\ Proceed(p, IF HasWallet(p) THEN "creditSearch" ELSE "createWallet")

(* wallets is unique by user and role. *)
CreateWallet(p) ==
  /\ pc[p] = "createWallet"
  /\ \/ HasWallet(p) /\ Quit(p, "error")
     \/ /\ ~HasWallet(p)
        /\ wallets' = [s \in DOMAIN wallets \cup {call[p].seller} |->
                         IF s = call[p].seller THEN NewWallet ELSE wallets[s]]
        /\ GoTo(p, "creditSearch")
        /\ UNCHANGED <<receipts, call, snap, crashes>>

CreditSearch(p) ==
  pc[p] = "creditSearch" /\ Proceed(p, IF Recorded(p) THEN "ok" ELSE "creditRead")

(* BEGIN and the wallet; then the search again, and the domain's check. *)
CreditRead(p) ==
  /\ pc[p] = "creditRead"
  /\ snap' = [snap EXCEPT ![p] = wallets[call[p].seller]]
  /\ GoTo(p, "creditCheck")
  /\ UNCHANGED <<wallets, receipts, call, crashes>>

CreditCheck(p) ==
  /\ pc[p] = "creditCheck"
  /\ \/ Recorded(p) /\ Quit(p, "ok")
     \/ /\ ~Recorded(p)
        /\ Proceed(p, IF Allowed(Type(p), snap[p], call[p].amount) THEN "creditWrite" ELSE "error")

(* Mutant: the unique violation is swallowed and the wallet committed. *)
CreditWriteAnyway(p) ==
  /\ pc[p] = "creditWrite" /\ VersionMatches(p)
  /\ StoreWallet(p)
  /\ receipts' = IF Recorded(p) THEN receipts ELSE receipts \cup {ReceiptOf(p)}
  /\ GoTo(p, "ok")
  /\ UNCHANGED <<call, snap, crashes>>

(* The versioned UPDATE, the receipt and COMMIT.  A row for the same sale that came
   in since rolls the transaction back, and the call succeeds as if it were its own. *)
CreditWrite(p) ==
  /\ pc[p] = "creditWrite"
  /\ \/ ~VersionMatches(p) /\ Quit(p, "conflict")
     \/ VersionMatches(p) /\ Recorded(p) /\ Quit(p, "ok")
     \/ /\ VersionMatches(p) /\ ~Recorded(p)
        /\ StoreWallet(p)
        /\ receipts' = receipts \cup {ReceiptOf(p)}
        /\ GoTo(p, "ok")
        /\ UNCHANGED <<call, snap, crashes>>

-----------------------------------------------------------------------------
(* release_seller_payout (settle_seller_escrow is the same without an order), and
   withdraw, by mutate_wallet. *)
PayoutStart(p) ==
  /\ pc[p] = "new" /\ call[p].op = "payout"
  /\ Proceed(p, IF HasWallet(p) THEN "payoutSearch" ELSE "error")

PayoutSearch(p) ==
  pc[p] = "payoutSearch" /\ Proceed(p, IF Recorded(p) THEN "ok" ELSE "read")

MutateRead(p) ==
  /\ pc[p] = "read" \/ (pc[p] = "new" /\ call[p].op = "withdraw")
  /\ \/ ~HasWallet(p) /\ Quit(p, "error")
     \/ HasWallet(p) /\ ~Allowed(Type(p), wallets[call[p].seller], call[p].amount)
          /\ Quit(p, "error")
     \/ /\ HasWallet(p) /\ Allowed(Type(p), wallets[call[p].seller], call[p].amount)
        /\ snap' = [snap EXCEPT ![p] = wallets[call[p].seller]]
        /\ GoTo(p, IF call[p].op = "payout" THEN "ledger" ELSE "update")
        /\ UNCHANGED <<wallets, receipts, call, crashes>>

(* Mutant: a second row for the order does no harm. *)
MutateLedgerAnyway(p) ==
  /\ pc[p] = "ledger"
  /\ receipts' = IF Recorded(p) THEN receipts ELSE receipts \cup {ReceiptOf(p)}
  /\ GoTo(p, "update")
  /\ UNCHANGED <<wallets, call, snap, crashes>>

(* tx_repo.insert; withdraw's row names nothing and is left out. *)
MutateLedger(p) ==
  /\ pc[p] = "ledger"
  /\ \/ Recorded(p) /\ Quit(p, "error")
     \/ /\ ~Recorded(p)
        /\ receipts' = receipts \cup {ReceiptOf(p)}
        /\ GoTo(p, "update")
        /\ UNCHANGED <<wallets, call, snap, crashes>>

(* Mutant: the UPDATE does not look at the version. *)
MutateUpdateBlind(p) ==
  /\ pc[p] = "update"
  /\ StoreWallet(p)
  /\ GoTo(p, "ok")
  /\ UNCHANGED <<receipts, call, snap, crashes>>

MutateUpdate(p) ==
  /\ pc[p] = "update"
  /\ \/ ~VersionMatches(p) /\ Quit(p, "conflict")
     \/ /\ VersionMatches(p)
        /\ StoreWallet(p)
        /\ GoTo(p, "ok")
        /\ UNCHANGED <<receipts, call, snap, crashes>>

(* A handler is dropped between two statements; what it has committed stays. *)
Abort(p) ==
  /\ crashes < MaxCrashes
  /\ pc[p] \notin {"new"} \cup Outcomes
  /\ crashes' = crashes + 1
  /\ GoTo(p, "aborted")
  /\ UNCHANGED <<wallets, receipts, call, snap>>

-----------------------------------------------------------------------------
Init ==
  /\ wallets = [s \in {} |-> NewWallet]
  /\ receipts = {}
  /\ pc = [p \in Requests |-> "new"]
  /\ call \in [Requests -> Calls]
  /\ snap = [p \in Requests |-> NewWallet]
  /\ crashes = 0

Next ==
  \E p \in Requests :
    \/ CreditStart(p) \/ CreateWallet(p) \/ CreditSearch(p)
    \/ CreditRead(p) \/ CreditCheck(p) \/ CreditWrite(p)
    \/ PayoutStart(p) \/ PayoutSearch(p)
    \/ MutateRead(p) \/ MutateLedger(p) \/ MutateUpdate(p)
    \/ Abort(p)

Spec == Init /\ [][Next]_vars

-----------------------------------------------------------------------------
TypeOK ==
  /\ DOMAIN wallets \subseteq Sellers
  /\ wallets \in [DOMAIN wallets -> Wallet]
  /\ receipts \subseteq Receipt
  /\ pc \in [Requests -> {"new", "createWallet", "creditSearch", "creditRead", "creditCheck",
                          "creditWrite", "payoutSearch", "read", "ledger", "update"}
                         \cup Outcomes]
  /\ call \in [Requests -> Calls]
  /\ snap \in [Requests -> Wallet]
  /\ \A p \in Requests :
       /\ pc[p] \in {"creditSearch", "creditRead", "creditCheck", "creditWrite",
                     "payoutSearch", "ledger", "update"} => HasWallet(p)
       /\ pc[p] \in {"creditWrite", "ledger", "update"} =>
            Allowed(Type(p), snap[p], call[p].amount)
  /\ crashes \in 0 .. MaxCrashes

-----------------------------------------------------------------------------
Sum(rows) == SumFunctionOnSet([r \in rows |-> r.amount], rows)
RowsOf(s, type) == {r \in receipts : r.seller = s /\ r.type = type}

Withdrawn(s) == SumFunctionOnSet(
  [p \in Requests |-> call[p].amount],
  {p \in Requests : call[p].op = "withdraw" /\ call[p].seller = s /\ pc[p] = "ok"})

(* A sale is credited exactly once, whoever repeats the call and however the
   repetitions overlap: what a seller has and has taken out is what the SELLER_ESCROW
   rows, one per sale, add up to. *)
SalesCreditedOnce ==
  \A s \in DOMAIN wallets :
    wallets[s].active + wallets[s].held + Withdrawn(s) = Sum(RowsOf(s, "SELLER_ESCROW"))

(* Proceeds are not withdrawable until settled, and an order settles once: what has
   ever been active is at most what the settlement rows, one per order, add up to
   ("not withdrawable until settled"). *)
ActiveOnlyIfSettled ==
  \A s \in DOMAIN wallets :
    wallets[s].active + Withdrawn(s) <= Sum(RowsOf(s, "SELLER_ESCROW_SETTLE"))

(* When a payout has been answered with success and no handler is between its two
   writes, the order's proceeds have moved from held to active. *)
PaidOrders(s) ==
  {r \in RowsOf(s, "SELLER_ESCROW_SETTLE") :
     \E p \in Requests : call[p].op = "payout" /\ pc[p] = "ok" /\ call[p].ref = r.ref}

SuccessfulPayoutsSettled ==
  (\A p \in Requests : pc[p] # "update") =>
    \A s \in DOMAIN wallets : Sum(PaidOrders(s)) <= wallets[s].active + Withdrawn(s)
-----------------------------------------------------------------------------
(* What SaleContract sees of the tables and of the handlers. *)
Active(s) == IF s \in DOMAIN wallets THEN wallets[s].active ELSE 0
Held(s)   == IF s \in DOMAIN wallets THEN wallets[s].held ELSE 0

ActiveColumn == [s \in Sellers |-> Active(s)]
HeldColumn   == [s \in Sellers |-> Held(s)]

EntryOf(r)    == [id |-> r.ref, seller |-> r.seller, amount |-> r.amount]
Entries(type) == {EntryOf(r) : r \in {x \in receipts : x.type = type}}

(* A handler of a payout between its two writes. *)
Settling(p) == pc[p] = "update" /\ call[p].op = "payout"
Owed        == {EntryOf(ReceiptOf(p)) : p \in {q \in Requests : Settling(q)}}

Contract == INSTANCE SaleContract WITH
  Ids         <- Correlations \cup Orders \cup Requests,
  Amounts     <- {c.amount : c \in Calls},
  active      <- ActiveColumn,
  held        <- HeldColumn,
  sales       <- Entries("SELLER_ESCROW"),
  settlements <- Entries("SELLER_ESCROW_SETTLE"),
  owed        <- Owed

(* The handlers, statement by statement and interleaved in any order, do to the balances
   and the records of sales and orders what SaleContract does in single steps. *)
ImplementsContract == Contract!Spec
=============================================================================
