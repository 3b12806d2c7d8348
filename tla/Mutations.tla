----------------------------- MODULE Mutations -----------------------------
(***************************************************************************)
(* The balance mutations by amount of src/src/service/wallet_service.rs:   *)
(* top_up, withdraw, hold, release, convert and bid, all of them           *)
(* mutate_wallet, and cancel_bid, which releases what an earlier receipt   *)
(* says.  Amounts have the widths of module Money.                         *)
(*                                                                         *)
(* mutate_wallet is three statements, each its own transaction: read the   *)
(* wallet, insert the receipt, update the wallet where its version is      *)
(* still the one read.  Other requests run between them.                   *)
(***************************************************************************)
EXTENDS Money, WalletDomain, FiniteSets, Functions

CONSTANTS
  Requests,       \* calls in flight or still to come, each served once
  Owners,         \* pairs of user and role a call may name
  Wallets,        \* the owners that have a wallet
  Calls,          \* the calls clients make
  InitialActive,  \* what every wallet held beforehand
  InitialHeld,
  MaxAborts       \* bound on dropped handlers

MutateTypes == {"TOP_UP", "WITHDRAW", "HOLD", "RELEASE", "CONVERT", "BID"}
MutateCall  == [op : MutateTypes, owner : Owners, amount : Amount]
CancelCall  == [op : {"CANCEL"}, owner : Owners, of : Requests]

ASSUME RequestAssumption == IsFiniteSet(Requests) /\ Wallets \subseteq Owners
ASSUME CallsAssumption == Calls \subseteq MutateCall \cup CancelCall
ASSUME BoundsAssumption ==
  /\ InitialActive \in 0 .. ColumnMax
  /\ InitialHeld \in 0 .. ColumnMax
  /\ MaxAborts \in Nat

VARIABLES
  wallets,   \* table wallets
  receipts,  \* table wallet_transactions, by the request that inserted the row
  pc,        \* where each request is: its next statement, or how it ended
  call,      \* the arguments of its call
  snap,      \* the wallet its handler has read
  aborts

vars == <<wallets, receipts, pc, call, snap, aborts>>

-----------------------------------------------------------------------------
Outcomes == {"ok", "refused", "conflict", "panicked", "aborted"}

(* A row of wallets as far as the program and the table let it get. *)
WalletRow == [active : 0 .. ColumnMax, held : 0 .. ColumnMax, version : Nat]
Receipt   == [owner : Wallets, type : MutateTypes, amount : 0 .. ColumnMax]

Type(p) == IF call[p].op = "CANCEL" THEN "RELEASE" ELSE call[p].op

(* What p asks to move: the caller's amount, or the one of the receipt it cancels. *)
AmountOf(p) == IF call[p].op = "CANCEL" THEN AsU64(receipts[call[p].of].amount)
               ELSE call[p].amount

(* wallet_from_row *)
Loaded(row) == [row EXCEPT !.active = AsU64(@), !.held = AsU64(@)]

(* The wallet after its domain operation.  A debit is a checked_sub. *)
Moved(t, w, a) ==
  [w EXCEPT !.active = IF t \in CreditsActive THEN Sum(@, a) ELSE @ + ActiveMove(t, a),
            !.held   = IF t \in CreditsHeld THEN Sum(@, a) ELSE @ + HeldMove(t, a)]

Overflows(t, w, a) == \/ t \in CreditsActive /\ w.active + a >= U64
                      \/ t \in CreditsHeld /\ w.held + a >= U64

(* The row the UPDATE would leave. *)
Bound(w) == [w EXCEPT !.active = AsI64(@), !.held = AsI64(@)]

Quit(p, outcome) ==
  /\ pc' = [pc EXCEPT ![p] = outcome]
  /\ UNCHANGED <<wallets, receipts, call, snap, aborts>>

(* Mutant: anybody may cancel any transaction. *)
CancelFindAnyones(p) ==
  /\ pc[p] = "new" /\ call[p].op = "CANCEL"
  /\ IF call[p].of \in DOMAIN receipts THEN Quit(p, "found") ELSE Quit(p, "refused")

(* cancel_bid: the transaction exists and is the caller's.  Neither its type is
   looked at, nor whether it was cancelled before. *)
CancelFind(p) ==
  /\ pc[p] = "new" /\ call[p].op = "CANCEL"
  /\ \/ /\ call[p].of \in DOMAIN receipts
        /\ receipts[call[p].of].owner = call[p].owner
        /\ Quit(p, "found")
     \/ /\ ~(call[p].of \in DOMAIN receipts /\ receipts[call[p].of].owner = call[p].owner)
        /\ Quit(p, "refused")

(* The validation chain, find_by_user_id_and_role and the domain operation, which
   panics on overflow in a build that checks for it. *)
Read(p) ==
  /\ pc[p] = IF call[p].op = "CANCEL" THEN "found" ELSE "new"
  /\ LET o == call[p].owner
         w == Loaded(wallets[o])
         allowed == o \in Wallets /\ Allowed(Type(p), w, AmountOf(p)) IN
     \/ ~allowed /\ Quit(p, "refused")
     \/ allowed /\ Overflows(Type(p), w, AmountOf(p)) /\ Quit(p, "panicked")
     \/ /\ allowed
        /\ snap' = [snap EXCEPT ![p] = w]
        /\ pc' = [pc EXCEPT ![p] = "receipt"]
        /\ UNCHANGED <<wallets, receipts, call, aborts>>

(* Mutant: a cancellation names no amount, and its receipt shows none. *)
WithReceiptAsAsked(p) ==
  [q \in DOMAIN receipts \cup {p} |->
     IF q # p THEN receipts[q]
     ELSE [owner |-> call[p].owner, type |-> Type(p),
           amount |-> IF call[p].op = "CANCEL" THEN 0 ELSE AsI64(call[p].amount)]]

(* The receipts with the one p inserts. *)
WithReceipt(p) ==
  [q \in DOMAIN receipts \cup {p} |->
     IF q = p THEN [owner |-> call[p].owner, type |-> Type(p), amount |-> AsI64(AmountOf(p))]
     ELSE receipts[q]]

(* Mutant: the wallet is updated in spite of a failed insert. *)
InsertReceiptBlindly(p) ==
  /\ pc[p] = "receipt"
  /\ receipts' = WithReceipt(p)
  /\ pc' = [pc EXCEPT ![p] = "update"]
  /\ UNCHANGED <<wallets, call, snap, aborts>>

(* tx_repo.insert: committed before the wallet is touched. *)
InsertReceipt(p) ==
  /\ pc[p] = "receipt"
  /\ \/ /\ ~ColumnAccepts(AsI64(AmountOf(p)))
        /\ Quit(p, "refused")
     \/ /\ ColumnAccepts(AsI64(AmountOf(p)))
        /\ receipts' = WithReceipt(p)
        /\ pc' = [pc EXCEPT ![p] = "update"]
        /\ UNCHANGED <<wallets, call, snap, aborts>>

(* Mutant: the UPDATE forgets AND version = $4. *)
VersionIgnored(p) == TRUE

VersionMatches(p) == wallets[call[p].owner].version = snap[p].version

(* wallet_repo.update: no row when the version has moved on, an error when a balance
   does not fit.  Either way the receipt stays. *)
Update(p) ==
  /\ pc[p] = "update"
  /\ LET new == Bound(Moved(Type(p), snap[p], AmountOf(p))) IN
     \/ ~VersionMatches(p) /\ Quit(p, "conflict")
     \/ /\ VersionMatches(p)
        /\ ~(ColumnAccepts(new.active) /\ ColumnAccepts(new.held))
        /\ Quit(p, "refused")
     \/ /\ VersionMatches(p)
        /\ ColumnAccepts(new.active) /\ ColumnAccepts(new.held)
        /\ wallets' = [wallets EXCEPT ![call[p].owner] = Stored(new)]
        /\ pc' = [pc EXCEPT ![p] = "ok"]
        /\ UNCHANGED <<receipts, call, snap, aborts>>

(* The client hangs up between two statements, or the process stops. *)
Abort(p) ==
  /\ aborts < MaxAborts
  /\ pc[p] \in {"found", "receipt", "update"}
  /\ pc' = [pc EXCEPT ![p] = "aborted"]
  /\ aborts' = aborts + 1
  /\ UNCHANGED <<wallets, receipts, call, snap>>

-----------------------------------------------------------------------------
Init ==
  /\ wallets = [o \in Wallets |-> [active |-> InitialActive, held |-> InitialHeld,
                                   version |-> 0]]
  /\ receipts = [r \in {} |-> {}]
  /\ pc = [p \in Requests |-> "new"]
  /\ call \in [Requests -> Calls]
  /\ snap = [p \in Requests |-> NewWallet]
  /\ aborts = 0

Next == \E p \in Requests :
  CancelFind(p) \/ Read(p) \/ InsertReceipt(p) \/ Update(p) \/ Abort(p)

Spec == Init /\ [][Next]_vars

-----------------------------------------------------------------------------
(* What a handler knows at each statement; its own receipt is not there before it
   inserts it. *)
HandlerOK(p) ==
  /\ pc[p] \in {"new", "found", "receipt"} => p \notin DOMAIN receipts
  /\ pc[p] \in {"found", "receipt", "update"} /\ call[p].op = "CANCEL" =>
       call[p].of \in DOMAIN receipts
  /\ pc[p] \in {"receipt", "update"} =>
       call[p].owner \in Wallets /\ Allowed(Type(p), snap[p], AmountOf(p))
  /\ pc[p] = "update" => AmountOf(p) \in 0 .. ColumnMax

(* No balance leaves the range of its column, and no handler works with one. *)
TypeOK ==
  /\ wallets \in [Wallets -> WalletRow]
  /\ DOMAIN receipts \subseteq Requests
  /\ receipts \in [DOMAIN receipts -> Receipt]
  /\ pc \in [Requests -> {"new", "found", "receipt", "update"} \cup Outcomes]
  /\ call \in [Requests -> MutateCall \cup CancelCall]
  /\ snap \in [Requests -> WalletRow]
  /\ aborts \in 0 .. MaxAborts
  /\ \A p \in Requests : HandlerOK(p)

-----------------------------------------------------------------------------
(* A wallet changes by exactly what a call asked for, in rupiah without end: no sum
   that wraps, no cast that changes a sign and no stale read shows in a stored balance,
   whatever amount a request names.  The domain operation alone does not keep this:
   Money adds u64 as the build does, and it is the receipt inserted first that an
   amount beyond the column fails on. *)
MovesAreExact ==
  [][\A o \in Wallets : wallets'[o] # wallets[o] =>
       \E p \in Requests :
         /\ pc[p] = "update" /\ pc'[p] = "ok" /\ call[p].owner = o
         /\ wallets'[o] = Stored(Apply(Type(p), wallets[o], AmountOf(p)))]_vars

Answered(o) == {p \in Requests : pc[p] = "ok" /\ call[p].owner = o}

(* The row of wallet_transactions that says what p moved. *)
Shown(p) == [owner |-> call[p].owner, type |-> Type(p), amount |-> AmountOf(p)]

(* The balances are what the calls answered with success say, each counted once and each
   shown by the receipt it inserted before: a conflict, a refusal or a dropped handler has
   moved nothing, though its receipt may stay, and no success was lost to a concurrent
   update or left out of the history. *)
BalancesAreAnswers ==
  /\ \A p \in Requests : pc[p] = "ok" => p \in DOMAIN receipts /\ receipts[p] = Shown(p)
  /\ \A o \in Wallets :
       /\ wallets[o].active = InitialActive +
            SumFunctionOnSet([p \in Answered(o) |-> ActiveMove(Type(p), AmountOf(p))], Answered(o))
       /\ wallets[o].held = InitialHeld +
            SumFunctionOnSet([p \in Answered(o) |-> HeldMove(Type(p), AmountOf(p))], Answered(o))

(* The calls that answered success and cancelled p. *)
CancelsOf(p) ==
  {q \in Requests : pc[q] = "ok" /\ call[q].op = "CANCEL" /\ call[q].of = p}

(* Clients cancel only bids they were told succeeded, each of them once, and release
   or convert nothing else.  cancel_bid itself asks for none of this. *)
CancelsAreDisciplined ==
  \A q \in Requests : pc[q] = "ok" =>
    /\ Type(q) \in {"RELEASE", "CONVERT"} => call[q].op = "CANCEL"
    /\ call[q].op = "CANCEL" => /\ call[call[q].of].op \in {"BID", "HOLD"}
                                /\ pc[call[q].of] = "ok"
                                /\ CancelsOf(call[q].of) = {q}

(* With disciplined clients, held covers every wallet's own bids and holds that were
   not cancelled: no client takes back another's. *)
HeldCoversBids ==
  CancelsAreDisciplined => \A o \in Wallets :
    LET standing == {p \in Answered(o) : call[p].op \in {"BID", "HOLD"} /\ CancelsOf(p) = {}}
    IN  wallets[o].held >= InitialHeld +
          SumFunctionOnSet([p \in standing |-> call[p].amount], standing)
=============================================================================
