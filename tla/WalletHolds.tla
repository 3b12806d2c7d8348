----------------------------- MODULE WalletHolds -----------------------------
(***************************************************************************)
(* Holds on a wallet: hold_funds, release_funds and convert_funds of       *)
(* src/src/persistence/repositories.rs, the reconciliation worker that     *)
(* releases expired holds, and the balance mutations (top-up, withdraw,    *)
(* trybid) that run next to them through WalletService::mutate_wallet.     *)
(*                                                                         *)
(* Every handler is a process that talks to the database one statement at  *)
(* a time.  A statement sees the rows committed when it runs (READ         *)
(* COMMITTED, PostgreSQL's default, which nothing in the code changes).    *)
(* The write phase of a hold transaction is one step: its UPDATE of the    *)
(* wallet takes the row lock and checks the version, what follows is       *)
(* invisible until COMMIT, and an error on the way rolls all of it back.   *)
(*                                                                         *)
(* A transaction keeps a connection of the sqlx pool; a statement outside  *)
(* one borrows a connection for its duration.  MaxConnections is the size  *)
(* of the pool: 1 for sqlite::memory:, more for PostgreSQL.                *)
(***************************************************************************)
EXTENDS WalletDomain, FiniteSets, Functions

CONSTANTS
  Requests,        \* calls in flight or still to come, each served once
  Worker,          \* the reconciliation worker's task
  Wallets, HoldIds, Auctions, Bids,
  Calls,           \* the calls clients make
  InitialActive,   \* what every wallet was topped up with beforehand
  MaxConnections,  \* size of the connection pool
  MaxCrashes       \* bound on dropped handlers and restarts

HoldCall   == [op : {"hold"}, hold : HoldIds, wallet : Wallets,
               auction : Auctions, bid : Bids, amount : Nat]
FinishCall == [op : {"release", "convert"}, hold : HoldIds]
MutateCall == [op : {"TOP_UP", "WITHDRAW", "BID"}, wallet : Wallets, amount : Nat]

ASSUME ProcessAssumption ==
  /\ IsFiniteSet(Requests)
  /\ Worker \notin Requests
ASSUME CallsAssumption == Calls \subseteq HoldCall \cup FinishCall \cup MutateCall
ASSUME BoundsAssumption ==
  /\ InitialActive \in Nat
  /\ MaxConnections \in Nat \ {0}
  /\ MaxCrashes \in Nat

VARIABLES
  wallets,   \* table wallets
  holds,     \* table holds, by the ids it holds
  ledger,    \* table wallet_transactions: per wallet, the net move its rows record
  expired,   \* the holds whose expires_at has passed
  pc,        \* where each process is: its next statement, or how it ended
  call,      \* the arguments of its call
  snap,      \* the wallet row its handler has read
  siblings,  \* the ACTIVE holds hold_funds is about to replace
  todo,      \* expired ids the worker has fetched and not yet released
  crashes

tables == <<wallets, holds, ledger, expired>>
locals == <<pc, call, snap, siblings>>
vars   == <<tables, locals, todo, crashes>>

-----------------------------------------------------------------------------
Processes == Requests \cup {Worker}

HoldPcs    == {"holdWallet", "holdSiblings", "holdWrite"}
ReleasePcs == {"releaseWallet", "releaseWrite"}
ConvertPcs == {"convertWallet", "convertWrite"}
MutatePcs  == {"mutateLedger", "mutateUpdate"}
NoCall     == [op |-> "none"]
Outcomes   == {"ok", "existing", "error", "conflict", "aborted"}

HoldRow == [wallet : Wallets, auction : Auctions, bid : Bids, amount : Nat,
            status : {"ACTIVE", "RELEASED", "CONVERTED"}]

IsActive(h) == h \in DOMAIN holds /\ holds[h].status = "ACTIVE"

(* A process inside a database transaction owns a connection until it commits,
   fails or is dropped. *)
InTransaction(p) == pc[p] \in HoldPcs \cup ReleasePcs \cup ConvertPcs

ConnectionFree ==
  Cardinality({p \in Processes : InTransaction(p)}) < MaxConnections

(* The wallet row a process works on: named by the call, or by the hold. *)
WalletOf(p) == IF call[p].op \in {"release", "convert"}
               THEN holds[call[p].hold].wallet ELSE call[p].wallet

GoTo(p, label) == pc' = [pc EXCEPT ![p] = label]

(* Mutant: the worker's loop ends with its first call. *)
FinishForGood(p, outcome) ==
  /\ pc' = [pc EXCEPT ![p] = outcome]
  /\ snap' = [snap EXCEPT ![p] = NewWallet]
  /\ siblings' = [siblings EXCEPT ![p] = {}]

(* The handler returns: its locals are gone, and the worker is free to go on. *)
Finish(p, outcome) ==
  /\ pc' = [pc EXCEPT ![p] = IF p = Worker THEN "idle" ELSE outcome]
  /\ snap' = [snap EXCEPT ![p] = NewWallet]
  /\ siblings' = [siblings EXCEPT ![p] = {}]

(* The handler returns having written nothing; a transaction rolls back. *)
Quit(p, outcome) == Finish(p, outcome) /\ UNCHANGED <<tables, call, todo, crashes>>

(* Mutant: the UPDATE forgets AND version = $n. *)
VersionIgnored(p) == TRUE

(* UPDATE wallets ... WHERE id = .. AND version = .. finds the row it read. *)
VersionMatches(p) == wallets[WalletOf(p)].version = snap[p].version

-----------------------------------------------------------------------------
(* hold_funds *)

(* Mutant: the search forgets WHERE bid_id = $1. *)
SameBidAny(auction, bid) == {h \in DOMAIN holds : holds[h].auction = auction}

(* The hold rows some statement selects. *)
SameBid(auction, bid) ==
  {h \in DOMAIN holds : holds[h].auction = auction /\ holds[h].bid = bid}
ActiveSiblings(wallet, auction) ==
  {h \in DOMAIN holds : /\ holds[h].wallet = wallet
                        /\ holds[h].auction = auction
                        /\ holds[h].status = "ACTIVE"}

Total(hs) == SumFunctionOnSet([h \in DOMAIN holds |-> holds[h].amount], hs)

(* Mutant: the siblings' money does not come back. *)
ReleasedNothing(w, hs) == w

(* The wallet after every sibling has been released and the amount held. *)
Released(w, hs) == Apply("RELEASE", w, Total(hs))
CanReplace(w, hs, amount) ==
  /\ hs # {} => Allowed("RELEASE", w, Total(hs))
  /\ Allowed("HOLD", Released(w, hs), amount)
Replaced(w, hs, amount) == Apply("HOLD", Released(w, hs), amount)

(* Mutant: no search for a hold of the same bid. *)
HoldLookupBlind(p) ==
  /\ pc[p] = "new" /\ call[p].op = "hold"
  /\ call[p].amount > 0
  /\ ConnectionFree
  /\ GoTo(p, "holdWallet")
  /\ UNCHANGED <<tables, call, snap, siblings, todo, crashes>>

(* The validation chain, the wallet's id by user and role (it exists and never
   changes), BEGIN, and the search for a hold of the same bid, whose finding ends
   the call with that hold whatever its status. *)
HoldLookup(p) ==
  /\ pc[p] = "new" /\ call[p].op = "hold"
  /\ \/ /\ call[p].amount = 0
        /\ Quit(p, "error")
     \/ /\ call[p].amount > 0
        /\ ConnectionFree
        /\ SameBid(call[p].auction, call[p].bid) # {}
        /\ Quit(p, "existing")
     \/ /\ call[p].amount > 0
        /\ ConnectionFree
        /\ SameBid(call[p].auction, call[p].bid) = {}
        /\ GoTo(p, "holdWallet")
        /\ UNCHANGED <<tables, call, snap, siblings, todo, crashes>>

HoldReadWallet(p) ==
  /\ pc[p] = "holdWallet"
  /\ snap' = [snap EXCEPT ![p] = wallets[WalletOf(p)]]
  /\ GoTo(p, "holdSiblings")
  /\ UNCHANGED <<tables, call, siblings, todo, crashes>>

(* Reads the wallet's ACTIVE holds of the auction and computes the new balances. *)
HoldReadSiblings(p) ==
  /\ pc[p] = "holdSiblings"
  /\ LET hs == ActiveSiblings(call[p].wallet, call[p].auction) IN
     \/ /\ ~CanReplace(snap[p], hs, call[p].amount)
        /\ Quit(p, "error")
     \/ /\ CanReplace(snap[p], hs, call[p].amount)
        /\ siblings' = [siblings EXCEPT ![p] = hs]
        /\ GoTo(p, "holdWrite")
        /\ UNCHANGED <<tables, call, snap, todo, crashes>>

(* Mutant: the siblings stay ACTIVE. *)
PlacedBesideOthers(p) ==
  [h \in DOMAIN holds \cup {call[p].hold} |->
     IF h = call[p].hold
     THEN [wallet |-> call[p].wallet, auction |-> call[p].auction,
           bid |-> call[p].bid, amount |-> call[p].amount, status |-> "ACTIVE"]
     ELSE holds[h]]

(* The table after the siblings are RELEASED and the new hold is inserted. *)
PlacedHolds(p) ==
  [h \in DOMAIN holds \cup {call[p].hold} |->
     IF h = call[p].hold
     THEN [wallet |-> call[p].wallet, auction |-> call[p].auction,
           bid |-> call[p].bid, amount |-> call[p].amount, status |-> "ACTIVE"]
     ELSE IF h \in siblings[p] THEN [holds[h] EXCEPT !.status = "RELEASED"]
     ELSE holds[h]]

(* The receipts the handler inserts add up to the move from old to new. *)
Recorded(w, old, new) ==
  [ledger EXCEPT ![w] = [active |-> @.active + new.active - old.active,
                         held |-> @.held + new.held - old.held]]

(* Mutant: a hold of the same id is overwritten. *)
HoldWriteOver(p) ==
  /\ pc[p] = "holdWrite"
  /\ LET w == call[p].wallet
         new == Replaced(snap[p], siblings[p], call[p].amount) IN
     /\ VersionMatches(p)
     /\ new \in Wallet
     /\ wallets' = [wallets EXCEPT ![w] = Stored(new)]
     /\ ledger' = Recorded(w, snap[p], new)
     /\ holds' = PlacedHolds(p)
     /\ Finish(p, "ok")
     /\ UNCHANGED <<expired, call, todo, crashes>>

(* From the versioned UPDATE to COMMIT; the hold's id is the primary key, and a
   balance the table's CHECK refuses fails the UPDATE.  The row read back after
   COMMIT only feeds the reply (module HoldApi). *)
HoldWrite(p) ==
  /\ pc[p] = "holdWrite"
  /\ LET w == call[p].wallet
         new == Replaced(snap[p], siblings[p], call[p].amount) IN
     \/ /\ ~VersionMatches(p)
        /\ Quit(p, "conflict")
     \/ /\ VersionMatches(p)
        /\ call[p].hold \in DOMAIN holds \/ new \notin Wallet
        /\ Quit(p, "error")
     \/ /\ VersionMatches(p)
        /\ call[p].hold \notin DOMAIN holds
        /\ new \in Wallet
        /\ wallets' = [wallets EXCEPT ![w] = Stored(new)]
        /\ ledger' = Recorded(w, snap[p], new)
        /\ holds' = PlacedHolds(p)
        /\ Finish(p, "ok")
        /\ UNCHANGED <<expired, call, todo, crashes>>

-----------------------------------------------------------------------------
(* release_funds and convert_funds.  Of the hold row read first, the columns
   used later (wallet_id, amount) never change; the status, which does, is
   looked at here and not again. *)

(* Mutant: any hold is released, whatever its status. *)
ReleaseLookupUnchecked(p) ==
  /\ pc[p] = "new" /\ call[p].op = "release"
  /\ ConnectionFree
  /\ call[p].hold \in DOMAIN holds
  /\ GoTo(p, "releaseWallet")
  /\ UNCHANGED <<tables, call, snap, siblings, todo, crashes>>

(* What release_funds does once its process has a hold to release: the worker
   enters here too. *)
ReleaseLookup(p) ==
  /\ pc[p] = "new" /\ call[p].op = "release"
  /\ ConnectionFree
  /\ \/ /\ call[p].hold \notin DOMAIN holds
        /\ Quit(p, "error")
     \/ /\ call[p].hold \in DOMAIN holds /\ ~IsActive(call[p].hold)
        /\ Quit(p, "existing")
     \/ /\ IsActive(call[p].hold)
        /\ GoTo(p, "releaseWallet")
        /\ UNCHANGED <<tables, call, snap, siblings, todo, crashes>>

ConvertLookup(p) ==
  /\ pc[p] = "new" /\ call[p].op = "convert"
  /\ ConnectionFree
  /\ \/ /\ ~IsActive(call[p].hold)
        /\ Quit(p, "error")
     \/ /\ IsActive(call[p].hold)
        /\ GoTo(p, "convertWallet")
        /\ UNCHANGED <<tables, call, snap, siblings, todo, crashes>>

(* The wallet is read and the domain operation computes the new balances. *)
ReadWalletFor(p, type, next) ==
  LET w == wallets[WalletOf(p)]
      amount == holds[call[p].hold].amount IN
  \/ /\ ~Allowed(type, w, amount)
     /\ Quit(p, "error")
  \/ /\ Allowed(type, w, amount)
     /\ snap' = [snap EXCEPT ![p] = w]
     /\ GoTo(p, next)
     /\ UNCHANGED <<tables, call, siblings, todo, crashes>>

ReleaseReadWallet(p) ==
  pc[p] = "releaseWallet" /\ ReadWalletFor(p, "RELEASE", "releaseWrite")
ConvertReadWallet(p) ==
  pc[p] = "convertWallet" /\ ReadWalletFor(p, "CONVERT", "convertWrite")

(* Mutant: the receipt is kept when the versioned UPDATE finds no row. *)
FinishHoldEagerly(p, type, status) ==
  LET h == call[p].hold
      w == WalletOf(p)
      new == Apply(type, snap[p], holds[h].amount) IN
  /\ ledger' = Recorded(w, snap[p], new)
  /\ Finish(p, "ok")
  /\ UNCHANGED <<expired, call, todo, crashes>>
  /\ \/ /\ ~VersionMatches(p)
        /\ UNCHANGED <<wallets, holds>>
     \/ /\ VersionMatches(p)
        /\ wallets' = [wallets EXCEPT ![w] = Stored(new)]
        /\ holds' = [holds EXCEPT ![h].status = status]

(* Versioned UPDATE, receipt, UPDATE holds SET status WHERE id, COMMIT. *)
FinishHold(p, type, status) ==
  LET h == call[p].hold
      w == WalletOf(p)
      new == Apply(type, snap[p], holds[h].amount) IN
  \/ /\ ~VersionMatches(p)
     /\ Quit(p, "conflict")
  \/ /\ VersionMatches(p)
     /\ wallets' = [wallets EXCEPT ![w] = Stored(new)]
     /\ ledger' = Recorded(w, snap[p], new)
     /\ holds' = [holds EXCEPT ![h].status = status]
     /\ Finish(p, "ok")
     /\ UNCHANGED <<expired, call, todo, crashes>>

ReleaseWrite(p) == pc[p] = "releaseWrite" /\ FinishHold(p, "RELEASE", "RELEASED")
ConvertWrite(p) == pc[p] = "convertWrite" /\ FinishHold(p, "CONVERT", "CONVERTED")

-----------------------------------------------------------------------------
(* mutate_wallet: three statements, each its own transaction.  top_up and
   withdraw validate the amount first; bid leaves that to the domain. *)
MutateRead(p) ==
  /\ pc[p] = "new" /\ call[p].op \in {"TOP_UP", "WITHDRAW", "BID"}
  /\ ConnectionFree
  /\ LET w == wallets[call[p].wallet] IN
     \/ /\ ~Allowed(call[p].op, w, call[p].amount)
        /\ Quit(p, "error")
     \/ /\ Allowed(call[p].op, w, call[p].amount)
        /\ snap' = [snap EXCEPT ![p] = w]
        /\ GoTo(p, "mutateLedger")
        /\ UNCHANGED <<tables, call, siblings, todo, crashes>>

(* tx_repo.insert: the receipt is in the table before the wallet is. *)
MutateLedger(p) ==
  /\ pc[p] = "mutateLedger"
  /\ ConnectionFree
  /\ ledger' = Recorded(call[p].wallet, snap[p],
                        Apply(call[p].op, snap[p], call[p].amount))
  /\ GoTo(p, "mutateUpdate")
  /\ UNCHANGED <<wallets, holds, expired, call, snap, siblings, todo, crashes>>

(* Mutant: on a conflict the handler waits for its version to come back. *)
MutateUpdatePatient(p) ==
  /\ pc[p] = "mutateUpdate"
  /\ ConnectionFree
  /\ VersionMatches(p)
  /\ wallets' = [wallets EXCEPT ![call[p].wallet] =
                   Stored(Apply(call[p].op, snap[p], call[p].amount))]
  /\ Finish(p, "ok")
  /\ UNCHANGED <<holds, ledger, expired, call, todo, crashes>>

(* wallet_repo.update: RowNotFound when the version has moved on. *)
MutateUpdate(p) ==
  /\ pc[p] = "mutateUpdate"
  /\ ConnectionFree
  /\ \/ /\ ~VersionMatches(p)
        /\ Quit(p, "conflict")
     \/ /\ VersionMatches(p)
        /\ wallets' = [wallets EXCEPT ![call[p].wallet] =
                         Stored(Apply(call[p].op, snap[p], call[p].amount))]
        /\ Finish(p, "ok")
        /\ UNCHANGED <<holds, ledger, expired, call, todo, crashes>>

-----------------------------------------------------------------------------
(* The reconciliation worker: fetch the expired ids, then release them one by
   one, whatever each release returns. *)
WorkerTick ==
  /\ pc[Worker] = "idle" /\ todo = {}
  /\ ConnectionFree
  /\ todo' = {h \in expired : IsActive(h)}
  /\ UNCHANGED <<tables, locals, crashes>>

WorkerNext ==
  /\ pc[Worker] = "idle"
  /\ \E h \in todo :
       /\ todo' = todo \ {h}
       /\ call' = [call EXCEPT ![Worker] = [op |-> "release", hold |-> h]]
  /\ GoTo(Worker, "new")
  /\ UNCHANGED <<tables, snap, siblings, crashes>>

(* The clock passes a hold's expires_at. *)
Expire(h) ==
  /\ h \in DOMAIN holds \ expired
  /\ expired' = expired \cup {h}
  /\ UNCHANGED <<wallets, holds, ledger, locals, todo, crashes>>

(* A handler is dropped between two statements: its client hangs up, or the
   process stops.  An open transaction rolls back, the worker starts over. *)
Abort(p) ==
  /\ crashes < MaxCrashes
  /\ pc[p] \notin {"new", "idle"} \cup Outcomes
  /\ crashes' = crashes + 1
  /\ Finish(p, "aborted")
  /\ todo' = IF p = Worker THEN {} ELSE todo
  /\ UNCHANGED <<tables, call>>

-----------------------------------------------------------------------------
Init ==
  /\ wallets = [w \in Wallets |-> [NewWallet EXCEPT !.active = InitialActive]]
  /\ holds = [h \in {} |-> {}]
  /\ ledger = [w \in Wallets |-> [active |-> InitialActive, held |-> 0]]
  /\ expired = {}
  /\ pc = [p \in Processes |-> IF p = Worker THEN "idle" ELSE "new"]
  /\ call \in {[p \in Processes |-> IF p = Worker THEN NoCall ELSE c[p]] :
                c \in [Requests -> Calls]}
  /\ snap = [p \in Processes |-> NewWallet]
  /\ siblings = [p \in Processes |-> {}]
  /\ todo = {}
  /\ crashes = 0

Start(p) == HoldLookup(p) \/ ReleaseLookup(p) \/ ConvertLookup(p) \/ MutateRead(p)

Continue(p) ==
  \/ HoldReadWallet(p) \/ HoldReadSiblings(p) \/ HoldWrite(p)
  \/ ReleaseReadWallet(p) \/ ReleaseWrite(p)
  \/ ConvertReadWallet(p) \/ ConvertWrite(p)
  \/ MutateLedger(p) \/ MutateUpdate(p)

WorkerStep == WorkerTick \/ WorkerNext \/ Start(Worker) \/ Continue(Worker)

Next ==
  \/ \E p \in Processes : Start(p) \/ Continue(p) \/ Abort(p)
  \/ WorkerTick \/ WorkerNext
  \/ \E h \in HoldIds : Expire(h)

Spec == Init /\ [][Next]_vars

(* tokio polls every task it has been given; a client need not call. *)
FairSpec ==
  /\ Spec
  /\ \A p \in Requests : WF_vars(Continue(p))
  /\ WF_vars(WorkerStep)
-----------------------------------------------------------------------------
(* What a handler knows at each program counter: the call it serves, the hold
   it has found, and that its operation was allowed on the row it read. *)
HandlerOK(p) ==
  /\ pc[p] \in HoldPcs => call[p] \in HoldCall
  /\ pc[p] \in ReleasePcs \cup ConvertPcs =>
       call[p] \in FinishCall /\ call[p].hold \in DOMAIN holds
  /\ pc[p] \in MutatePcs =>
       call[p] \in MutateCall /\ Allowed(call[p].op, snap[p], call[p].amount)
  /\ pc[p] = "releaseWrite" => Allowed("RELEASE", snap[p], holds[call[p].hold].amount)
  /\ pc[p] = "convertWrite" => Allowed("CONVERT", snap[p], holds[call[p].hold].amount)

TypeOK ==
  /\ wallets \in [Wallets -> Wallet]
  /\ DOMAIN holds \subseteq HoldIds
  /\ holds \in [DOMAIN holds -> HoldRow]
  /\ ledger \in [Wallets -> [active : Int, held : Int]]
  /\ expired \subseteq DOMAIN holds
  /\ pc \in [Processes -> {"new", "idle"} \cup HoldPcs \cup ReleasePcs
                            \cup ConvertPcs \cup MutatePcs \cup Outcomes]
  /\ call \in [Processes -> {NoCall} \cup HoldCall \cup FinishCall \cup MutateCall]
  /\ snap \in [Processes -> Wallet]
  /\ siblings \in [Processes -> SUBSET DOMAIN holds]
  /\ todo \subseteq DOMAIN holds
  /\ crashes \in 0 .. MaxCrashes
  /\ \A p \in Processes : HandlerOK(p)

-----------------------------------------------------------------------------
(* Whatever the size of the pool. *)

(* A handler's copy of a wallet is never newer than the row, and as long as the
   row still has the version it read, nothing in the row has changed: the version
   check of every UPDATE really detects every change made since. *)
HoldsSnapshot(p) ==
  pc[p] \in {"holdSiblings", "holdWrite", "releaseWrite", "convertWrite"} \cup MutatePcs

SnapshotCurrent ==
  \A p \in Processes : HoldsSnapshot(p) =>
    /\ snap[p].version <= wallets[WalletOf(p)].version
    /\ VersionMatches(p) => snap[p] = wallets[WalletOf(p)]

(* What hold_funds is about to release is what is ACTIVE, as long as its version
   is current: every change to a wallet's holds passes through its version. *)
SiblingsCurrent ==
  \A p \in Processes : pc[p] = "holdWrite" /\ VersionMatches(p) =>
    siblings[p] = ActiveSiblings(call[p].wallet, call[p].auction)

(* Both: the version tells of every change to what a handler has read. *)
ReadsCurrent == SnapshotCurrent /\ SiblingsCurrent

(* A wallet has at most one ACTIVE hold in an auction: a later bid replaces the
   hold of the earlier one (hold_funds releases every sibling it finds). *)
OneActivePerAuction ==
  \A g, h \in DOMAIN holds :
    /\ holds[g].status = "ACTIVE" /\ holds[h].status = "ACTIVE"
    /\ holds[g].wallet = holds[h].wallet /\ holds[g].auction = holds[h].auction
    => g = h

(* No lost update: what a handler stores is its operation applied to the row it
   replaces, not to an older one it had read. *)
Commits(p) == wallets' # wallets /\ pc'[p] # pc[p]

WritesApplyToCurrentRow ==
  [][\A p \in Processes : Commits(p) =>
       LET w == WalletOf(p) IN
       wallets'[w] = Stored(
         CASE pc[p] = "holdWrite" ->
                Replaced(wallets[w], ActiveSiblings(w, call[p].auction), call[p].amount)
           [] pc[p] = "releaseWrite" ->
                Apply("RELEASE", wallets[w], holds[call[p].hold].amount)
           [] pc[p] = "convertWrite" ->
                Apply("CONVERT", wallets[w], holds[call[p].hold].amount)
           [] OTHER -> Apply(call[p].op, wallets[w], call[p].amount))]_vars

OnlyHoldsMoveMoney == \A p \in Requests : call[p].op \in {"hold", "release", "convert"}

(* While only holds move money, the transaction history explains the balances: the
   receipts add up to them, through version conflicts and dropped handlers ("Immutable
   record of a single wallet mutation").  mutate_wallet, which commits its receipt
   before the wallet, does not keep this. *)
LedgerAgrees ==
  OnlyHoldsMoveMoney =>
    \A w \in Wallets : /\ ledger[w].active = wallets[w].active
                       /\ ledger[w].held = wallets[w].held

-----------------------------------------------------------------------------
(* With a pool that lets one transaction run at a time. *)

(* A RELEASED or CONVERTED hold stays so: no hold is released twice, released
   after it paid for an auction, or converted after its money went back. *)
HoldFinality ==
  [][\A h \in DOMAIN holds : holds[h].status # "ACTIVE" => holds'[h] = holds[h]]_vars

(* One hold per bid of an auction, whoever retries it. *)
OneHoldPerBid ==
  \A g, h \in DOMAIN holds :
    holds[g].auction = holds[h].auction /\ holds[g].bid = holds[h].bid => g = h

HoldsOf(w, status) == {h \in DOMAIN holds : holds[h].wallet = w /\ holds[h].status = status}

(* Held funds cover the ACTIVE holds; trybid's share comes on top. *)
HeldCoversHolds ==
  \A w \in Wallets : wallets[w].held >= Total(HoldsOf(w, "ACTIVE"))

(* While only holds move money, the balances are what the holds say: the ACTIVE
   ones are held, the CONVERTED ones are spent, and the RELEASED ones are back. *)
BalancesFollowHolds ==
  OnlyHoldsMoveMoney => \A w \in Wallets :
    /\ wallets[w].held = Total(HoldsOf(w, "ACTIVE"))
    /\ wallets[w].active =
         InitialActive - Total(HoldsOf(w, "ACTIVE")) - Total(HoldsOf(w, "CONVERTED"))

-----------------------------------------------------------------------------
(* What the handlers implement when transactions run one at a time: the table
   rows without their versions, and every step between a read and its COMMIT a
   stutter. *)
Amounts == {c.amount : c \in Calls \cap (HoldCall \cup MutateCall)}

Contract == INSTANCE HoldContract WITH
  active <- [w \in Wallets |-> wallets[w].active],
  held   <- [w \in Wallets |-> wallets[w].held]

(* Every behaviour of the handlers is one of atomic placements, releases and
   conversions. *)
ImplementsContract == Contract!Spec

-----------------------------------------------------------------------------
(* Once a hold has expired it does not stay ACTIVE: the worker releases it, unless
   a release, a conversion or a later bid comes first. *)
ExpiredHoldsSettle ==
  \A h \in HoldIds : h \in expired /\ IsActive(h) ~> ~IsActive(h)

(* A call that has begun ends: no handler waits for ever for a connection or for
   another handler. *)
CallsEnd == \A p \in Requests : pc[p] # "new" ~> pc[p] \in Outcomes
=============================================================================
