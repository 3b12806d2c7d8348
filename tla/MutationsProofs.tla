-------------------------- MODULE MutationsProofs --------------------------
(***************************************************************************)
(* Proofs about Mutations for every width of the columns, every set of     *)
(* calls, and every number of requests and wallets.                        *)
(***************************************************************************)
EXTENDS Mutations, SumTheorems

-----------------------------------------------------------------------------
(* The conversions change nothing within a column's range, and what they change
   the column refuses. *)

LEMMA Widths == Half \in Nat /\ ColumnMax \in Nat /\ ColumnMax < Half /\ U64 = Half + Half
BY WidthAssumption DEF U64

LEMMA ReadBack == ASSUME NEW i \in 0 .. ColumnMax PROVE AsU64(i) = i
<1>1. i \in Nat /\ U64 \in Nat \ {0} /\ i < U64
  BY Widths
<1> QED
  BY <1>1 DEF AsU64

LEMMA SmallSum ==
  ASSUME NEW a \in 0 .. ColumnMax, NEW b \in 0 .. ColumnMax
  PROVE  Sum(a, b) = a + b
<1>1. a + b \in Nat /\ U64 \in Nat \ {0} /\ a + b < U64
  BY Widths
<1> QED
  BY <1>1 DEF Sum

LEMMA AcceptedAsIs ==
  ASSUME NEW m \in Amount, ColumnAccepts(AsI64(m))
  PROVE  AsI64(m) = m /\ m \in 0 .. ColumnMax
<1>1. m \in Int /\ 0 <= m /\ m < U64
  BY Widths DEF Amount
<1>2. CASE m < Half
  BY <1>2, Widths DEF AsI64, ColumnAccepts
<1>3. CASE ~(m < Half)
  <2>1. AsI64(m) = m - U64
    BY <1>3 DEF AsI64
  <2> QED
    BY <1>1, <2>1, Widths DEF ColumnAccepts
<1> QED
  BY <1>2, <1>3

(* The functions on wallets, field by field. *)
Row == [active : Int, held : Int, version : Int]

LEMMA SameRow ==
  ASSUME NEW l \in Row, NEW r \in Row,
         l.active = r.active, l.held = r.held, l.version = r.version
  PROVE  l = r
BY DEF Row

LEMMA ApplyFields ==
  ASSUME NEW w \in Row, NEW t, NEW a, NEW x \in Int, NEW y \in Int,
         x = w.active + ActiveMove(t, a), y = w.held + HeldMove(t, a)
  PROVE  /\ Apply(t, w, a) \in Row /\ Apply(t, w, a).version = w.version
         /\ Apply(t, w, a).active = x /\ Apply(t, w, a).held = y
BY DEF Apply, Row

LEMMA BoundFields ==
  ASSUME NEW w \in Row, AsI64(w.active) \in Int, AsI64(w.held) \in Int
  PROVE  /\ Bound(w) \in Row /\ Bound(w).version = w.version
         /\ Bound(w).active = AsI64(w.active) /\ Bound(w).held = AsI64(w.held)
BY DEF Bound, Row

(* What the UPDATE stores is the operation in unbounded integers. *)
LEMMA StoredExactly ==
  ASSUME NEW t \in MutateTypes, NEW w \in WalletRow, NEW a \in 0 .. ColumnMax,
         Allowed(t, w, a),
         ColumnAccepts(Bound(Moved(t, w, a)).active),
         ColumnAccepts(Bound(Moved(t, w, a)).held)
  PROVE  /\ Bound(Moved(t, w, a)) = Apply(t, w, a)
         /\ Stored(Bound(Moved(t, w, a))) \in WalletRow
<1> DEFINE active == w.active + ActiveMove(t, a)
           held == w.held + HeldMove(t, a)
           moved == Moved(t, w, a)
           new == Bound(moved)
<1>1. /\ w.active \in 0 .. ColumnMax /\ w.held \in 0 .. ColumnMax /\ w.version \in Nat
      /\ w \in Row
  BY DEF WalletRow, Row
<1>2. active \in Amount /\ held \in Amount
  <2>1. (t \in DebitsActive => w.active >= a) /\ (t \in DebitsHeld => w.held >= a)
    BY DEF Allowed
  <2>2. active \in 0 .. ColumnMax + ColumnMax
    BY <1>1, <2>1, Widths DEF ActiveMove
  <2>3. held \in 0 .. ColumnMax + ColumnMax
    BY <1>1, <2>1, Widths DEF HeldMove
  <2> QED
    BY <2>2, <2>3, Widths DEF Amount
<1>3. moved \in Row /\ moved.active = active /\ moved.held = held
      /\ moved.version = w.version
  <2>1. active = IF t \in CreditsActive THEN Sum(w.active, a) ELSE w.active + ActiveMove(t, a)
    BY <1>1, SmallSum DEF ActiveMove
  <2>2. held = IF t \in CreditsHeld THEN Sum(w.held, a) ELSE w.held + HeldMove(t, a)
    BY <1>1, SmallSum DEF HeldMove
  <2>3. active \in Int /\ held \in Int
    BY <1>2, Widths DEF Amount
  <2> HIDE DEF active, held, moved
  <2> QED
    BY <1>1, <2>1, <2>2, <2>3 DEF moved, Moved, Row
<1>4. Apply(t, w, a) \in Row /\ Apply(t, w, a).active = active
      /\ Apply(t, w, a).held = held /\ Apply(t, w, a).version = w.version
  BY <1>1, <1>2, Widths, ApplyFields DEF Amount
<1> HIDE DEF active, held, moved
<1>5. new \in Row /\ new.active = AsI64(active) /\ new.held = AsI64(held)
      /\ new.version = w.version
  <2>1. AsI64(active) \in Int /\ AsI64(held) \in Int
    BY <1>2, Widths DEF Amount, AsI64
  <2> QED
    BY <1>3, <2>1, BoundFields
<1>6. /\ AsI64(active) = active /\ active \in 0 .. ColumnMax
      /\ AsI64(held) = held /\ held \in 0 .. ColumnMax
  <2>1. ColumnAccepts(AsI64(active)) /\ ColumnAccepts(AsI64(held))
    BY <1>5 DEF moved
  <2> QED
    BY <1>2, <2>1, AcceptedAsIs
<1>7. new = Apply(t, w, a)
  BY <1>4, <1>5, <1>6, SameRow
<1>8. Stored(new) \in WalletRow
  <2> HIDE DEF new
  <2> QED
    BY <1>1, <1>5, <1>6 DEF Stored, WalletRow, Row
<1> QED
  BY <1>7, <1>8 DEF moved

-----------------------------------------------------------------------------
(* A handler's copy of a wallet: what the row still is if its version matches. *)
SnapshotOK(p) ==
  pc[p] \in {"receipt", "update"} =>
    /\ snap[p].version <= wallets[call[p].owner].version
    /\ VersionMatches(p) => snap[p] = wallets[call[p].owner]

IInv == TypeOK /\ \A p \in Requests : SnapshotOK(p)

LEMMA LoadedAsIs == ASSUME NEW w \in WalletRow PROVE Loaded(w) = w
<1>1. AsU64(w.active) = w.active /\ AsU64(w.held) = w.held
  BY ReadBack DEF WalletRow
<1> QED
  BY <1>1 DEF Loaded, WalletRow

LEMMA InitInvariant == Init => IInv
<1> SUFFICES ASSUME Init PROVE IInv
  OBVIOUS
<1>1. NewWallet \in WalletRow
  BY Widths DEF NewWallet, WalletRow
<1>2. wallets \in [Wallets -> WalletRow]
  BY BoundsAssumption DEF Init, WalletRow
<1>3. call \in [Requests -> MutateCall \cup CancelCall]
  BY CallsAssumption DEF Init
<1> QED
  BY <1>1, <1>2, <1>3, BoundsAssumption DEF Init, IInv, TypeOK, HandlerOK, SnapshotOK

LEMMA QuitKeepsInvariant ==
  ASSUME IInv, NEW p \in Requests, NEW o \in Outcomes, Quit(p, o)
  PROVE  IInv'
<1>1. pc' \in [Requests -> {"new", "found", "receipt", "update"} \cup Outcomes]
  BY DEF IInv, TypeOK, Quit
<1>2. \A q \in Requests : pc'[q] = pc[q] \/ pc'[q] \in Outcomes
  BY DEF IInv, TypeOK, Quit
<1>3. \A q \in Requests : HandlerOK(q)' /\ SnapshotOK(q)'
  BY <1>2 DEF IInv, TypeOK, Quit, HandlerOK, SnapshotOK, Type, AmountOf, VersionMatches,
     Outcomes
<1> QED
  BY <1>1, <1>3 DEF IInv, TypeOK, Quit

LEMMA FindKeepsInvariant ==
  ASSUME IInv, NEW p \in Requests, CancelFind(p)
  PROVE  IInv'
<1>1. CASE Quit(p, "refused")
  BY <1>1, QuitKeepsInvariant DEF Outcomes
<1>2. CASE Quit(p, "found") /\ call[p].of \in DOMAIN receipts
  <2>1. pc' = [pc EXCEPT ![p] = "found"] /\ pc[p] = "new"
    BY <1>2 DEF Quit, CancelFind
  <2>2. \A q \in Requests : HandlerOK(q)' /\ SnapshotOK(q)'
    BY <1>2, <2>1 DEF IInv, TypeOK, Quit, HandlerOK, SnapshotOK, Type, AmountOf,
       VersionMatches
  <2> QED
    BY <1>2, <2>1, <2>2 DEF IInv, TypeOK, Quit
<1> QED
  BY <1>1, <1>2 DEF CancelFind

LEMMA ReadKeepsInvariant ==
  ASSUME IInv, NEW p \in Requests, Read(p)
  PROVE  IInv'
<1>1. CASE Quit(p, "refused") \/ Quit(p, "panicked")
  BY <1>1, QuitKeepsInvariant DEF Outcomes
<1> DEFINE o == call[p].owner
           w == Loaded(wallets[o])
<1>2. CASE /\ o \in Wallets /\ Allowed(Type(p), w, AmountOf(p))
           /\ snap' = [snap EXCEPT ![p] = w]
           /\ pc' = [pc EXCEPT ![p] = "receipt"]
           /\ UNCHANGED <<wallets, receipts, call, aborts>>
  <2>1. w = wallets[o] /\ w \in WalletRow
    BY <1>2, LoadedAsIs DEF IInv, TypeOK
  <2>2. pc[p] = IF call[p].op = "CANCEL" THEN "found" ELSE "new"
    BY DEF Read
  <2>3. snap'[p] = wallets'[call'[p].owner] /\ snap' \in [Requests -> WalletRow]
    BY <1>2, <2>1 DEF IInv, TypeOK
  <2>4. snap'[p].version <= wallets'[call'[p].owner].version
    BY <1>2, <2>1, <2>3 DEF WalletRow
  <2>5. SnapshotOK(p)'
    BY <2>3, <2>4 DEF SnapshotOK
  <2>6. \A q \in Requests \ {p} : SnapshotOK(q)'
    BY <1>2 DEF IInv, TypeOK, SnapshotOK, VersionMatches
  <2>7. HandlerOK(p)'
    BY <1>2, <2>2 DEF IInv, TypeOK, HandlerOK, Type, AmountOf
  <2>8. \A q \in Requests \ {p} : HandlerOK(q)'
    BY <1>2 DEF IInv, TypeOK, HandlerOK, Type, AmountOf
  <2> QED
    BY <1>2, <2>3, <2>5, <2>6, <2>7, <2>8 DEF IInv, TypeOK
<1> QED
  BY <1>1, <1>2 DEF Read

(* Whoever is about to insert its receipt knows the amount. *)
LEMMA AmountIsU64 ==
  ASSUME IInv, NEW p \in Requests, InsertReceipt(p)
  PROVE  AmountOf(p) \in Amount
<1>1. CASE call[p].op = "CANCEL"
  <2>1. call[p].of \in DOMAIN receipts
    BY <1>1 DEF IInv, TypeOK, HandlerOK, InsertReceipt
  <2>2. receipts[call[p].of].amount \in 0 .. ColumnMax
    BY <2>1 DEF IInv, TypeOK, Receipt
  <2> QED
    BY <1>1, <2>2, ReadBack, Widths DEF AmountOf, Amount
<1>2. CASE call[p].op # "CANCEL"
  BY <1>2 DEF IInv, TypeOK, MutateCall, CancelCall, AmountOf
<1> QED
  BY <1>1, <1>2

LEMMA InsertKeepsInvariant ==
  ASSUME IInv, NEW p \in Requests, InsertReceipt(p)
  PROVE  IInv'
<1>1. CASE Quit(p, "refused")
  BY <1>1, QuitKeepsInvariant DEF Outcomes
<1>2. CASE /\ ColumnAccepts(AsI64(AmountOf(p)))
           /\ receipts' = WithReceipt(p)
           /\ pc' = [pc EXCEPT ![p] = "update"]
           /\ UNCHANGED <<wallets, call, snap, aborts>>
  <2>1. AmountOf(p) \in Amount
    BY AmountIsU64
  <2>2. AsI64(AmountOf(p)) = AmountOf(p) /\ AmountOf(p) \in 0 .. ColumnMax
    BY <1>2, <2>1, AcceptedAsIs
  <2>3. Type(p) \in MutateTypes /\ call[p].owner \in Wallets /\ pc[p] = "receipt"
    BY DEF IInv, TypeOK, HandlerOK, InsertReceipt, Type, MutateCall, CancelCall, MutateTypes
  <2>4. p \notin DOMAIN receipts
    BY <2>3 DEF IInv, TypeOK, HandlerOK
  <2>5. /\ DOMAIN receipts' = DOMAIN receipts \cup {p}
        /\ \A q \in DOMAIN receipts : receipts'[q] = receipts[q]
        /\ receipts'[p] \in Receipt
        /\ receipts' \in [DOMAIN receipts' -> Receipt]
    BY <1>2, <2>2, <2>3, <2>4 DEF IInv, TypeOK, WithReceipt, Receipt
  <2>6. \A q \in Requests : call[q].op = "CANCEL" /\ call[q].of \in DOMAIN receipts =>
                              AmountOf(q)' = AmountOf(q)
    BY <1>2, <2>5 DEF AmountOf
  <2>7. \A q \in Requests : call[q].op # "CANCEL" => AmountOf(q)' = AmountOf(q)
    BY <1>2 DEF AmountOf
  <2>8. \A q \in Requests : Type(q)' = Type(q)
    BY <1>2 DEF Type
  <2>9. HandlerOK(p) /\ AmountOf(p)' = AmountOf(p)
    BY <2>3, <2>6, <2>7 DEF IInv, TypeOK, HandlerOK
  <2>10. HandlerOK(p)'
    BY <1>2, <2>2, <2>3, <2>5, <2>8, <2>9 DEF IInv, TypeOK, HandlerOK
  <2>11. ASSUME NEW q \in Requests \ {p} PROVE HandlerOK(q)'
    <3>1. HandlerOK(q) /\ pc'[q] = pc[q]
      BY <1>2 DEF IInv, TypeOK
    <3>2. pc[q] \in {"receipt", "update"} => AmountOf(q)' = AmountOf(q)
      BY <3>1, <2>6, <2>7 DEF HandlerOK
    <3> QED
      BY <1>2, <2>5, <2>8, <3>1, <3>2 DEF HandlerOK
  <2>12. \A q \in Requests : SnapshotOK(q)'
    BY <1>2, <2>3 DEF IInv, TypeOK, SnapshotOK, VersionMatches
  <2>13. pc' \in [Requests -> {"new", "found", "receipt", "update"} \cup Outcomes]
    BY <1>2 DEF IInv, TypeOK
  <2> QED
    BY <1>2, <2>5, <2>10, <2>11, <2>12, <2>13 DEF IInv, TypeOK
<1> QED
  BY <1>1, <1>2 DEF InsertReceipt

(* What the last statement does when it does something. *)
Commits(p) ==
  LET new == Bound(Moved(Type(p), snap[p], AmountOf(p))) IN
  /\ pc[p] = "update" /\ VersionMatches(p)
  /\ ColumnAccepts(new.active) /\ ColumnAccepts(new.held)
  /\ wallets' = [wallets EXCEPT ![call[p].owner] = Stored(new)]
  /\ pc' = [pc EXCEPT ![p] = "ok"]
  /\ UNCHANGED <<receipts, call, snap, aborts>>

LEMMA CommitIsExact ==
  ASSUME IInv, NEW p \in Requests, Commits(p)
  PROVE  LET o == call[p].owner IN
         /\ o \in Wallets
         /\ wallets' = [wallets EXCEPT ![o] = Stored(Apply(Type(p), wallets[o], AmountOf(p)))]
         /\ wallets'[o] \in WalletRow /\ wallets'[o].version = wallets[o].version + 1
<1>1. /\ call[p].owner \in Wallets /\ snap[p] = wallets[call[p].owner]
      /\ AmountOf(p) \in 0 .. ColumnMax /\ Allowed(Type(p), snap[p], AmountOf(p))
      /\ snap[p] \in WalletRow
  BY DEF Commits, IInv, TypeOK, HandlerOK, SnapshotOK
<1>2. Type(p) \in MutateTypes
  BY DEF IInv, TypeOK, Type, MutateCall, CancelCall, MutateTypes
<1> DEFINE new == Bound(Moved(Type(p), snap[p], AmountOf(p)))
<1>3. new = Apply(Type(p), snap[p], AmountOf(p)) /\ Stored(new) \in WalletRow
  BY <1>1, <1>2, StoredExactly DEF Commits
<1>4. Stored(new).version = snap[p].version + 1
  <2>1. new.version = snap[p].version
    BY <1>3 DEF Apply, WalletRow
  <2> QED
    BY <1>1, <1>3, <2>1 DEF Stored, Apply, WalletRow
<1>5. wallets' = [wallets EXCEPT ![call[p].owner] = Stored(new)]
  BY DEF Commits
<1> HIDE DEF new
<1> QED
  BY <1>1, <1>3, <1>4, <1>5 DEF IInv, TypeOK

LEMMA CommitKeepsInvariant ==
  ASSUME IInv, NEW p \in Requests, Commits(p)
  PROVE  IInv'
<1> DEFINE o == call[p].owner
<1>1. /\ o \in Wallets /\ wallets' \in [Wallets -> WalletRow]
      /\ wallets'[o].version = wallets[o].version + 1
      /\ \A u \in Wallets \ {o} : wallets'[u] = wallets[u]
  BY CommitIsExact DEF IInv, TypeOK
<1>2. pc' = [pc EXCEPT ![p] = "ok"] /\ UNCHANGED <<receipts, call, snap, aborts>>
  BY DEF Commits
<1>3. \A q \in Requests : HandlerOK(q)'
  BY <1>2 DEF IInv, TypeOK, HandlerOK, Type, AmountOf
<1>4. ASSUME NEW q \in Requests, pc'[q] \in {"receipt", "update"} PROVE SnapshotOK(q)'
  <2>1. /\ pc[q] \in {"receipt", "update"} /\ call[q].owner \in Wallets
        /\ snap[q].version <= wallets[call[q].owner].version
        /\ snap[q].version = wallets[call[q].owner].version => snap[q] = wallets[call[q].owner]
    BY <1>2, <1>4 DEF IInv, TypeOK, HandlerOK, SnapshotOK, VersionMatches
  <2>2. CASE call[q].owner = o
    <3>1. snap[q].version \in Nat /\ wallets[o].version \in Nat
      BY <1>1 DEF IInv, TypeOK, WalletRow
    <3> QED
      BY <1>1, <1>2, <2>1, <2>2, <3>1 DEF SnapshotOK, VersionMatches
  <2>3. CASE call[q].owner # o
    BY <1>1, <1>2, <2>1, <2>3 DEF SnapshotOK, VersionMatches
  <2> QED
    BY <2>2, <2>3
<1>5. \A q \in Requests : SnapshotOK(q)'
  BY <1>4 DEF SnapshotOK
<1> QED
  BY <1>1, <1>2, <1>3, <1>5 DEF IInv, TypeOK, Outcomes

LEMMA UpdateCases ==
  ASSUME NEW p \in Requests, Update(p)
  PROVE  (\E o \in Outcomes : Quit(p, o)) \/ Commits(p)
BY DEF Update, Commits, Outcomes

LEMMA AbortKeepsInvariant ==
  ASSUME IInv, NEW p \in Requests, Abort(p)
  PROVE  IInv'
<1>1. pc' \in [Requests -> {"new", "found", "receipt", "update"} \cup Outcomes]
  BY DEF IInv, TypeOK, Abort, Outcomes
<1>2. aborts' \in 0 .. MaxAborts
  BY BoundsAssumption DEF IInv, TypeOK, Abort
<1>3. \A q \in Requests : pc'[q] = pc[q] \/ pc'[q] = "aborted"
  BY DEF IInv, TypeOK, Abort
<1>4. \A q \in Requests : HandlerOK(q)' /\ SnapshotOK(q)'
  BY <1>3 DEF IInv, TypeOK, Abort, HandlerOK, SnapshotOK, Type, AmountOf, VersionMatches
<1> QED
  BY <1>1, <1>2, <1>4 DEF IInv, TypeOK, Abort

LEMMA NextKeepsInvariant == IInv /\ [Next]_vars => IInv'
<1> SUFFICES ASSUME IInv, [Next]_vars PROVE IInv'
  OBVIOUS
<1>1. CASE UNCHANGED vars
  BY <1>1 DEF vars, IInv, TypeOK, HandlerOK, SnapshotOK, Type, AmountOf, VersionMatches
<1>2. ASSUME NEW p \in Requests, Update(p) PROVE IInv'
  BY <1>2, UpdateCases, QuitKeepsInvariant, CommitKeepsInvariant
<1> QED
  BY <1>1, <1>2, FindKeepsInvariant, ReadKeepsInvariant, InsertKeepsInvariant,
     AbortKeepsInvariant DEF Next

-----------------------------------------------------------------------------
(* No stored balance leaves its column and no handler works with one: for every width
   of the columns, the receipts inserted first and the CHECKs keep mutate_wallet and
   cancel_bid within the range in which u64, i64 and INTEGER agree. *)
THEOREM TypeCorrect == Spec => []TypeOK
<1>1. IInv => TypeOK
  BY DEF IInv
<1> QED
  BY <1>1, InitInvariant, NextKeepsInvariant, PTL DEF Spec

LEMMA ExactStep ==
  ASSUME IInv, [Next]_vars, NEW o \in Wallets, wallets'[o] # wallets[o]
  PROVE  \E p \in Requests :
           /\ pc[p] = "update" /\ pc'[p] = "ok" /\ call[p].owner = o
           /\ wallets'[o] = Stored(Apply(Type(p), wallets[o], AmountOf(p)))
<1>1. wallets' # wallets
  OBVIOUS
<1>2. PICK p \in Requests : Update(p)
  BY <1>1 DEF Next, vars, CancelFind, Read, InsertReceipt, Abort, Quit
<1>3. Commits(p)
  BY <1>1, <1>2, UpdateCases DEF Quit
<1>4. call[p].owner = o
  BY <1>3 DEF Commits, IInv, TypeOK
<1> QED
  BY <1>3, <1>4, CommitIsExact DEF Commits, IInv, TypeOK

(* A wallet changes by exactly the amount a call asked for, in unbounded integers and
   applied to the row it replaces, for every width and every set of calls. *)
THEOREM MovesExactly == Spec => MovesAreExact
<1>1. IInv /\ [Next]_vars =>
        [\A o \in Wallets : wallets'[o] # wallets[o] =>
           \E p \in Requests :
             /\ pc[p] = "update" /\ pc'[p] = "ok" /\ call[p].owner = o
             /\ wallets'[o] = Stored(Apply(Type(p), wallets[o], AmountOf(p)))]_vars
  BY ExactStep
<1> QED
  BY <1>1, InitInvariant, NextKeepsInvariant, PTL DEF Spec, MovesAreExact
-----------------------------------------------------------------------------
(* The receipts and what they say of the calls.  A row is never changed, it carries what
   its call asked for, and a cancellation that got anywhere names a row of its caller. *)
RowOK(r) ==
  /\ receipts[r].owner = call[r].owner
  /\ call[r].op # "CANCEL" => receipts[r].amount = call[r].amount

CallOK(p) ==
  /\ pc[p] \in {"found", "receipt", "update", "ok"} /\ call[p].op = "CANCEL" =>
       /\ call[p].of \in DOMAIN receipts
       /\ receipts[call[p].of].owner = call[p].owner
  /\ pc[p] = "ok" => AmountOf(p) \in 0 .. ColumnMax
  /\ pc[p] \in {"update", "ok"} => p \in DOMAIN receipts /\ receipts[p] = Shown(p)

RowsInv == /\ IInv
           /\ \A r \in DOMAIN receipts : RowOK(r)
           /\ \A p \in Requests : CallOK(p)

(* What a statement other than a committing update leaves as it was. *)
LEMMA RowsStay ==
  ASSUME RowsInv, [Next]_vars
  PROVE  /\ call' = call /\ DOMAIN receipts \subseteq DOMAIN receipts'
         /\ \A r \in DOMAIN receipts : receipts'[r] = receipts[r]
         /\ \/ receipts' = receipts
            \/ \E p \in Requests :
                 /\ InsertReceipt(p) /\ p \notin DOMAIN receipts /\ receipts' = WithReceipt(p)
                 /\ ColumnAccepts(AsI64(AmountOf(p)))
<1>1. CASE receipts' = receipts /\ call' = call
  BY <1>1
<1>2. CASE ~(receipts' = receipts /\ call' = call)
  <2>1. PICK p \in Requests : InsertReceipt(p)
    BY <1>2 DEF Next, vars, CancelFind, Read, Update, Abort, Quit
  <2>2. /\ receipts' = WithReceipt(p) /\ call' = call
        /\ ColumnAccepts(AsI64(AmountOf(p)))
    BY <1>2, <2>1 DEF InsertReceipt, Quit
  <2>3. p \notin DOMAIN receipts
    BY <2>1 DEF RowsInv, IInv, TypeOK, HandlerOK, InsertReceipt
  <2> QED
    BY <2>1, <2>2, <2>3 DEF WithReceipt
<1> QED
  BY <1>1, <1>2

LEMMA AmountStays ==
  ASSUME RowsInv, [Next]_vars, NEW p \in Requests,
         call[p].op = "CANCEL" => call[p].of \in DOMAIN receipts
  PROVE  AmountOf(p)' = AmountOf(p) /\ Type(p)' = Type(p)
BY RowsStay DEF AmountOf, Type

(* A call is answered with success only by the statement that commits. *)
LEMMA Moving ==
  ASSUME IInv, [Next]_vars
  PROVE  \/ /\ wallets' = wallets
            /\ \A q \in Requests : pc'[q] = "ok" <=> pc[q] = "ok"
         \/ \E p \in Requests : Commits(p)
<1>1. CASE UNCHANGED vars
  BY <1>1 DEF vars
<1>2. ASSUME NEW p \in Requests, NEW o \in Outcomes \cup {"found"}, Quit(p, o), o # "ok",
             pc[p] # "ok"
      PROVE  wallets' = wallets /\ \A q \in Requests : pc'[q] = "ok" <=> pc[q] = "ok"
  BY <1>2 DEF Quit, IInv, TypeOK
<1>3. ASSUME NEW p \in Requests, CancelFind(p) \/ Read(p) \/ InsertReceipt(p) \/ Abort(p)
      PROVE  wallets' = wallets /\ \A q \in Requests : pc'[q] = "ok" <=> pc[q] = "ok"
  <2>1. /\ wallets' = wallets /\ pc[p] # "ok"
        /\ \E label \in {"found", "refused", "panicked", "receipt", "update", "aborted"} :
             pc' = [pc EXCEPT ![p] = label]
    BY <1>3 DEF CancelFind, Read, InsertReceipt, Abort, Quit
  <2> QED
    BY <2>1 DEF IInv, TypeOK
<1>4. ASSUME NEW p \in Requests, Update(p)
      PROVE  \/ /\ wallets' = wallets
                /\ \A q \in Requests : pc'[q] = "ok" <=> pc[q] = "ok"
             \/ Commits(p)
  <2>1. \/ Quit(p, "conflict") \/ Quit(p, "refused")
        \/ Commits(p)
    BY <1>4 DEF Update, Commits
  <2>2. pc[p] # "ok"
    BY <1>4 DEF Update
  <2> QED
    BY <1>2, <2>1, <2>2 DEF Outcomes
<1> QED
  BY <1>1, <1>3, <1>4 DEF Next

LEMMA RowsKept ==
  ASSUME RowsInv, [Next]_vars, NEW r \in DOMAIN receipts'
  PROVE  RowOK(r)'
<1>1. CASE r \in DOMAIN receipts
  BY <1>1, RowsStay DEF RowsInv, RowOK
<1>2. CASE r \notin DOMAIN receipts
  <2>0. PICK p \in Requests : /\ InsertReceipt(p) /\ receipts' = WithReceipt(p)
                             /\ ColumnAccepts(AsI64(AmountOf(p)))
    BY <1>2, RowsStay
  <2>1. /\ InsertReceipt(r) /\ receipts' = WithReceipt(r) /\ r \in Requests
        /\ ColumnAccepts(AsI64(AmountOf(r))) /\ call' = call
    <3>1. r = p
      BY <1>2, <2>0 DEF WithReceipt
    <3> QED
      BY <2>0, <3>1, RowsStay
  <2>2. receipts'[r].owner = call[r].owner /\ receipts'[r].amount = AsI64(AmountOf(r))
    BY <2>1 DEF WithReceipt
  <2>3. ASSUME call[r].op # "CANCEL" PROVE AsI64(AmountOf(r)) = call[r].amount
    <3>1. AmountOf(r) = call[r].amount /\ call[r].amount \in Amount
      BY <2>1, <2>3 DEF AmountOf, RowsInv, IInv, TypeOK, MutateCall, CancelCall
    <3> QED
      BY <2>1, <3>1, AcceptedAsIs
  <2> QED
    BY <2>1, <2>2, <2>3 DEF RowOK
<1> QED
  BY <1>1, <1>2

(* A call on its way to the update, or past it, has the receipt that shows its move. *)
LEMMA RowShown ==
  ASSUME RowsInv, [Next]_vars, NEW q \in Requests, pc'[q] \in {"update", "ok"}
  PROVE  q \in DOMAIN receipts' /\ receipts'[q] = Shown(q)'
<1>1. CASE pc[q] \in {"update", "ok"}
  <2>1. q \in DOMAIN receipts /\ receipts[q] = Shown(q)
    BY <1>1 DEF RowsInv, CallOK
  <2>2. AmountOf(q)' = AmountOf(q) /\ Type(q)' = Type(q)
    BY <1>1, AmountStays DEF RowsInv, CallOK
  <2> QED
    BY <2>1, <2>2, RowsStay DEF Shown
<1>2. CASE pc[q] \notin {"update", "ok"}
  <2>1. PICK p \in Requests :
          CancelFind(p) \/ Read(p) \/ InsertReceipt(p) \/ Update(p) \/ Abort(p)
    BY <1>2 DEF Next, vars
  <2>2. p = q
    BY <1>2, <2>1 DEF CancelFind, Read, InsertReceipt, Update, Abort, Quit, RowsInv, IInv, TypeOK
  <2>3. /\ InsertReceipt(q) /\ receipts' = WithReceipt(q) /\ call' = call
        /\ ColumnAccepts(AsI64(AmountOf(q)))
    BY <1>2, <2>1, <2>2 DEF CancelFind, Read, InsertReceipt, Update, Abort, Quit, RowsInv, IInv,
       TypeOK
  <2>4. AsI64(AmountOf(q)) = AmountOf(q)
    BY <2>3, AmountIsU64, AcceptedAsIs DEF RowsInv
  <2>5. call[q].op = "CANCEL" => call[q].of \in DOMAIN receipts
    BY <2>3 DEF RowsInv, IInv, TypeOK, HandlerOK, InsertReceipt
  <2>6. AmountOf(q)' = AmountOf(q) /\ Type(q)' = Type(q)
    BY <2>5, AmountStays
  <2> QED
    BY <2>3, <2>4, <2>6 DEF WithReceipt, Shown
<1> QED
  BY <1>1, <1>2

LEMMA CallsKept ==
  ASSUME RowsInv, [Next]_vars, NEW q \in Requests
  PROVE  CallOK(q)'
<1>s. call' = call
  BY RowsStay
<1>1. ASSUME pc'[q] \in {"found", "receipt", "update", "ok"}, call[q].op = "CANCEL"
      PROVE  call[q].of \in DOMAIN receipts /\ receipts[call[q].of].owner = call[q].owner
  <2>1. CASE pc[q] \in {"found", "receipt", "update", "ok"}
    BY <1>1, <2>1 DEF RowsInv, CallOK
  <2>2. CASE pc[q] \notin {"found", "receipt", "update", "ok"}
    <3>1. pc'[q] # pc[q]
      BY <1>1, <2>2
    <3>2. PICK p \in Requests :
            CancelFind(p) \/ Read(p) \/ InsertReceipt(p) \/ Update(p) \/ Abort(p)
      BY <3>1 DEF Next, vars
    <3>3. p = q
      BY <3>1, <3>2 DEF CancelFind, Read, InsertReceipt, Update, Abort, Quit, RowsInv, IInv,
         TypeOK
    <3>4. CancelFind(q)
      BY <1>1, <2>2, <3>2, <3>3 DEF Read, InsertReceipt, Update, Abort
    <3>5. Quit(q, "found") => call[q].of \in DOMAIN receipts
                                /\ receipts[call[q].of].owner = call[q].owner
      BY <1>1, <3>4 DEF CancelFind, Quit, RowsInv, IInv, TypeOK
    <3>6. ~Quit(q, "refused")
      BY <1>1 DEF Quit, RowsInv, IInv, TypeOK
    <3> QED
      BY <3>4, <3>5, <3>6 DEF CancelFind
  <2> QED
    BY <2>1, <2>2
<1>2. ASSUME pc'[q] = "ok" PROVE AmountOf(q)' \in 0 .. ColumnMax
  <2>1. AmountOf(q)' = AmountOf(q)
    BY <1>1, <1>2, AmountStays
  <2>2. pc[q] = "ok" \/ pc[q] = "update"
    <3>1. CASE \E p \in Requests : Commits(p)
      BY <1>2, <3>1 DEF Commits, RowsInv, IInv, TypeOK
    <3> QED
      BY <1>2, <3>1, Moving DEF RowsInv
  <2> QED
    BY <2>1, <2>2 DEF RowsInv, IInv, TypeOK, HandlerOK, CallOK
<1>3. ASSUME pc'[q] \in {"update", "ok"}
      PROVE  q \in DOMAIN receipts' /\ receipts'[q] = Shown(q)'
  BY <1>3, RowShown
<1> QED
  BY <1>s, <1>1, <1>2, <1>3, RowsStay DEF CallOK

LEMMA InitRows == Init => RowsInv
BY InitInvariant DEF Init, RowsInv, RowOK, CallOK

LEMMA NextRows == RowsInv /\ [Next]_vars => RowsInv'
<1> SUFFICES ASSUME RowsInv, [Next]_vars PROVE RowsInv'
  OBVIOUS
<1> QED
  BY NextKeepsInvariant, RowsKept, CallsKept DEF RowsInv

-----------------------------------------------------------------------------
(* The balances as sums over the calls answered with success. *)
ActiveOf(o) == [p \in Answered(o) |-> ActiveMove(Type(p), AmountOf(p))]
HeldOf(o) == [p \in Answered(o) |-> HeldMove(Type(p), AmountOf(p))]

BalancesInv == RowsInv /\ BalancesAreAnswers

LEMMA MovesAreInt ==
  ASSUME RowsInv, NEW o
  PROVE  /\ IsFiniteSet(Answered(o))
         /\ \A p \in Answered(o) : ActiveOf(o)[p] \in Int /\ HeldOf(o)[p] \in Int
<1>1. IsFiniteSet(Answered(o))
  BY RequestAssumption, FS_Subset DEF Answered
<1>2. \A p \in Answered(o) : AmountOf(p) \in Int
  BY Widths DEF Answered, RowsInv, CallOK
<1> QED
  BY <1>1, <1>2 DEF ActiveOf, HeldOf, ActiveMove, HeldMove

(* Nobody's answer and nobody's amount changes. *)
LEMMA AnswersStay ==
  ASSUME RowsInv, [Next]_vars, NEW o,
         \A q \in Requests : call[q].owner = o => (pc'[q] = "ok" <=> pc[q] = "ok")
  PROVE  Answered(o)' = Answered(o) /\ ActiveOf(o)' = ActiveOf(o) /\ HeldOf(o)' = HeldOf(o)
<1>1. Answered(o)' = Answered(o)
  BY RowsStay DEF Answered
<1>2. \A p \in Answered(o) : AmountOf(p)' = AmountOf(p) /\ Type(p)' = Type(p)
  BY AmountStays DEF Answered, RowsInv, CallOK
<1> QED
  BY <1>1, <1>2 DEF ActiveOf, HeldOf

(* A commit adds its call to the answers of its wallet. *)
LEMMA AnswersGrow ==
  ASSUME RowsInv, [Next]_vars, NEW p \in Requests, Commits(p), NEW o, o = call[p].owner
  PROVE  /\ p \notin Answered(o) /\ Answered(o)' = Answered(o) \cup {p}
         /\ SumFunctionOnSet(ActiveOf(o)', Answered(o)') =
              SumFunctionOnSet(ActiveOf(o), Answered(o)) + ActiveMove(Type(p), AmountOf(p))
         /\ SumFunctionOnSet(HeldOf(o)', Answered(o)') =
              SumFunctionOnSet(HeldOf(o), Answered(o)) + HeldMove(Type(p), AmountOf(p))
<1>1. /\ pc[p] = "update" /\ \A q \in Requests : pc'[q] = IF q = p THEN "ok" ELSE pc[q]
      /\ UNCHANGED <<receipts, call>>
  BY DEF Commits, RowsInv, IInv, TypeOK
<1>2. p \notin Answered(o) /\ Answered(o)' = Answered(o) \cup {p}
  BY <1>1 DEF Answered
<1>3. \A q : AmountOf(q)' = AmountOf(q) /\ Type(q)' = Type(q)
  BY <1>1 DEF AmountOf, Type
<1>4. /\ \A q \in Answered(o) : ActiveOf(o)'[q] = ActiveOf(o)[q] /\ HeldOf(o)'[q] = HeldOf(o)[q]
      /\ ActiveOf(o)'[p] = ActiveMove(Type(p), AmountOf(p))
      /\ HeldOf(o)'[p] = HeldMove(Type(p), AmountOf(p))
  BY <1>2, <1>3 DEF ActiveOf, HeldOf
<1>5. AmountOf(p) \in Int
  BY Widths DEF Commits, RowsInv, IInv, TypeOK, HandlerOK
<1>6. ActiveMove(Type(p), AmountOf(p)) \in Int /\ HeldMove(Type(p), AmountOf(p)) \in Int
  BY <1>5 DEF ActiveMove, HeldMove
<1> DEFINE S == Answered(o)
           f == ActiveOf(o)
           g == HeldOf(o)
           ff == ActiveOf(o)'
           gg == HeldOf(o)'
<1>7. /\ IsFiniteSet(S) /\ p \notin S
      /\ \A q \in S : f[q] \in Int /\ g[q] \in Int /\ ff[q] = f[q] /\ gg[q] = g[q]
      /\ ff[p] \in Int /\ gg[p] \in Int
  BY <1>2, <1>4, <1>6, MovesAreInt
<1>8. /\ SumFunctionOnSet(ff, S \cup {p}) = SumFunctionOnSet(f, S) + ff[p]
      /\ SumFunctionOnSet(gg, S \cup {p}) = SumFunctionOnSet(g, S) + gg[p]
  <2> HIDE DEF S, f, g, ff, gg
  <2> QED
    BY <1>7, SumExtend
<1> QED
  BY <1>2, <1>4, <1>8

LEMMA StoredBalances ==
  ASSUME NEW w \in WalletRow, NEW t, NEW a \in Int
  PROVE  /\ Stored(Apply(t, w, a)).active = w.active + ActiveMove(t, a)
         /\ Stored(Apply(t, w, a)).held = w.held + HeldMove(t, a)
<1> DEFINE x == w.active + ActiveMove(t, a)
           y == w.held + HeldMove(t, a)
           v == Apply(t, w, a)
<1>1. x \in Int /\ y \in Int /\ w \in Row
  BY Widths DEF WalletRow, Row, ActiveMove, HeldMove
<1> HIDE DEF x, y
<1>2. v \in Row /\ v.active = x /\ v.held = y
  BY <1>1, ApplyFields DEF x, y
<1> HIDE DEF v
<1>3. Stored(v).active = x /\ Stored(v).held = y
  BY <1>2 DEF Stored, Row
<1> QED
  BY <1>3 DEF x, y, v

LEMMA BalancesAre ==
  ASSUME BalancesAreAnswers, NEW o \in Wallets
  PROVE  /\ wallets[o].active = InitialActive + SumFunctionOnSet(ActiveOf(o), Answered(o))
         /\ wallets[o].held = InitialHeld + SumFunctionOnSet(HeldOf(o), Answered(o))
BY DEF BalancesAreAnswers, ActiveOf, HeldOf

LEMMA InitBalances == Init => BalancesInv
<1> SUFFICES ASSUME Init PROVE BalancesAreAnswers
  BY InitRows DEF BalancesInv
<1>1. \A o : Answered(o) = {}
  BY DEF Init, Answered
<1>2. \A o : \A f : SumFunctionOnSet(f, Answered(o)) = 0
  BY <1>1, SumEmpty
<1>3. \A o \in Wallets : wallets[o].active = InitialActive + 0 /\ wallets[o].held = InitialHeld + 0
  BY BoundsAssumption DEF Init
<1>4. \A p \in Requests : pc[p] # "ok"
  BY DEF Init
<1> QED
  BY <1>2, <1>3, <1>4 DEF BalancesAreAnswers

LEMMA NextBalances == BalancesInv /\ [Next]_vars => BalancesInv'
<1> SUFFICES ASSUME BalancesInv, [Next]_vars, NEW o \in Wallets
             PROVE  /\ wallets'[o].active =
                         InitialActive + SumFunctionOnSet(ActiveOf(o)', Answered(o)')
                    /\ wallets'[o].held =
                         InitialHeld + SumFunctionOnSet(HeldOf(o)', Answered(o)')
  <2>1. ASSUME BalancesInv, [Next]_vars PROVE RowsInv'
    BY <2>1, NextRows DEF BalancesInv
  <2>2. ASSUME BalancesInv, [Next]_vars, NEW p \in Requests, pc'[p] = "ok"
        PROVE  p \in DOMAIN receipts' /\ receipts'[p] = Shown(p)'
    BY <2>2, RowShown DEF BalancesInv
  <2> QED
    BY <2>1, <2>2 DEF BalancesInv, BalancesAreAnswers, ActiveOf, HeldOf
<1>1. ASSUME wallets'[o] = wallets[o],
             \A q \in Requests : call[q].owner = o => (pc'[q] = "ok" <=> pc[q] = "ok")
      PROVE  /\ wallets'[o].active =
                  InitialActive + SumFunctionOnSet(ActiveOf(o)', Answered(o)')
             /\ wallets'[o].held =
                  InitialHeld + SumFunctionOnSet(HeldOf(o)', Answered(o)')
  BY <1>1, AnswersStay, BalancesAre DEF BalancesInv
<1>2. CASE wallets' = wallets /\ \A q \in Requests : pc'[q] = "ok" <=> pc[q] = "ok"
  BY <1>1, <1>2
<1>3. ASSUME NEW p \in Requests, Commits(p)
      PROVE  /\ wallets'[o].active =
                  InitialActive + SumFunctionOnSet(ActiveOf(o)', Answered(o)')
             /\ wallets'[o].held =
                  InitialHeld + SumFunctionOnSet(HeldOf(o)', Answered(o)')
  <2>1. CASE call[p].owner # o
    <3>1. wallets'[o] = wallets[o]
      BY <1>3, <2>1 DEF Commits, BalancesInv, RowsInv, IInv, TypeOK
    <3>2. \A q \in Requests : call[q].owner = o => (pc'[q] = "ok" <=> pc[q] = "ok")
      BY <1>3, <2>1 DEF Commits, BalancesInv, RowsInv, IInv, TypeOK
    <3> QED
      BY <1>1, <3>1, <3>2
  <2>2. CASE call[p].owner = o
    <3>1. wallets'[o] = Stored(Apply(Type(p), wallets[o], AmountOf(p)))
      BY <1>3, <2>2, CommitIsExact DEF BalancesInv, RowsInv, IInv, TypeOK
    <3>2. wallets[o] \in WalletRow /\ AmountOf(p) \in Int
      BY <1>3, Widths DEF Commits, BalancesInv, RowsInv, IInv, TypeOK, HandlerOK
    <3>3. /\ wallets'[o].active = wallets[o].active + ActiveMove(Type(p), AmountOf(p))
          /\ wallets'[o].held = wallets[o].held + HeldMove(Type(p), AmountOf(p))
      BY <3>1, <3>2, StoredBalances
    <3>4. /\ SumFunctionOnSet(ActiveOf(o), Answered(o)) \in Int
          /\ SumFunctionOnSet(HeldOf(o), Answered(o)) \in Int
      BY MovesAreInt, SumInt DEF BalancesInv
    <3>5. ActiveMove(Type(p), AmountOf(p)) \in Int /\ HeldMove(Type(p), AmountOf(p)) \in Int
      BY <3>2 DEF ActiveMove, HeldMove
    <3>6. InitialActive \in Int /\ InitialHeld \in Int
      BY BoundsAssumption, Widths
    <3>7. /\ SumFunctionOnSet(ActiveOf(o)', Answered(o)') =
               SumFunctionOnSet(ActiveOf(o), Answered(o)) + ActiveMove(Type(p), AmountOf(p))
          /\ SumFunctionOnSet(HeldOf(o)', Answered(o)') =
               SumFunctionOnSet(HeldOf(o), Answered(o)) + HeldMove(Type(p), AmountOf(p))
      BY <1>3, <2>2, AnswersGrow DEF BalancesInv
    <3>8. /\ wallets[o].active = InitialActive + SumFunctionOnSet(ActiveOf(o), Answered(o))
          /\ wallets[o].held = InitialHeld + SumFunctionOnSet(HeldOf(o), Answered(o))
      BY BalancesAre DEF BalancesInv
    <3> QED
      BY <3>3, <3>4, <3>5, <3>6, <3>7, <3>8
  <2> QED
    BY <2>1, <2>2
<1> QED
  BY <1>2, <1>3, Moving DEF BalancesInv, RowsInv

(* Every balance is what the calls answered with success say, each counted once, for
   every width of the columns and however the calls overlap: no success is lost, and what
   was refused, in conflict or dropped has moved nothing. *)
THEOREM AnswersAddUp == Spec => []BalancesAreAnswers
<1>1. BalancesInv => BalancesAreAnswers
  BY DEF BalancesInv
<1> QED
  BY <1>1, InitBalances, NextBalances, PTL DEF Spec

-----------------------------------------------------------------------------
(* What clients that cancel only their own standing bids leave held: their calls pair off
   with the bids they cancel. *)
Bids(o) == {p \in Answered(o) : call[p].op \in {"BID", "HOLD"}}
StandingBids(o) == {p \in Bids(o) : CancelsOf(p) = {}}
CancelledBids(o) == Bids(o) \ StandingBids(o)
Cancels(o) == {q \in Answered(o) : call[q].op = "CANCEL"}
Cancelling(o) == [q \in Cancels(o) |-> call[q].of]

LEMMA BidHolds ==
  ASSUME RowsInv, NEW o, NEW p \in Bids(o)
  PROVE  /\ HeldOf(o)[p] = call[p].amount /\ AmountOf(p) = call[p].amount
         /\ call[p].amount \in 0 .. ColumnMax
BY DEF Bids, Answered, HeldOf, HeldMove, CreditsHeld, Type, AmountOf, RowsInv, CallOK

LEMMA CancelledBid ==
  ASSUME RowsInv, CancelsAreDisciplined, NEW o, NEW q \in Cancels(o)
  PROVE  /\ call[q].of \in CancelledBids(o) /\ CancelsOf(call[q].of) = {q}
         /\ HeldOf(o)[q] = -call[call[q].of].amount
<1> DEFINE p == call[q].of
<1>1. q \in Requests /\ pc[q] = "ok" /\ call[q].op = "CANCEL" /\ call[q].owner = o
  BY DEF Cancels, Answered
<1>2. p \in DOMAIN receipts /\ receipts[p].owner = o /\ p \in Requests
  BY <1>1 DEF RowsInv, CallOK, IInv, TypeOK
<1>3. call[p].op \in {"BID", "HOLD"} /\ pc[p] = "ok" /\ CancelsOf(p) = {q}
  BY <1>1 DEF CancelsAreDisciplined
<1>4. call[p].owner = o /\ receipts[p].amount = call[p].amount
  BY <1>2, <1>3 DEF RowsInv, RowOK
<1>5. p \in CancelledBids(o)
  BY <1>2, <1>3, <1>4 DEF CancelledBids, StandingBids, Bids, Answered
<1>6. AmountOf(q) = call[p].amount
  <2>1. call[p].amount \in 0 .. ColumnMax
    BY <1>5, BidHolds DEF CancelledBids
  <2> QED
    BY <1>1, <1>4, <2>1, ReadBack DEF AmountOf
<1>7. HeldOf(o)[q] = -AmountOf(q)
  BY <1>1 DEF HeldOf, HeldMove, Type, Answered, CreditsHeld, DebitsHeld
<1> QED
  BY <1>3, <1>5, <1>6, <1>7

LEMMA CancelOfBid ==
  ASSUME RowsInv, CancelsAreDisciplined, NEW o, NEW p \in CancelledBids(o)
  PROVE  \E q \in Cancels(o) : call[q].of = p
<1>1. PICK q \in CancelsOf(p) : TRUE
  BY DEF CancelledBids, StandingBids
<1>2. q \in Requests /\ pc[q] = "ok" /\ call[q].op = "CANCEL" /\ call[q].of = p
  BY <1>1 DEF CancelsOf
<1>3. p \in DOMAIN receipts /\ receipts[p].owner = call[q].owner
  BY <1>2 DEF RowsInv, CallOK
<1>4. call[q].owner = o
  BY <1>3 DEF RowsInv, RowOK, CancelledBids, Bids, Answered
<1> QED
  BY <1>2, <1>4 DEF Cancels, Answered

(* A bid and the call that cancels it come to nothing. *)
LEMMA PairsCancelOut ==
  ASSUME RowsInv, CancelsAreDisciplined, NEW o
  PROVE  /\ SumFunctionOnSet(HeldOf(o), CancelledBids(o)) \in Int
         /\ SumFunctionOnSet(HeldOf(o), CancelledBids(o))
              + SumFunctionOnSet(HeldOf(o), Cancels(o)) = 0
<1> DEFINE S == Cancels(o)
           f == HeldOf(o)
           h == Cancelling(o)
           g == [q \in S |-> call[call[q].of].amount]
           zero == [q \in S |-> 0]
<1>1. IsFiniteSet(S)
  BY MovesAreInt, FS_Subset DEF Cancels
<1>2. \A q \in S : /\ g[q] = f[h[q]] /\ g[q] \in Int /\ f[q] \in Int
                   /\ zero[q] = g[q] + f[q]
  <2> TAKE q \in S
  <2>1. call[q].of \in CancelledBids(o) /\ f[q] = -call[call[q].of].amount
    BY CancelledBid
  <2>2. f[call[q].of] = call[call[q].of].amount /\ call[call[q].of].amount \in Int
    BY <2>1, BidHolds, Widths DEF CancelledBids
  <2> HIDE DEF f
  <2> QED
    BY <2>1, <2>2 DEF Cancelling
<1>3. \A x \in S : \A y \in S : h[x] = h[y] => x = y
  <2> SUFFICES ASSUME NEW x \in S, NEW y \in S, h[x] = h[y] PROVE x = y
    OBVIOUS
  <2>1. CancelsOf(call[x].of) = {x} /\ CancelsOf(call[y].of) = {y}
    BY CancelledBid
  <2>2. call[x].of = call[y].of
    BY DEF Cancelling
  <2> QED
    BY <2>1, <2>2
<1>4. {h[q] : q \in S} = CancelledBids(o)
  <2>1. \A q \in S : h[q] \in CancelledBids(o)
    BY CancelledBid DEF Cancelling
  <2>2. \A p \in CancelledBids(o) : \E q \in S : h[q] = p
    BY CancelOfBid DEF Cancelling
  <2> QED
    BY <2>1, <2>2
<1> HIDE DEF S, f, h, g, zero
<1>5. SumFunctionOnSet(f, {h[q] : q \in S}) = SumFunctionOnSet(g, S)
  BY <1>1, <1>2, <1>3, SumImage
<1>6. SumFunctionOnSet(zero, S) = SumFunctionOnSet(g, S) + SumFunctionOnSet(f, S)
  BY <1>1, <1>2, SumPlus
<1>7. SumFunctionOnSet(zero, S) = 0
  BY <1>1, SumZero DEF zero
<1>8. SumFunctionOnSet(g, S) \in Int
  BY <1>1, <1>2, SumInt
<1> QED
  BY <1>4, <1>5, <1>6, <1>7, <1>8 DEF S, f

LEMMA HeldOfBids ==
  ASSUME RowsInv, CancelsAreDisciplined, NEW o
  PROVE  SumFunctionOnSet(HeldOf(o), Answered(o)) =
           SumFunctionOnSet([p \in StandingBids(o) |-> call[p].amount], StandingBids(o))
<1> DEFINE A == Answered(o)
           f == HeldOf(o)
           T == StandingBids(o)
           D == CancelledBids(o)
           C == Cancels(o)
           Rest == (A \ T) \ D
           Others == Rest \ C
<1>1. IsFiniteSet(A) /\ \A p \in A : f[p] \in Int
  BY MovesAreInt
<1>2. T \in SUBSET A /\ D \in SUBSET (A \ T) /\ C \in SUBSET Rest
  BY DEF StandingBids, CancelledBids, Cancels, Bids
<1>3. \A p \in Others : f[p] = 0
  <2> TAKE p \in Others
  <2>1. p \in Requests /\ pc[p] = "ok" /\ call[p].op \notin {"CANCEL", "BID", "HOLD"}
    BY DEF Answered, StandingBids, CancelledBids, Cancels, Bids
  <2>2. call[p].op \notin {"RELEASE", "CONVERT"}
    BY <2>1 DEF CancelsAreDisciplined, Type
  <2>3. call[p].op \in {"TOP_UP", "WITHDRAW"}
    BY <2>1, <2>2 DEF RowsInv, IInv, TypeOK, MutateCall, CancelCall, MutateTypes
  <2> QED
    BY <2>1, <2>3 DEF HeldOf, HeldMove, Type, CreditsHeld, DebitsHeld
<1>4. SumFunctionOnSet(f, T) = SumFunctionOnSet([p \in T |-> call[p].amount], T)
  <2>1. IsFiniteSet(T)
    BY <1>1, <1>2, FS_Subset
  <2>2. \A p \in T : f[p] = [x \in T |-> call[x].amount][p]
    BY BidHolds DEF StandingBids
  <2> HIDE DEF T, f
  <2> QED
    BY <2>1, <2>2, SumSame
<1>5. IsFiniteSet(T) /\ IsFiniteSet(A \ T) /\ IsFiniteSet(Rest) /\ IsFiniteSet(Others)
  BY <1>1, <1>2, FS_Subset
<1>6. SumFunctionOnSet(f, D) \in Int /\ SumFunctionOnSet(f, D) + SumFunctionOnSet(f, C) = 0
  BY PairsCancelOut
<1>7. SumFunctionOnSet(f, Others) = 0
  BY <1>3, <1>5, SumZero
<1>8. /\ Rest \in SUBSET A /\ A \ T \in SUBSET A /\ C \in SUBSET A
  BY <1>2
<1> HIDE DEF A, f, T, D, C, Rest, Others
<1>9. SumFunctionOnSet(f, A) = SumFunctionOnSet(f, T) + SumFunctionOnSet(f, A \ T)
  BY <1>1, <1>2, SumSplit
<1>10. SumFunctionOnSet(f, A \ T) = SumFunctionOnSet(f, D) + SumFunctionOnSet(f, Rest)
  <2>1. \A p \in A \ T : f[p] \in Int
    BY <1>1
  <2> QED
    BY <1>2, <1>5, <2>1, SumSplit DEF Rest
<1>11. SumFunctionOnSet(f, Rest) = SumFunctionOnSet(f, C) + SumFunctionOnSet(f, Others)
  <2>1. \A p \in Rest : f[p] \in Int
    BY <1>1, <1>8
  <2> QED
    BY <1>2, <1>5, <2>1, SumSplit DEF Others
<1>12. SumFunctionOnSet(f, T) \in Int /\ SumFunctionOnSet(f, C) \in Int
  <2>1. IsFiniteSet(C)
    BY <1>1, <1>8, FS_Subset
  <2>2. (\A p \in T : f[p] \in Int) /\ (\A p \in C : f[p] \in Int)
    BY <1>1, <1>2, <1>8
  <2> QED
    BY <1>5, <2>1, <2>2, SumInt
<1>13. SumFunctionOnSet(f, A) = SumFunctionOnSet(f, T)
  BY <1>6, <1>7, <1>9, <1>10, <1>11, <1>12
<1> QED
  BY <1>4, <1>13 DEF A, f, T

(* When clients cancel only bids of theirs that succeeded, each once, held covers every
   bid not cancelled, whoever cancels at the same time: cancel_bid gives back what a
   receipt of the caller's own says and no other. *)
THEOREM HeldCovers == Spec => []HeldCoversBids
<1>1. BalancesInv => HeldCoversBids
  <2> SUFFICES ASSUME BalancesInv, CancelsAreDisciplined, NEW o \in Wallets
               PROVE  wallets[o].held >= InitialHeld +
                        SumFunctionOnSet([p \in StandingBids(o) |-> call[p].amount],
                                         StandingBids(o))
    <3>1. \A o : {p \in Answered(o) : call[p].op \in {"BID", "HOLD"} /\ CancelsOf(p) = {}} =
                   StandingBids(o)
      BY DEF StandingBids, Bids
    <3> QED
      BY <3>1 DEF HeldCoversBids
  <2>1. wallets[o].held = InitialHeld + SumFunctionOnSet(HeldOf(o), Answered(o))
    BY BalancesAre DEF BalancesInv
  <2>2. SumFunctionOnSet(HeldOf(o), Answered(o)) =
          SumFunctionOnSet([p \in StandingBids(o) |-> call[p].amount], StandingBids(o))
    BY HeldOfBids DEF BalancesInv
  <2>3. wallets[o].held \in Int
    BY Widths DEF BalancesInv, RowsInv, IInv, TypeOK, WalletRow
  <2> QED
    BY <2>1, <2>2, <2>3
<1> QED
  BY <1>1, InitBalances, NextBalances, PTL DEF Spec
=============================================================================
