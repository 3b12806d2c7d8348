-------------------------- MODULE WalletHoldsProofs --------------------------
(***************************************************************************)
(* Proofs about WalletHolds, and about the answers of HoldApi, for every   *)
(* set of calls, every number of requests, wallets and holds, and every    *)
(* pool; the theorems named Serial... are about a pool of one connection.  *)
(***************************************************************************)
EXTENDS HoldApi, SumTheorems, TLAPS

-----------------------------------------------------------------------------
(* The domain operations keep a wallet a wallet. *)

LEMMA ApplyType ==
  ASSUME NEW t \in TransactionType, NEW w \in Wallet, NEW a \in Nat, Allowed(t, w, a)
  PROVE  Apply(t, w, a) \in Wallet
<1>1. t \in DebitsActive => w.active >= a
  BY DEF Allowed
<1>2. t \in DebitsHeld => w.held >= a
  BY DEF Allowed
<1>3. w.active \in Nat /\ w.held \in Nat
  BY DEF Wallet
<1>4. w.active + ActiveMove(t, a) \in Nat
  BY <1>1, <1>3 DEF ActiveMove
<1>5. w.held + HeldMove(t, a) \in Nat
  BY <1>2, <1>3 DEF HeldMove
<1> QED
  BY <1>4, <1>5 DEF Apply, Wallet

LEMMA StoredType ==
  ASSUME NEW w \in Wallet
  PROVE  Stored(w) \in Wallet /\ Stored(w).version = w.version + 1
BY DEF Stored, Wallet

LEMMA AmountsOfCalls ==
  Calls \subseteq {NoCall} \cup HoldCall \cup FinishCall \cup MutateCall
BY CallsAssumption
-----------------------------------------------------------------------------
(* Type correctness.  A handler that returns forgets its locals, so it keeps the
   invariant whatever it was doing. *)

LEMMA FinishLocals ==
  ASSUME TypeOK, NEW p \in Processes, NEW o \in Outcomes, Finish(p, o)
  PROVE  /\ pc' \in [Processes -> {"new", "idle"} \cup HoldPcs \cup ReleasePcs
                                     \cup ConvertPcs \cup MutatePcs \cup Outcomes]
         /\ pc'[p] \in {"idle"} \cup Outcomes
         /\ snap' \in [Processes -> Wallet]
         /\ siblings' \in [Processes -> SUBSET DOMAIN holds]
         /\ \A q \in Processes \ {p} :
              pc'[q] = pc[q] /\ snap'[q] = snap[q] /\ siblings'[q] = siblings[q]
<1>1. NewWallet \in Wallet
  BY DEF NewWallet, Wallet
<1> QED
  BY <1>1 DEF TypeOK, Finish

LEMMA QuitKeepsType ==
  ASSUME TypeOK, NEW p \in Processes, NEW o \in Outcomes, Quit(p, o)
  PROVE  TypeOK'
<1>1. \A q \in Processes : HandlerOK(q)'
  BY FinishLocals DEF Quit, TypeOK, HandlerOK, tables, HoldPcs, ReleasePcs, ConvertPcs,
     MutatePcs, Outcomes
<1> QED
  BY <1>1, FinishLocals DEF Quit, TypeOK, tables

LEMMA TypeStart ==
  ASSUME TypeOK, NEW p \in Processes, Start(p)
  PROVE  TypeOK'
<1>1. CASE \E o \in Outcomes : Quit(p, o)
  BY <1>1, QuitKeepsType
<1>2. CASE HoldLookup(p)
  <2>1. CASE GoTo(p, "holdWallet") /\ UNCHANGED <<tables, call, snap, siblings, todo, crashes>>
    <3>1. call[p] \in HoldCall
      BY <1>2 DEF HoldLookup, TypeOK, NoCall, FinishCall, MutateCall
    <3> QED
      BY <2>1, <3>1 DEF GoTo, TypeOK, HandlerOK, tables, HoldPcs, ReleasePcs, ConvertPcs,
         MutatePcs
  <2> QED
    BY <1>1, <1>2, <2>1 DEF HoldLookup, Outcomes
<1>3. CASE ReleaseLookup(p)
  <2>1. CASE /\ IsActive(call[p].hold) /\ GoTo(p, "releaseWallet")
             /\ UNCHANGED <<tables, call, snap, siblings, todo, crashes>>
    <3>1. call[p] \in FinishCall
      BY <1>3 DEF ReleaseLookup, TypeOK, NoCall, HoldCall, MutateCall
    <3> QED
      BY <2>1, <3>1 DEF GoTo, TypeOK, HandlerOK, IsActive, tables, HoldPcs, ReleasePcs,
         ConvertPcs, MutatePcs
  <2> QED
    BY <1>1, <1>3, <2>1 DEF ReleaseLookup, Outcomes
<1>4. CASE ConvertLookup(p)
  <2>1. CASE /\ IsActive(call[p].hold) /\ GoTo(p, "convertWallet")
             /\ UNCHANGED <<tables, call, snap, siblings, todo, crashes>>
    <3>1. call[p] \in FinishCall
      BY <1>4 DEF ConvertLookup, TypeOK, NoCall, HoldCall, MutateCall
    <3> QED
      BY <2>1, <3>1 DEF GoTo, TypeOK, HandlerOK, IsActive, tables, HoldPcs, ReleasePcs,
         ConvertPcs, MutatePcs
  <2> QED
    BY <1>1, <1>4, <2>1 DEF ConvertLookup, Outcomes
<1>5. CASE MutateRead(p)
  <2>1. call[p] \in MutateCall
    BY <1>5 DEF MutateRead, TypeOK, NoCall, HoldCall, FinishCall
  <2>2. wallets[call[p].wallet] \in Wallet
    BY <2>1 DEF TypeOK, MutateCall
  <2>3. CASE /\ Allowed(call[p].op, wallets[call[p].wallet], call[p].amount)
             /\ snap' = [snap EXCEPT ![p] = wallets[call[p].wallet]]
             /\ GoTo(p, "mutateLedger")
             /\ UNCHANGED <<tables, call, siblings, todo, crashes>>
    BY <2>1, <2>2, <2>3 DEF GoTo, TypeOK, HandlerOK, tables, HoldPcs, ReleasePcs,
       ConvertPcs, MutatePcs
  <2> QED
    BY <1>1, <1>5, <2>3 DEF MutateRead, Outcomes
<1> QED
  BY <1>2, <1>3, <1>4, <1>5 DEF Start

(* What the commit of a handler does to the tables, for the three kinds of writes
   that touch holds. *)
HoldCommit(p) ==
  /\ pc[p] = "holdWrite" /\ HoldWrite(p)
  /\ VersionMatches(p) /\ call[p].hold \notin DOMAIN holds
  /\ Replaced(snap[p], siblings[p], call[p].amount) \in Wallet
  /\ wallets' = [wallets EXCEPT ![call[p].wallet] =
                   Stored(Replaced(snap[p], siblings[p], call[p].amount))]
  /\ ledger' = Recorded(call[p].wallet, snap[p],
                        Replaced(snap[p], siblings[p], call[p].amount))
  /\ holds' = PlacedHolds(p)
  /\ Finish(p, "ok")
  /\ UNCHANGED <<expired, call, todo, crashes>>

FinishCommit(p, type, status) ==
  /\ VersionMatches(p)
  /\ wallets' = [wallets EXCEPT ![WalletOf(p)] =
                   Stored(Apply(type, snap[p], holds[call[p].hold].amount))]
  /\ ledger' = Recorded(WalletOf(p), snap[p],
                        Apply(type, snap[p], holds[call[p].hold].amount))
  /\ holds' = [holds EXCEPT ![call[p].hold].status = status]
  /\ Finish(p, "ok")
  /\ UNCHANGED <<expired, call, todo, crashes>>

(* Rows of table holds keep everything but their status, and stay in the table. *)
RowsKept ==
  /\ DOMAIN holds \subseteq DOMAIN holds'
  /\ DOMAIN holds' \subseteq HoldIds
  /\ holds' \in [DOMAIN holds' -> HoldRow]
  /\ \A h \in DOMAIN holds : /\ holds'[h].wallet = holds[h].wallet
                              /\ holds'[h].auction = holds[h].auction
                              /\ holds'[h].bid = holds[h].bid
                              /\ holds'[h].amount = holds[h].amount

LEMMA HoldWriteCases ==
  ASSUME NEW p \in Processes, HoldWrite(p)
  PROVE  (\E o \in Outcomes : Quit(p, o)) \/ HoldCommit(p)
BY DEF HoldWrite, HoldCommit, Outcomes

LEMMA FinishCases ==
  ASSUME NEW p \in Processes, NEW type, NEW status, FinishHold(p, type, status)
  PROVE  (\E o \in Outcomes : Quit(p, o)) \/ FinishCommit(p, type, status)
BY DEF FinishHold, FinishCommit, Outcomes

LEMMA HoldCommitRows ==
  ASSUME TypeOK, NEW p \in Processes, HoldCommit(p)
  PROVE  RowsKept /\ call[p] \in HoldCall
<1>1. call[p] \in HoldCall
  BY DEF HoldCommit, TypeOK, HandlerOK, HoldPcs
<1>2. /\ DOMAIN holds' = DOMAIN holds \cup {call[p].hold}
      /\ call[p].hold \in HoldIds \ DOMAIN holds
  BY <1>1 DEF HoldCommit, PlacedHolds, HoldCall
<1>3. \A h \in DOMAIN holds :
        holds'[h] = IF h \in siblings[p] THEN [holds[h] EXCEPT !.status = "RELEASED"]
                    ELSE holds[h]
  BY <1>2 DEF HoldCommit, PlacedHolds
<1>4. holds'[call[p].hold] \in HoldRow
  BY <1>1, <1>2 DEF HoldCommit, PlacedHolds, HoldCall, HoldRow
<1>5. \A h \in DOMAIN holds : holds[h] \in HoldRow
  BY DEF TypeOK
<1>6. \A h \in DOMAIN holds : holds'[h] \in HoldRow
  BY <1>3, <1>5 DEF HoldRow
<1>7. holds' = [h \in DOMAIN holds' |-> holds'[h]]
  BY <1>2 DEF HoldCommit, PlacedHolds
<1>8. holds' \in [DOMAIN holds' -> HoldRow]
  BY <1>2, <1>4, <1>6, <1>7
<1>9. DOMAIN holds' \subseteq HoldIds
  BY <1>2 DEF TypeOK
<1>10. \A h \in DOMAIN holds : /\ holds'[h].wallet = holds[h].wallet
                               /\ holds'[h].auction = holds[h].auction
                               /\ holds'[h].bid = holds[h].bid
                               /\ holds'[h].amount = holds[h].amount
  BY <1>3, <1>5 DEF HoldRow
<1> QED
  BY <1>1, <1>2, <1>8, <1>9, <1>10 DEF RowsKept

LEMMA FinishCommitRows ==
  ASSUME TypeOK, NEW p \in Processes, NEW type, NEW status \in {"RELEASED", "CONVERTED"},
         pc[p] \in ReleasePcs \cup ConvertPcs, FinishCommit(p, type, status)
  PROVE  /\ RowsKept
         /\ DOMAIN holds' = DOMAIN holds
         /\ call[p] \in FinishCall /\ call[p].hold \in DOMAIN holds
         /\ WalletOf(p) = holds[call[p].hold].wallet
<1>1. call[p] \in FinishCall /\ call[p].hold \in DOMAIN holds
  BY DEF TypeOK, HandlerOK
<1>2. WalletOf(p) = holds[call[p].hold].wallet
  BY <1>1 DEF WalletOf, FinishCall
<1>3. \A h \in DOMAIN holds : holds[h] \in HoldRow
  BY DEF TypeOK
<1>4. DOMAIN holds' = DOMAIN holds
  BY DEF FinishCommit
<1>5. \A h \in DOMAIN holds :
        holds'[h] = IF h = call[p].hold THEN [holds[h] EXCEPT !.status = status]
                    ELSE holds[h]
  BY DEF FinishCommit
<1>6. \A h \in DOMAIN holds : holds'[h] \in HoldRow
  BY <1>3, <1>5 DEF HoldRow
<1>7. holds' \in [DOMAIN holds' -> HoldRow]
  BY <1>4, <1>6 DEF FinishCommit, TypeOK
<1>8. \A h \in DOMAIN holds : /\ holds'[h].wallet = holds[h].wallet
                              /\ holds'[h].auction = holds[h].auction
                              /\ holds'[h].bid = holds[h].bid
                              /\ holds'[h].amount = holds[h].amount
  BY <1>3, <1>5 DEF HoldRow
<1> QED
  BY <1>1, <1>2, <1>4, <1>7, <1>8 DEF RowsKept, TypeOK

LEMMA RecordedType ==
  ASSUME TypeOK, NEW w \in Wallets, NEW old \in Wallet, NEW new \in Wallet
  PROVE  Recorded(w, old, new) \in [Wallets -> [active : Int, held : Int]]
<1>1. ledger[w] \in [active : Int, held : Int]
  BY DEF TypeOK
<1> QED
  BY <1>1 DEF Recorded, TypeOK, Wallet

(* What HandlerOK asks of the handlers that are not the one that commits. *)
LEMMA OthersKeepOK ==
  ASSUME TypeOK, NEW p \in Processes, RowsKept, Finish(p, "ok"), call' = call
  PROVE  \A q \in Processes : HandlerOK(q)'
<1>1. "ok" \in Outcomes
  BY DEF Outcomes
<1>2. HandlerOK(p)'
  BY <1>1, FinishLocals DEF HandlerOK, HoldPcs, ReleasePcs, ConvertPcs, MutatePcs, Outcomes
<1>3. ASSUME NEW q \in Processes \ {p}
      PROVE  HandlerOK(q)'
  <2>1. pc'[q] = pc[q] /\ snap'[q] = snap[q] /\ call'[q] = call[q]
    BY <1>1, <1>3, FinishLocals
  <2>2. HandlerOK(q)
    BY <1>3 DEF TypeOK
  <2> QED
    BY <2>1, <2>2 DEF HandlerOK, RowsKept, HoldPcs, ReleasePcs, ConvertPcs, MutatePcs
<1> QED
  BY <1>2, <1>3

LEMMA TypeCommit ==
  ASSUME TypeOK, NEW p \in Processes, RowsKept, Finish(p, "ok"),
         wallets' \in [Wallets -> Wallet],
         ledger' \in [Wallets -> [active : Int, held : Int]],
         UNCHANGED <<expired, call, todo, crashes>>
  PROVE  TypeOK'
<1>1. "ok" \in Outcomes
  BY DEF Outcomes
<1>2. \A q \in Processes : HandlerOK(q)'
  BY OthersKeepOK
<1>3. siblings' \in [Processes -> SUBSET DOMAIN holds']
  BY <1>1, FinishLocals DEF RowsKept
<1> QED
  BY <1>1, <1>2, <1>3, FinishLocals DEF TypeOK, RowsKept

LEMMA TypeFinishHold ==
  ASSUME TypeOK, NEW p \in Processes,
         NEW type \in {"RELEASE", "CONVERT"}, NEW status \in {"RELEASED", "CONVERTED"},
         pc[p] \in ReleasePcs \cup ConvertPcs,
         Allowed(type, snap[p], holds[call[p].hold].amount),
         FinishHold(p, type, status)
  PROVE  TypeOK'
<1>1. CASE \E o \in Outcomes : Quit(p, o)
  BY <1>1, QuitKeepsType
<1>2. CASE FinishCommit(p, type, status)
  <2>1. /\ RowsKept /\ call[p].hold \in DOMAIN holds
        /\ WalletOf(p) = holds[call[p].hold].wallet
    BY <1>2, FinishCommitRows
  <2>2. holds[call[p].hold].amount \in Nat /\ WalletOf(p) \in Wallets
    BY <2>1 DEF TypeOK, HoldRow
  <2>3. snap[p] \in Wallet
    BY DEF TypeOK
  <2>4. Apply(type, snap[p], holds[call[p].hold].amount) \in Wallet
    <3>1. type \in TransactionType
      BY DEF TransactionType
    <3> QED
      BY <2>2, <2>3, <3>1, ApplyType
  <2>5. wallets' \in [Wallets -> Wallet]
    BY <1>2, <2>4, StoredType DEF FinishCommit, TypeOK
  <2>6. ledger' \in [Wallets -> [active : Int, held : Int]]
    BY <1>2, <2>2, <2>3, <2>4, RecordedType DEF FinishCommit
  <2>7. Finish(p, "ok") /\ UNCHANGED <<expired, call, todo, crashes>>
    BY <1>2 DEF FinishCommit
  <2> QED
    BY <2>1, <2>5, <2>6, <2>7, TypeCommit
<1> QED
  BY <1>1, <1>2, FinishCases

LEMMA TypeReadWallet ==
  ASSUME TypeOK, NEW p \in Processes,
         \/ pc[p] = "releaseWallet" /\ ReadWalletFor(p, "RELEASE", "releaseWrite")
         \/ pc[p] = "convertWallet" /\ ReadWalletFor(p, "CONVERT", "convertWrite")
  PROVE  TypeOK'
<1>1. CASE \E o \in Outcomes : Quit(p, o)
  BY <1>1, QuitKeepsType
<1>2. call[p] \in FinishCall /\ call[p].hold \in DOMAIN holds
  BY DEF TypeOK, HandlerOK, ReleasePcs, ConvertPcs
<1>3. wallets[WalletOf(p)] \in Wallet
  BY <1>2 DEF TypeOK, WalletOf, FinishCall, HoldRow
<1>4. ASSUME NEW next \in {"releaseWrite", "convertWrite"}, NEW type,
             next = "releaseWrite" => type = "RELEASE",
             next = "convertWrite" => type = "CONVERT",
             Allowed(type, wallets[WalletOf(p)], holds[call[p].hold].amount),
             snap' = [snap EXCEPT ![p] = wallets[WalletOf(p)]], GoTo(p, next),
             UNCHANGED <<tables, call, siblings, todo, crashes>>
      PROVE  TypeOK'
  <2>1. snap' \in [Processes -> Wallet]
    BY <1>3, <1>4 DEF TypeOK
  <2>2. \A q \in Processes : HandlerOK(q)'
    BY <1>2, <1>4 DEF GoTo, TypeOK, HandlerOK, tables, HoldPcs, ReleasePcs, ConvertPcs, MutatePcs
  <2> QED
    BY <1>4, <2>1, <2>2 DEF GoTo, TypeOK, tables, ReleasePcs, ConvertPcs
<1> QED
  BY <1>1, <1>4 DEF ReadWalletFor, Outcomes

LEMMA TypeContinue ==
  ASSUME TypeOK, NEW p \in Processes, Continue(p)
  PROVE  TypeOK'
<1>1. CASE \E o \in Outcomes : Quit(p, o)
  BY <1>1, QuitKeepsType
<1>2. CASE HoldReadWallet(p)
  <2>1. call[p] \in HoldCall
    BY <1>2 DEF HoldReadWallet, TypeOK, HandlerOK, HoldPcs
  <2>2. wallets[WalletOf(p)] \in Wallet
    BY <2>1 DEF TypeOK, WalletOf, HoldCall
  <2> QED
    BY <1>2, <2>1, <2>2 DEF HoldReadWallet, GoTo, TypeOK, HandlerOK, tables, HoldPcs,
       ReleasePcs, ConvertPcs, MutatePcs
<1>3. CASE HoldReadSiblings(p)
  <2>1. CASE /\ siblings' = [siblings EXCEPT ![p] =
                               ActiveSiblings(call[p].wallet, call[p].auction)]
             /\ GoTo(p, "holdWrite")
             /\ UNCHANGED <<tables, call, snap, todo, crashes>>
    <3>1. ActiveSiblings(call[p].wallet, call[p].auction) \subseteq DOMAIN holds
      BY DEF ActiveSiblings
    <3> QED
      BY <1>3, <2>1, <3>1 DEF HoldReadSiblings, GoTo, TypeOK, HandlerOK, tables, HoldPcs,
         ReleasePcs, ConvertPcs, MutatePcs
  <2> QED
    BY <1>1, <1>3, <2>1 DEF HoldReadSiblings, Outcomes
<1>4. CASE HoldWrite(p)
  <2>1. CASE HoldCommit(p)
    <3>1. RowsKept /\ call[p] \in HoldCall
      BY <2>1, HoldCommitRows
    <3>2. wallets' \in [Wallets -> Wallet]
      BY <2>1, <3>1, StoredType DEF HoldCommit, TypeOK, HoldCall
    <3>3. ledger' \in [Wallets -> [active : Int, held : Int]]
      BY <2>1, <3>1, RecordedType DEF HoldCommit, TypeOK, HoldCall
    <3>4. Finish(p, "ok") /\ UNCHANGED <<expired, call, todo, crashes>>
      BY <2>1 DEF HoldCommit
    <3> QED
      BY <3>1, <3>2, <3>3, <3>4, TypeCommit
  <2> QED
    BY <1>1, <1>4, <2>1, HoldWriteCases
<1>5. CASE ReleaseReadWallet(p) \/ ConvertReadWallet(p)
  BY <1>5, TypeReadWallet DEF ReleaseReadWallet, ConvertReadWallet
<1>6. CASE ReleaseWrite(p)
  BY <1>6, TypeFinishHold DEF ReleaseWrite, TypeOK, HandlerOK, ReleasePcs
<1>7. CASE ConvertWrite(p)
  BY <1>7, TypeFinishHold DEF ConvertWrite, TypeOK, HandlerOK, ConvertPcs
<1>8. ASSUME pc[p] \in MutatePcs
      PROVE  /\ call[p] \in MutateCall
             /\ Apply(call[p].op, snap[p], call[p].amount) \in Wallet
  <2>1. call[p] \in MutateCall /\ Allowed(call[p].op, snap[p], call[p].amount)
    BY <1>8 DEF TypeOK, HandlerOK
  <2>2. call[p].op \in TransactionType /\ call[p].amount \in Nat /\ snap[p] \in Wallet
    BY <2>1 DEF MutateCall, TransactionType, TypeOK
  <2> QED
    BY <2>1, <2>2, ApplyType
<1>9. CASE MutateLedger(p)
  <2>1. pc[p] \in MutatePcs /\ snap[p] \in Wallet
    BY <1>9 DEF MutateLedger, MutatePcs, TypeOK
  <2>2. ledger' \in [Wallets -> [active : Int, held : Int]]
    BY <1>8, <1>9, <2>1, RecordedType DEF MutateLedger, MutateCall
  <2>3. \A q \in Processes : HandlerOK(q)'
    BY <1>9, <2>1 DEF MutateLedger, GoTo, TypeOK, HandlerOK, HoldPcs, ReleasePcs,
       ConvertPcs, MutatePcs
  <2> QED
    BY <1>9, <2>2, <2>3 DEF MutateLedger, GoTo, TypeOK, MutatePcs
<1>10. CASE MutateUpdate(p)
  <2>1. pc[p] \in MutatePcs
    BY <1>10 DEF MutateUpdate, MutatePcs
  <2>2. CASE /\ wallets' = [wallets EXCEPT ![call[p].wallet] =
                              Stored(Apply(call[p].op, snap[p], call[p].amount))]
             /\ Finish(p, "ok")
             /\ UNCHANGED <<holds, ledger, expired, call, todo, crashes>>
    <3>1. RowsKept
      BY <2>2 DEF RowsKept, TypeOK
    <3>2. wallets' \in [Wallets -> Wallet]
      BY <1>8, <2>1, <2>2, StoredType DEF TypeOK
    <3> QED
      BY <2>2, <3>1, <3>2, TypeCommit DEF TypeOK
  <2> QED
    BY <1>1, <1>10, <2>2 DEF MutateUpdate, Outcomes
<1> QED
  BY <1>2, <1>3, <1>4, <1>5, <1>6, <1>7, <1>9, <1>10 DEF Continue

LEMMA TypeInit == Init => TypeOK
<1> SUFFICES ASSUME Init PROVE TypeOK
  OBVIOUS
<1>1. NewWallet \in Wallet /\ [NewWallet EXCEPT !.active = InitialActive] \in Wallet
  BY BoundsAssumption DEF NewWallet, Wallet
<1>2. call \in [Processes -> {NoCall} \cup HoldCall \cup FinishCall \cup MutateCall]
  <2>1. PICK c \in [Requests -> Calls] :
          call = [p \in Processes |-> IF p = Worker THEN NoCall ELSE c[p]]
    BY DEF Init
  <2> QED
    BY <2>1, CallsAssumption DEF Processes
<1>3. \A p \in Processes : HandlerOK(p)
  BY DEF Init, HandlerOK, HoldPcs, ReleasePcs, ConvertPcs, MutatePcs
<1>4. holds \in [DOMAIN holds -> HoldRow] /\ DOMAIN holds \subseteq HoldIds
  BY DEF Init
<1> QED
  BY <1>1, <1>2, <1>3, <1>4, BoundsAssumption DEF Init, TypeOK

LEMMA TypeStep == TypeOK /\ [Next]_vars => TypeOK'
<1> SUFFICES ASSUME TypeOK, [Next]_vars PROVE TypeOK'
  OBVIOUS
<1>1. ASSUME NEW p \in Processes, Start(p) PROVE TypeOK'
  BY <1>1, TypeStart
<1>2. ASSUME NEW p \in Processes, Continue(p) PROVE TypeOK'
  BY <1>2, TypeContinue
<1>3. ASSUME NEW p \in Processes, Abort(p) PROVE TypeOK'
  <2>1. "aborted" \in Outcomes
    BY DEF Outcomes
  <2>2. \A q \in Processes : HandlerOK(q)'
    BY <1>3, <2>1, FinishLocals DEF Abort, TypeOK, HandlerOK, tables, HoldPcs, ReleasePcs,
       ConvertPcs, MutatePcs, Outcomes
  <2>3. crashes' \in 0 .. MaxCrashes
    BY <1>3, BoundsAssumption DEF Abort, TypeOK
  <2> QED
    BY <1>3, <2>1, <2>2, <2>3, FinishLocals DEF Abort, TypeOK, tables
<1>4. CASE WorkerTick
  BY <1>4 DEF WorkerTick, TypeOK, HandlerOK, IsActive, tables, locals
<1>5. CASE WorkerNext
  <2>1. PICK h \in todo : /\ todo' = todo \ {h}
                          /\ call' = [call EXCEPT ![Worker] = [op |-> "release", hold |-> h]]
    BY <1>5 DEF WorkerNext
  <2>2. [op |-> "release", hold |-> h] \in FinishCall
    BY DEF FinishCall, TypeOK
  <2>3. \A q \in Processes : HandlerOK(q)'
    BY <1>5, <2>1 DEF WorkerNext, GoTo, TypeOK, HandlerOK, tables, HoldPcs, ReleasePcs,
       ConvertPcs, MutatePcs
  <2> QED
    BY <1>5, <2>1, <2>2, <2>3 DEF WorkerNext, GoTo, TypeOK, tables
<1>6. ASSUME NEW h \in HoldIds, Expire(h) PROVE TypeOK'
  BY <1>6 DEF Expire, TypeOK, HandlerOK, locals
<1>7. CASE UNCHANGED vars
  BY <1>7 DEF vars, tables, locals, TypeOK, HandlerOK
<1> QED
  BY <1>1, <1>2, <1>3, <1>4, <1>5, <1>6, <1>7 DEF Next

(* The types of the tables and of the handlers' locals, and what every handler has
   established by the time it runs its next statement. *)
THEOREM TypeCorrect == Spec => []TypeOK
BY TypeInit, TypeStep, PTL DEF Spec

-----------------------------------------------------------------------------
(* The optimistic lock.  The three invariants hold together: a commit raises the
   version of its wallet, so no handler that read the wallet before can match it
   any more, and no commit touches holds of another wallet. *)

Lock == TypeOK /\ SnapshotCurrent /\ SiblingsCurrent /\ OneActivePerAuction

SnapshotOK(p) ==
  HoldsSnapshot(p) =>
    /\ snap[p].version <= wallets[WalletOf(p)].version
    /\ VersionMatches(p) => snap[p] = wallets[WalletOf(p)]

SiblingsOK(p) ==
  pc[p] = "holdWrite" /\ VersionMatches(p) =>
    siblings[p] = ActiveSiblings(call[p].wallet, call[p].auction)

LEMMA LockParts ==
  /\ SnapshotCurrent <=> \A p \in Processes : SnapshotOK(p)
  /\ SiblingsCurrent <=> \A p \in Processes : SiblingsOK(p)
BY DEF SnapshotCurrent, SnapshotOK, SiblingsCurrent, SiblingsOK

LEMMA LockPartsNext ==
  ASSUME TypeOK', OneActivePerAuction',
         \A p \in Processes : SnapshotOK(p)' /\ SiblingsOK(p)'
  PROVE  Lock'
BY DEF Lock, SnapshotCurrent, SnapshotOK, SiblingsCurrent, SiblingsOK

(* A handler that is not the one moving keeps its part while the tables stand. *)
LEMMA QuietHandler ==
  ASSUME NEW q \in Processes, UNCHANGED <<wallets, holds>>,
         pc'[q] = pc[q], call'[q] = call[q], snap'[q] = snap[q], siblings'[q] = siblings[q],
         SnapshotOK(q), SiblingsOK(q)
  PROVE  SnapshotOK(q)' /\ SiblingsOK(q)'
BY DEF SnapshotOK, SiblingsOK, HoldsSnapshot, VersionMatches, WalletOf, ActiveSiblings

(* A handler that has returned, or has not begun, has no part to keep. *)
LEMMA ReturnedHandler ==
  ASSUME NEW p \in Processes, pc'[p] \in {"new", "idle"} \cup Outcomes
  PROVE  SnapshotOK(p)' /\ SiblingsOK(p)'
BY DEF SnapshotOK, SiblingsOK, HoldsSnapshot, MutatePcs, Outcomes

LEMMA QuitKeepsLock ==
  ASSUME Lock, NEW p \in Processes, NEW o \in Outcomes, Quit(p, o)
  PROVE  Lock'
<1>1. TypeOK'
  BY QuitKeepsType DEF Lock
<1>2. SnapshotOK(p)' /\ SiblingsOK(p)'
  BY ReturnedHandler, FinishLocals DEF Quit, Lock
<1>3. ASSUME NEW q \in Processes \ {p} PROVE SnapshotOK(q)' /\ SiblingsOK(q)'
  <2>1. pc'[q] = pc[q] /\ snap'[q] = snap[q] /\ siblings'[q] = siblings[q] /\ call'[q] = call[q]
    BY FinishLocals DEF Quit, Lock
  <2>2. UNCHANGED <<wallets, holds>>
    BY DEF Quit, tables
  <2> QED
    BY <2>1, <2>2, QuietHandler, LockParts DEF Lock
<1>4. OneActivePerAuction'
  BY DEF Quit, tables, Lock, OneActivePerAuction
<1> QED
  BY <1>1, <1>2, <1>3, <1>4, LockPartsNext DEF Lock

(* A commit on wallet w, as the other handlers see it. *)
LEMMA OthersSeeCommit ==
  ASSUME Lock, NEW q \in Processes, NEW w \in Wallets, NEW row,
         pc'[q] = pc[q], call'[q] = call[q], snap'[q] = snap[q], siblings'[q] = siblings[q],
         wallets' = [wallets EXCEPT ![w] = row], row.version = wallets[w].version + 1,
         RowsKept,
         \A h \in DOMAIN holds' :
           (h \notin DOMAIN holds \/ holds'[h] # holds[h]) => holds'[h].wallet = w
  PROVE  SnapshotOK(q)' /\ SiblingsOK(q)'
<1> SUFFICES ASSUME HoldsSnapshot(q) PROVE SnapshotOK(q)' /\ SiblingsOK(q)'
  BY DEF SnapshotOK, SiblingsOK, HoldsSnapshot
<1>1. HandlerOK(q) /\ SnapshotOK(q) /\ SiblingsOK(q)
  BY LockParts DEF Lock, TypeOK
<1>2. WalletOf(q)' = WalletOf(q) /\ WalletOf(q) \in Wallets
  <2>1. CASE call[q] \in FinishCall /\ call[q].hold \in DOMAIN holds
    BY <2>1 DEF WalletOf, FinishCall, RowsKept, Lock, TypeOK, HoldRow
  <2>2. CASE call[q] \in HoldCall \cup MutateCall
    BY <2>2 DEF WalletOf, HoldCall, MutateCall
  <2> QED
    BY <1>1, <2>1, <2>2 DEF HandlerOK, HoldsSnapshot, HoldPcs, ReleasePcs, ConvertPcs
<1>3. snap[q].version \in Nat /\ \A v \in Wallets : wallets[v].version \in Nat
  BY DEF Lock, TypeOK, Wallet
<1>4. CASE WalletOf(q) = w
  <2>1. snap[q].version < wallets'[w].version
    BY <1>1, <1>3, <1>4 DEF SnapshotOK, Lock, TypeOK
  <2>2. ~VersionMatches(q)'
    BY <1>2, <1>3, <1>4, <2>1 DEF VersionMatches, Lock, TypeOK
  <2>3. snap'[q].version <= wallets'[WalletOf(q)'].version
    BY <1>2, <1>3, <1>4, <2>1 DEF Lock, TypeOK
  <2> QED
    BY <2>2, <2>3 DEF SnapshotOK, SiblingsOK
<1>5. CASE WalletOf(q) # w
  <2>1. wallets'[WalletOf(q)'] = wallets[WalletOf(q)]
    BY <1>2, <1>5 DEF Lock, TypeOK
  <2>2. SnapshotOK(q)'
    BY <1>1, <2>1 DEF SnapshotOK, HoldsSnapshot, VersionMatches
  <2>3. SiblingsOK(q)'
    <3>1. SUFFICES ASSUME pc[q] = "holdWrite", VersionMatches(q)
                   PROVE  siblings[q] = ActiveSiblings(call[q].wallet, call[q].auction)'
      BY <2>1 DEF SiblingsOK, VersionMatches
    <3>2. call[q].wallet # w
      BY <1>1, <1>5, <3>1 DEF HandlerOK, HoldPcs, HoldCall, WalletOf
    <3>3. ActiveSiblings(call[q].wallet, call[q].auction)'
            = ActiveSiblings(call[q].wallet, call[q].auction)
      BY <3>2 DEF ActiveSiblings, RowsKept
    <3> QED
      BY <1>1, <3>1, <3>3 DEF SiblingsOK
  <2> QED
    BY <2>2, <2>3
<1> QED
  BY <1>4, <1>5

(* The invariant after a commit by p on wallet w. *)
LEMMA LockCommit ==
  ASSUME Lock, TypeOK', OneActivePerAuction',
         NEW p \in Processes, NEW w \in Wallets, NEW row,
         Finish(p, "ok"), call' = call,
         wallets' = [wallets EXCEPT ![w] = row], row.version = wallets[w].version + 1,
         RowsKept,
         \A h \in DOMAIN holds' :
           (h \notin DOMAIN holds \/ holds'[h] # holds[h]) => holds'[h].wallet = w
  PROVE  Lock'
<1>1. "ok" \in Outcomes
  BY DEF Outcomes
<1>2. SnapshotOK(p)' /\ SiblingsOK(p)'
  BY <1>1, FinishLocals, ReturnedHandler DEF Lock
<1>3. ASSUME NEW q \in Processes \ {p} PROVE SnapshotOK(q)' /\ SiblingsOK(q)'
  <2>1. pc'[q] = pc[q] /\ snap'[q] = snap[q] /\ siblings'[q] = siblings[q] /\ call'[q] = call[q]
    BY <1>1, FinishLocals DEF Lock
  <2> QED
    BY <2>1, OthersSeeCommit
<1> QED
  BY <1>2, <1>3, LockPartsNext

(* What a handler that commits had read is the row it replaces. *)
LEMMA CommitterCurrent ==
  ASSUME Lock, NEW p \in Processes, HoldsSnapshot(p), VersionMatches(p)
  PROVE  snap[p] = wallets[WalletOf(p)]
BY DEF Lock, SnapshotCurrent

LEMMA LockHoldCommit ==
  ASSUME Lock, TypeOK', NEW p \in Processes, HoldCommit(p)
  PROVE  Lock'
<1> DEFINE w == call[p].wallet
           new == Replaced(snap[p], siblings[p], call[p].amount)
<1>1. RowsKept /\ call[p] \in HoldCall
  BY HoldCommitRows DEF Lock
<1>2. w \in Wallets /\ WalletOf(p) = w
  BY <1>1 DEF HoldCall, WalletOf
<1>3. siblings[p] = ActiveSiblings(w, call[p].auction)
  BY DEF HoldCommit, Lock, SiblingsCurrent
<1>4. Stored(new).version = wallets[w].version + 1
  <2>1. new.version = snap[p].version
    BY DEF Replaced, Released, Apply, HoldCommit, Lock, TypeOK, Wallet
  <2>2. snap[p].version = wallets[w].version
    BY <1>2 DEF HoldCommit, VersionMatches
  <2> QED
    BY <2>1, <2>2, StoredType DEF HoldCommit
<1>5. /\ DOMAIN holds' = DOMAIN holds \cup {call[p].hold}
      /\ holds'[call[p].hold].wallet = w
      /\ holds'[call[p].hold].auction = call[p].auction
      /\ \A h \in DOMAIN holds :
           holds'[h] = IF h \in siblings[p] THEN [holds[h] EXCEPT !.status = "RELEASED"]
                       ELSE holds[h]
  BY DEF HoldCommit, PlacedHolds
<1>6. \A h \in DOMAIN holds' :
        (h \notin DOMAIN holds \/ holds'[h] # holds[h]) => holds'[h].wallet = w
  <2>1. \A h \in siblings[p] : holds[h].wallet = w
    BY <1>3 DEF ActiveSiblings
  <2> QED
    BY <1>1, <1>5, <2>1 DEF RowsKept
<1>7. OneActivePerAuction'
  <2>1. SUFFICES ASSUME NEW g \in DOMAIN holds', NEW h \in DOMAIN holds',
                        holds'[g].status = "ACTIVE", holds'[h].status = "ACTIVE",
                        holds'[g].wallet = holds'[h].wallet,
                        holds'[g].auction = holds'[h].auction, g # h
                 PROVE  FALSE
    BY DEF OneActivePerAuction
  <2>2. \A k \in DOMAIN holds : holds'[k].status = "ACTIVE" =>
          holds[k].status = "ACTIVE" /\ k \notin siblings[p]
    BY <1>5 DEF Lock, TypeOK, HoldRow
  <2>3. CASE g \in DOMAIN holds /\ h \in DOMAIN holds
    BY <1>1, <2>1, <2>2, <2>3 DEF Lock, OneActivePerAuction, RowsKept
  <2>4. \A k \in DOMAIN holds : holds'[k].status = "ACTIVE" /\ holds'[k].wallet = w =>
          holds'[k].auction # call[p].auction
    BY <1>1, <1>3, <2>2 DEF ActiveSiblings, RowsKept
  <2>5. CASE g = call[p].hold \/ h = call[p].hold
    BY <1>5, <2>1, <2>4, <2>5
  <2> QED
    BY <1>5, <2>3, <2>5
<1> QED
  <2>1. Finish(p, "ok") /\ call' = call /\ wallets' = [wallets EXCEPT ![w] = Stored(new)]
    BY DEF HoldCommit
  <2> QED
    BY <1>1, <1>2, <1>4, <1>6, <1>7, <2>1, LockCommit

LEMMA LockFinishCommit ==
  ASSUME Lock, TypeOK', NEW p \in Processes, pc[p] \in ReleasePcs \cup ConvertPcs,
         NEW type, NEW status \in {"RELEASED", "CONVERTED"}, FinishCommit(p, type, status)
  PROVE  Lock'
<1> DEFINE w == WalletOf(p)
           new == Apply(type, snap[p], holds[call[p].hold].amount)
<1>1. /\ RowsKept /\ DOMAIN holds' = DOMAIN holds
      /\ call[p].hold \in DOMAIN holds /\ w = holds[call[p].hold].wallet
  BY FinishCommitRows DEF Lock
<1>2. w \in Wallets
  BY <1>1 DEF Lock, TypeOK, HoldRow
<1>3. \A h \in DOMAIN holds :
        holds'[h] = IF h = call[p].hold THEN [holds[h] EXCEPT !.status = status] ELSE holds[h]
  BY DEF FinishCommit
<1>4. Stored(new).version = wallets[w].version + 1
  BY DEF FinishCommit, VersionMatches, Stored, Apply, Lock, TypeOK, Wallet
<1>5. \A h \in DOMAIN holds' :
        (h \notin DOMAIN holds \/ holds'[h] # holds[h]) => holds'[h].wallet = w
  BY <1>1, <1>3 DEF RowsKept
<1>6. OneActivePerAuction'
  <2>1. \A k \in DOMAIN holds : holds'[k].status = "ACTIVE" => holds[k].status = "ACTIVE"
    BY <1>3 DEF Lock, TypeOK, HoldRow
  <2> QED
    BY <1>1, <2>1 DEF Lock, OneActivePerAuction, RowsKept
<1> QED
  <2>1. Finish(p, "ok") /\ call' = call /\ wallets' = [wallets EXCEPT ![w] = Stored(new)]
    BY DEF FinishCommit
  <2> QED
    BY <1>1, <1>2, <1>4, <1>5, <1>6, <2>1, LockCommit

LEMMA LockInit == Init => Lock
<1> SUFFICES ASSUME Init PROVE Lock
  OBVIOUS
<1>1. SnapshotCurrent /\ SiblingsCurrent
  BY DEF Init, SnapshotCurrent, SiblingsCurrent, HoldsSnapshot, MutatePcs
<1>2. OneActivePerAuction
  BY DEF Init, OneActivePerAuction
<1> QED
  BY <1>1, <1>2, TypeInit DEF Lock

(* A statement that only reads, or only writes the history: the one that moves
   either has just read the row, or keeps what it had. *)
LEMMA LockQuiet ==
  ASSUME Lock, TypeOK', NEW p \in Processes, UNCHANGED <<wallets, holds>>,
         \A q \in Processes \ {p} : /\ pc'[q] = pc[q] /\ call'[q] = call[q]
                                    /\ snap'[q] = snap[q] /\ siblings'[q] = siblings[q],
         SnapshotOK(p)' /\ SiblingsOK(p)'
  PROVE  Lock'
<1>1. ASSUME NEW q \in Processes \ {p} PROVE SnapshotOK(q)' /\ SiblingsOK(q)'
  BY QuietHandler, LockParts DEF Lock
<1>2. OneActivePerAuction'
  BY DEF Lock, OneActivePerAuction
<1> QED
  BY <1>1, <1>2, LockPartsNext

LEMMA LockContinue ==
  ASSUME Lock, TypeOK', NEW p \in Processes, Continue(p)
  PROVE  Lock'
<1>0. TypeOK /\ SnapshotOK(p) /\ SiblingsOK(p)
  BY LockParts DEF Lock
<1>1. CASE \E o \in Outcomes : Quit(p, o)
  BY <1>1, QuitKeepsLock
<1>2. CASE HoldReadWallet(p)
  <2>1. SnapshotOK(p)' /\ SiblingsOK(p)'
    BY <1>0, <1>2 DEF HoldReadWallet, GoTo, TypeOK, HandlerOK, HoldPcs, HoldCall, tables,
       SnapshotOK, SiblingsOK, WalletOf, Wallet
  <2> QED
    BY <1>0, <1>2, <2>1, LockQuiet DEF HoldReadWallet, GoTo, TypeOK, tables
<1>3. CASE HoldReadSiblings(p)
  <2>1. CASE /\ siblings' = [siblings EXCEPT ![p] =
                               ActiveSiblings(call[p].wallet, call[p].auction)]
             /\ GoTo(p, "holdWrite")
             /\ UNCHANGED <<tables, call, snap, todo, crashes>>
    <3>1. SnapshotOK(p)' /\ SiblingsOK(p)'
      BY <1>0, <1>3, <2>1 DEF HoldReadSiblings, GoTo, TypeOK, tables, SnapshotOK, SiblingsOK,
         HoldsSnapshot, WalletOf, VersionMatches, ActiveSiblings
    <3> QED
      BY <1>0, <2>1, <3>1, LockQuiet DEF GoTo, TypeOK, tables
  <2> QED
    BY <1>1, <1>3, <2>1 DEF HoldReadSiblings, Outcomes
<1>4. CASE HoldWrite(p)
  BY <1>1, <1>4, HoldWriteCases, LockHoldCommit
<1>5. CASE ReleaseReadWallet(p) \/ ConvertReadWallet(p)
  <2>1. ASSUME NEW next \in {"releaseWrite", "convertWrite"},
               snap' = [snap EXCEPT ![p] = wallets[WalletOf(p)]], GoTo(p, next),
               UNCHANGED <<tables, call, siblings, todo, crashes>>
        PROVE  Lock'
    <3>1. call[p] \in FinishCall /\ call[p].hold \in DOMAIN holds
      BY <1>0, <1>5 DEF TypeOK, HandlerOK, ReleaseReadWallet, ConvertReadWallet, ReleasePcs,
         ConvertPcs
    <3>2. WalletOf(p) \in Wallets
      BY <1>0, <3>1 DEF TypeOK, WalletOf, FinishCall, HoldRow
    <3>3. WalletOf(p)' = WalletOf(p)
      BY <2>1 DEF WalletOf, tables
    <3>4. SnapshotOK(p)' /\ SiblingsOK(p)'
      BY <1>0, <2>1, <3>2, <3>3 DEF GoTo, TypeOK, tables, SnapshotOK, SiblingsOK, Wallet
    <3> QED
      BY <1>0, <2>1, <3>4, LockQuiet DEF GoTo, TypeOK, tables
  <2> QED
    BY <1>1, <1>5, <2>1 DEF ReleaseReadWallet, ConvertReadWallet, ReadWalletFor, Outcomes
<1>6. CASE ReleaseWrite(p)
  BY <1>1, <1>6, FinishCases, LockFinishCommit DEF ReleaseWrite, ReleasePcs
<1>7. CASE ConvertWrite(p)
  BY <1>1, <1>7, FinishCases, LockFinishCommit DEF ConvertWrite, ConvertPcs
<1>8. CASE MutateLedger(p)
  <2>1. SnapshotOK(p)' /\ SiblingsOK(p)'
    BY <1>0, <1>8 DEF MutateLedger, GoTo, TypeOK, SnapshotOK, SiblingsOK, HoldsSnapshot,
       MutatePcs, WalletOf, VersionMatches
  <2> QED
    BY <1>0, <1>8, <2>1, LockQuiet DEF MutateLedger, GoTo, TypeOK
<1>9. CASE MutateUpdate(p)
  <2>1. CASE /\ VersionMatches(p)
             /\ wallets' = [wallets EXCEPT ![call[p].wallet] =
                              Stored(Apply(call[p].op, snap[p], call[p].amount))]
             /\ Finish(p, "ok")
             /\ UNCHANGED <<holds, ledger, expired, call, todo, crashes>>
    <3>1. call[p] \in MutateCall
      BY <1>0, <1>9 DEF MutateUpdate, TypeOK, HandlerOK, MutatePcs
    <3>2. call[p].wallet \in Wallets /\ WalletOf(p) = call[p].wallet
      BY <3>1 DEF MutateCall, WalletOf
    <3>3. Stored(Apply(call[p].op, snap[p], call[p].amount)).version
            = wallets[call[p].wallet].version + 1
      BY <1>0, <2>1, <3>2 DEF VersionMatches, Stored, Apply, TypeOK, Wallet
    <3>4. RowsKept
      BY <1>0, <2>1 DEF RowsKept, TypeOK
    <3>5. OneActivePerAuction'
      BY <2>1 DEF Lock, OneActivePerAuction
    <3> QED
      BY <2>1, <3>2, <3>3, <3>4, <3>5, LockCommit
  <2> QED
    BY <1>1, <1>9, <2>1 DEF MutateUpdate, Outcomes
<1> QED
  BY <1>2, <1>3, <1>4, <1>5, <1>6, <1>7, <1>8, <1>9 DEF Continue

LEMMA LockStart ==
  ASSUME Lock, TypeOK', NEW p \in Processes, Start(p)
  PROVE  Lock'
<1>0. TypeOK
  BY DEF Lock
<1>1. CASE \E o \in Outcomes : Quit(p, o)
  BY <1>1, QuitKeepsLock
<1>2. ASSUME NEW label \in {"holdWallet", "releaseWallet", "convertWallet"}, GoTo(p, label),
             UNCHANGED <<tables, call, snap, siblings, todo, crashes>>
      PROVE  Lock'
  <2>1. SnapshotOK(p)' /\ SiblingsOK(p)'
    BY <1>0, <1>2 DEF GoTo, TypeOK, SnapshotOK, SiblingsOK, HoldsSnapshot, MutatePcs
  <2> QED
    BY <1>0, <1>2, <2>1, LockQuiet DEF GoTo, TypeOK, tables
<1>3. ASSUME call[p].op \in {"TOP_UP", "WITHDRAW", "BID"}, pc[p] = "new",
             snap' = [snap EXCEPT ![p] = wallets[call[p].wallet]], GoTo(p, "mutateLedger"),
             UNCHANGED <<tables, call, siblings, todo, crashes>>
      PROVE  Lock'
  <2>1. call[p] \in MutateCall
    BY <1>0, <1>3 DEF TypeOK, NoCall, HoldCall, FinishCall
  <2>2. WalletOf(p) = call[p].wallet /\ WalletOf(p)' = WalletOf(p) /\ WalletOf(p) \in Wallets
    BY <1>3, <2>1 DEF WalletOf, MutateCall, tables
  <2>3. SnapshotOK(p)' /\ SiblingsOK(p)'
    BY <1>0, <1>3, <2>2 DEF GoTo, TypeOK, tables, SnapshotOK, SiblingsOK, Wallet
  <2> QED
    BY <1>0, <1>3, <2>3, LockQuiet DEF GoTo, TypeOK, tables
<1> QED
  BY <1>1, <1>2, <1>3 DEF Start, HoldLookup, ReleaseLookup, ConvertLookup, MutateRead, Outcomes

LEMMA LockStep == Lock /\ [Next]_vars => Lock'
<1> SUFFICES ASSUME Lock, [Next]_vars PROVE Lock'
  OBVIOUS
<1>0. TypeOK /\ TypeOK'
  BY TypeStep DEF Lock
<1>1. ASSUME NEW p \in Processes, Start(p) PROVE Lock'
  BY <1>0, <1>1, LockStart
<1>2. ASSUME NEW p \in Processes, Continue(p) PROVE Lock'
  BY <1>0, <1>2, LockContinue
<1>3. ASSUME NEW p \in Processes, Abort(p) PROVE Lock'
  <2>1. "aborted" \in Outcomes
    BY DEF Outcomes
  <2>2. SnapshotOK(p)' /\ SiblingsOK(p)'
    BY <1>0, <1>3, <2>1, FinishLocals, ReturnedHandler DEF Abort
  <2>3. \A q \in Processes \ {p} : /\ pc'[q] = pc[q] /\ call'[q] = call[q]
                                   /\ snap'[q] = snap[q] /\ siblings'[q] = siblings[q]
    BY <1>0, <1>3, <2>1, FinishLocals DEF Abort
  <2> QED
    BY <1>0, <1>3, <2>2, <2>3, LockQuiet DEF Abort, tables
<1>4. CASE WorkerTick \/ \E h \in HoldIds : Expire(h)
  <2>1. UNCHANGED <<wallets, holds, locals>>
    BY <1>4 DEF WorkerTick, Expire, tables
  <2> QED
    BY <1>0, <2>1 DEF locals, Lock, SnapshotCurrent, SiblingsCurrent, OneActivePerAuction,
       HoldsSnapshot, VersionMatches, WalletOf, ActiveSiblings
<1>5. CASE WorkerNext
  <2>1. Worker \in Processes
    BY DEF Processes
  <2>2. PICK h \in todo : call' = [call EXCEPT ![Worker] = [op |-> "release", hold |-> h]]
    BY <1>5 DEF WorkerNext
  <2>3. SnapshotOK(Worker)' /\ SiblingsOK(Worker)'
    BY <1>0, <1>5, <2>1, ReturnedHandler DEF WorkerNext, GoTo, TypeOK
  <2> QED
    BY <1>0, <1>5, <2>1, <2>2, <2>3, LockQuiet DEF WorkerNext, GoTo, TypeOK, tables
<1>6. CASE UNCHANGED vars
  BY <1>0, <1>6 DEF vars, tables, locals, Lock, SnapshotCurrent, SiblingsCurrent,
     OneActivePerAuction, HoldsSnapshot, VersionMatches, WalletOf, ActiveSiblings
<1> QED
  BY <1>1, <1>2, <1>3, <1>4, <1>5, <1>6 DEF Next

LEMMA LockInvariant == Spec => []Lock
BY LockInit, LockStep, PTL DEF Spec

(* The version check of every UPDATE detects every change made since the handler read
   the row and the ACTIVE siblings, whatever the number of connections. *)
THEOREM SnapshotsDetectChange == Spec => []ReadsCurrent
<1>1. Lock => ReadsCurrent
  BY DEF Lock, ReadsCurrent
<1> QED
  BY <1>1, LockInvariant, PTL

(* A wallet never has two ACTIVE holds in one auction, whatever the number of
   connections: hold_funds replaces what it finds, and the version tells when it
   found too little. *)
THEOREM AtMostOneActive == Spec => []OneActivePerAuction
<1>1. Lock => OneActivePerAuction
  BY DEF Lock
<1> QED
  BY <1>1, LockInvariant, PTL

-----------------------------------------------------------------------------
(* No lost update. *)

LEMMA StoredRow ==
  ASSUME NEW w \in Wallets, TypeOK, NEW row,
         wallets' = [wallets EXCEPT ![w] = row]
  PROVE  wallets'[w] = row
BY DEF TypeOK

LEMMA CommitWrites ==
  ASSUME Lock, TypeOK', NEW p \in Processes, Continue(p), Commits(p)
  PROVE  LET w == WalletOf(p) IN
         wallets'[w] = Stored(
           CASE pc[p] = "holdWrite" ->
                  Replaced(wallets[w], ActiveSiblings(w, call[p].auction), call[p].amount)
             [] pc[p] = "releaseWrite" ->
                  Apply("RELEASE", wallets[w], holds[call[p].hold].amount)
             [] pc[p] = "convertWrite" ->
                  Apply("CONVERT", wallets[w], holds[call[p].hold].amount)
             [] OTHER -> Apply(call[p].op, wallets[w], call[p].amount))
<1> DEFINE w == WalletOf(p)
<1>0. TypeOK /\ HandlerOK(p)
  BY DEF Lock, TypeOK
<1>1. wallets' # wallets
  BY DEF Commits
<1>2. ~ \E o \in Outcomes : Quit(p, o)
  BY <1>1 DEF Quit, tables
<1>3. CASE HoldWrite(p)
  <2>1. HoldCommit(p)
    BY <1>2, <1>3, HoldWriteCases
  <2>2. call[p] \in HoldCall
    BY <2>1, HoldCommitRows DEF Lock
  <2>3. w = call[p].wallet /\ w \in Wallets
    BY <2>2 DEF WalletOf, HoldCall
  <2>4. pc[p] = "holdWrite" /\ snap[p] = wallets[w]
    BY <2>1, CommitterCurrent DEF HoldCommit, HoldsSnapshot
  <2>5. siblings[p] = ActiveSiblings(w, call[p].auction)
    BY <2>1, <2>3 DEF HoldCommit, Lock, SiblingsCurrent
  <2>6. wallets'[w] = Stored(Replaced(snap[p], siblings[p], call[p].amount))
    BY <1>0, <2>1, <2>3, StoredRow DEF HoldCommit
  <2> QED
    BY <2>4, <2>5, <2>6
<1>4. ASSUME NEW type, NEW status \in {"RELEASED", "CONVERTED"},
             pc[p] \in ReleasePcs \cup ConvertPcs, pc[p] \in {"releaseWrite", "convertWrite"},
             FinishHold(p, type, status)
      PROVE  wallets'[w] = Stored(Apply(type, wallets[w], holds[call[p].hold].amount))
  <2>1. FinishCommit(p, type, status)
    BY <1>2, <1>4, FinishCases
  <2>2. w \in Wallets
    <3>1. call[p].hold \in DOMAIN holds /\ w = holds[call[p].hold].wallet
      BY <1>0, <1>4, <2>1, FinishCommitRows
    <3> QED
      BY <1>0, <3>1 DEF TypeOK, HoldRow
  <2>3. snap[p] = wallets[w]
    BY <1>4, <2>1, CommitterCurrent DEF FinishCommit, HoldsSnapshot
  <2> QED
    BY <1>0, <2>1, <2>2, <2>3, StoredRow DEF FinishCommit
<1>5. CASE ReleaseWrite(p)
  <2>1. pc[p] = "releaseWrite" /\ pc[p] \in ReleasePcs /\ FinishHold(p, "RELEASE", "RELEASED")
    BY <1>5 DEF ReleaseWrite, ReleasePcs
  <2> QED
    BY <1>4, <2>1
<1>6. CASE ConvertWrite(p)
  <2>1. pc[p] = "convertWrite" /\ pc[p] \in ConvertPcs /\ FinishHold(p, "CONVERT", "CONVERTED")
    BY <1>6 DEF ConvertWrite, ConvertPcs
  <2> QED
    BY <1>4, <2>1
<1>7. CASE MutateUpdate(p)
  <2>1. /\ pc[p] = "mutateUpdate" /\ VersionMatches(p)
        /\ wallets' = [wallets EXCEPT ![call[p].wallet] =
                         Stored(Apply(call[p].op, snap[p], call[p].amount))]
    BY <1>1, <1>7 DEF MutateUpdate, Quit, tables
  <2>2. call[p] \in MutateCall
    BY <1>0, <2>1 DEF HandlerOK, MutatePcs
  <2>3. w = call[p].wallet /\ w \in Wallets
    BY <2>2 DEF WalletOf, MutateCall
  <2>4. snap[p] = wallets[w]
    BY <2>1, CommitterCurrent DEF HoldsSnapshot, MutatePcs
  <2>5. wallets'[w] = Stored(Apply(call[p].op, wallets[w], call[p].amount))
    BY <1>0, <2>1, <2>3, <2>4, StoredRow
  <2> QED
    BY <2>1, <2>5
<1>8. CASE \/ HoldReadWallet(p) \/ HoldReadSiblings(p)
           \/ ReleaseReadWallet(p) \/ ConvertReadWallet(p) \/ MutateLedger(p)
  BY <1>1, <1>2, <1>8 DEF HoldReadWallet, HoldReadSiblings, ReleaseReadWallet,
     ConvertReadWallet, ReadWalletFor, MutateLedger, Quit, tables
<1> QED
  BY <1>3, <1>5, <1>6, <1>7, <1>8 DEF Continue

(* Only a handler's own statement moves its program counter, and only a Continue
   writes wallets. *)
LEMMA WhoCommits ==
  ASSUME TypeOK, [Next]_vars, NEW p \in Processes, Commits(p)
  PROVE  Continue(p)
<1>0. wallets' # wallets /\ pc'[p] # pc[p]
  BY DEF Commits
<1>1. ASSUME NEW q \in Processes, Start(q) PROVE FALSE
  BY <1>0, <1>1 DEF Start, HoldLookup, ReleaseLookup, ConvertLookup, MutateRead, Quit, tables
<1>2. ASSUME NEW q \in Processes, Abort(q) PROVE FALSE
  BY <1>0, <1>2 DEF Abort, tables
<1>3. CASE WorkerTick \/ WorkerNext \/ (\E h \in HoldIds : Expire(h)) \/ UNCHANGED vars
  BY <1>0, <1>3 DEF WorkerTick, WorkerNext, Expire, tables, vars
<1>4. ASSUME NEW q \in Processes, Continue(q), q # p PROVE FALSE
  BY <1>0, <1>4 DEF Continue, HoldReadWallet, HoldReadSiblings, HoldWrite, ReleaseReadWallet,
     ReleaseWrite, ConvertReadWallet, ConvertWrite, ReadWalletFor, FinishHold, MutateLedger,
     MutateUpdate, Quit, Finish, GoTo, TypeOK
<1> QED
  BY <1>1, <1>2, <1>3, <1>4 DEF Next

(* What a handler commits is its operation applied to the row it replaces: no
   update made since it read is lost, whatever the number of connections. *)
THEOREM NoLostUpdate == Spec => WritesApplyToCurrentRow
<1>1. ASSUME Lock, Lock', [Next]_vars, NEW p \in Processes, Commits(p)
      PROVE  Continue(p) /\ TypeOK'
  BY <1>1, WhoCommits DEF Lock
<1>2. Lock /\ Lock' /\ [Next]_vars =>
      [\A p \in Processes : Commits(p) =>
       LET w == WalletOf(p) IN
       wallets'[w] = Stored(
         CASE pc[p] = "holdWrite" ->
                Replaced(wallets[w], ActiveSiblings(w, call[p].auction), call[p].amount)
           [] pc[p] = "releaseWrite" ->
                Apply("RELEASE", wallets[w], holds[call[p].hold].amount)
           [] pc[p] = "convertWrite" ->
                Apply("CONVERT", wallets[w], holds[call[p].hold].amount)
           [] OTHER -> Apply(call[p].op, wallets[w], call[p].amount))]_vars
  BY <1>1, CommitWrites
<1> QED
  BY <1>2, LockInvariant, PTL DEF Spec, WritesApplyToCurrentRow

-----------------------------------------------------------------------------
(* One transaction at a time.  With a single connection nothing commits between
   the first statement of a hold transaction and its last, so what it has seen of
   the hold, and of the holds of its bid, is still true when it writes. *)

OneTransaction ==
  \A p, q \in Processes : InTransaction(p) /\ InTransaction(q) => p = q

SeenOK(p) ==
  /\ pc[p] \in ReleasePcs \cup ConvertPcs => holds[call[p].hold].status = "ACTIVE"
  /\ pc[p] \in HoldPcs => SameBid(call[p].auction, call[p].bid) = {}
  /\ pc[p] = "holdWrite" =>
       Allowed("HOLD", Released(snap[p], siblings[p]), call[p].amount)

Serial ==
  /\ Lock /\ OneTransaction /\ OneHoldPerBid
  /\ \A p \in Processes : SeenOK(p)

LEMMA FreeMeansNone ==
  ASSUME MaxConnections = 1, ConnectionFree
  PROVE  \A p \in Processes : ~InTransaction(p)
<1> DEFINE busy == {p \in Processes : InTransaction(p)}
<1>1. IsFiniteSet(Processes)
  BY ProcessAssumption, FS_AddElement DEF Processes
<1>2. IsFiniteSet(busy)
  BY <1>1, FS_Subset
<1>3. Cardinality(busy) \in Nat /\ Cardinality(busy) < 1
  BY <1>2, FS_CardinalityType DEF ConnectionFree
<1>4. busy = {}
  BY <1>2, <1>3, FS_EmptySet
<1> QED
  BY <1>4

(* A step of p keeps the rest of the invariant when it leaves the holds alone, or
   ends p's own transaction. *)
LEMMA SerialStepOf ==
  ASSUME Serial, Lock', MaxConnections = 1, NEW p \in Processes,
         \A q \in Processes \ {p} : /\ pc'[q] = pc[q] /\ call'[q] = call[q]
                                    /\ snap'[q] = snap[q] /\ siblings'[q] = siblings[q],
         holds' = holds \/ InTransaction(p),
         InTransaction(p)' => InTransaction(p) \/ ConnectionFree,
         SeenOK(p)', OneHoldPerBid'
  PROVE  Serial'
<1>1. OneTransaction'
  <2>1. SUFFICES ASSUME NEW q \in Processes, NEW r \in Processes,
                        InTransaction(q)', InTransaction(r)', q # r
                 PROVE  FALSE
    BY DEF OneTransaction
  <2>2. \A t \in Processes \ {p} : InTransaction(t)' => InTransaction(t)
    BY DEF InTransaction
  <2> QED
    BY <2>1, <2>2, FreeMeansNone DEF Serial, OneTransaction
<1>2. ASSUME NEW q \in Processes \ {p} PROVE SeenOK(q)'
  <2>1. CASE holds' = holds
    BY <2>1 DEF Serial, SeenOK, SameBid, Released, Total
  <2>2. CASE InTransaction(p)
    <3>1. ~InTransaction(q)
      BY <2>2 DEF Serial, OneTransaction
    <3> QED
      BY <3>1 DEF InTransaction, SeenOK, HoldPcs
  <2> QED
    BY <2>1, <2>2
<1> QED
  BY <1>1, <1>2 DEF Serial

LEMMA SerialInit == Init => Serial
<1> SUFFICES ASSUME Init PROVE Serial
  OBVIOUS
<1>1. \A p \in Processes : ~InTransaction(p) /\ SeenOK(p)
  BY DEF Init, InTransaction, SeenOK, HoldPcs, ReleasePcs, ConvertPcs
<1>2. OneHoldPerBid
  BY DEF Init, OneHoldPerBid
<1> QED
  BY <1>1, <1>2, LockInit DEF Serial, OneTransaction

(* A handler outside a transaction has seen nothing it must remember. *)
LEMMA SeenOutside ==
  ASSUME NEW p \in Processes, pc'[p] \in {"new", "idle"} \cup MutatePcs \cup Outcomes
  PROVE  SeenOK(p)' /\ ~InTransaction(p)'
BY DEF SeenOK, InTransaction, HoldPcs, ReleasePcs, ConvertPcs, MutatePcs, Outcomes

LEMMA SerialQuit ==
  ASSUME Serial, Lock', MaxConnections = 1, NEW p \in Processes, NEW o \in Outcomes, Quit(p, o)
  PROVE  Serial'
<1>1. SeenOK(p)' /\ ~InTransaction(p)'
  BY FinishLocals, SeenOutside DEF Quit, Serial, Lock
<1>2. holds' = holds /\ OneHoldPerBid'
  BY DEF Quit, tables, Serial, OneHoldPerBid
<1>3. \A q \in Processes \ {p} : /\ pc'[q] = pc[q] /\ call'[q] = call[q]
                                 /\ snap'[q] = snap[q] /\ siblings'[q] = siblings[q]
  BY FinishLocals DEF Quit, Serial, Lock
<1> QED
  BY <1>1, <1>2, <1>3, SerialStepOf

LEMMA SerialHoldCommit ==
  ASSUME Serial, Lock', MaxConnections = 1, NEW p \in Processes, HoldCommit(p)
  PROVE  Serial'
<1>0. TypeOK /\ "ok" \in Outcomes
  BY DEF Serial, Lock, Outcomes
<1>1. RowsKept /\ call[p] \in HoldCall
  BY <1>0, HoldCommitRows
<1>2. InTransaction(p)
  BY DEF HoldCommit, InTransaction, HoldPcs
<1>3. SeenOK(p)' /\ ~InTransaction(p)'
  BY <1>0, FinishLocals, SeenOutside DEF HoldCommit
<1>4. \A q \in Processes \ {p} : /\ pc'[q] = pc[q] /\ call'[q] = call[q]
                                 /\ snap'[q] = snap[q] /\ siblings'[q] = siblings[q]
  BY <1>0, FinishLocals DEF HoldCommit
<1>5. SameBid(call[p].auction, call[p].bid) = {}
  BY DEF HoldCommit, HoldPcs, Serial, SeenOK
<1>6. /\ DOMAIN holds' = DOMAIN holds \cup {call[p].hold}
      /\ holds'[call[p].hold].auction = call[p].auction
      /\ holds'[call[p].hold].bid = call[p].bid
  BY DEF HoldCommit, PlacedHolds
<1>7. OneHoldPerBid'
  <2>1. \A g \in DOMAIN holds : ~(/\ holds'[g].auction = call[p].auction
                                  /\ holds'[g].bid = call[p].bid)
    BY <1>1, <1>5 DEF SameBid, RowsKept
  <2> QED
    BY <1>1, <1>6, <2>1 DEF Serial, OneHoldPerBid, RowsKept
<1> QED
  BY <1>2, <1>3, <1>4, <1>7, SerialStepOf

LEMMA SerialFinishCommit ==
  ASSUME Serial, Lock', MaxConnections = 1, NEW p \in Processes,
         pc[p] \in ReleasePcs \cup ConvertPcs,
         NEW type, NEW status \in {"RELEASED", "CONVERTED"}, FinishCommit(p, type, status)
  PROVE  Serial'
<1>0. TypeOK /\ "ok" \in Outcomes
  BY DEF Serial, Lock, Outcomes
<1>1. RowsKept /\ DOMAIN holds' = DOMAIN holds
  BY <1>0, FinishCommitRows
<1>2. InTransaction(p)
  BY DEF InTransaction
<1>3. SeenOK(p)' /\ ~InTransaction(p)'
  BY <1>0, FinishLocals, SeenOutside DEF FinishCommit
<1>4. \A q \in Processes \ {p} : /\ pc'[q] = pc[q] /\ call'[q] = call[q]
                                 /\ snap'[q] = snap[q] /\ siblings'[q] = siblings[q]
  BY <1>0, FinishLocals DEF FinishCommit
<1>5. OneHoldPerBid'
  BY <1>1 DEF Serial, OneHoldPerBid, RowsKept
<1> QED
  BY <1>2, <1>3, <1>4, <1>5, SerialStepOf

LEMMA SerialStart ==
  ASSUME Serial, Lock', MaxConnections = 1, NEW p \in Processes, Start(p)
  PROVE  Serial'
<1>0. TypeOK
  BY DEF Serial, Lock
<1>1. CASE \E o \in Outcomes : Quit(p, o)
  BY <1>1, SerialQuit
<1>2. ASSUME ConnectionFree, UNCHANGED <<tables, call, siblings, todo, crashes>>,
             NEW label, GoTo(p, label), SeenOK(p)',
             \A q \in Processes \ {p} : snap'[q] = snap[q]
      PROVE  Serial'
  <2>1. holds' = holds /\ OneHoldPerBid'
    BY <1>2 DEF tables, Serial, OneHoldPerBid
  <2>2. \A q \in Processes \ {p} : /\ pc'[q] = pc[q] /\ call'[q] = call[q]
                                   /\ snap'[q] = snap[q] /\ siblings'[q] = siblings[q]
    BY <1>0, <1>2 DEF GoTo, TypeOK
  <2> QED
    BY <1>2, <2>1, <2>2, SerialStepOf
<1>3. CASE HoldLookup(p)
  <2>1. CASE /\ ConnectionFree /\ SameBid(call[p].auction, call[p].bid) = {}
             /\ GoTo(p, "holdWallet")
             /\ UNCHANGED <<tables, call, snap, siblings, todo, crashes>>
    <3>1. SeenOK(p)'
      BY <1>0, <2>1 DEF GoTo, TypeOK, SeenOK, tables, SameBid, ReleasePcs, ConvertPcs
    <3> QED
      BY <1>2, <2>1, <3>1
  <2> QED
    BY <1>1, <1>3, <2>1 DEF HoldLookup, Outcomes
<1>4. CASE ReleaseLookup(p) \/ ConvertLookup(p)
  <2>1. ASSUME NEW label \in {"releaseWallet", "convertWallet"},
               ConnectionFree, IsActive(call[p].hold), GoTo(p, label),
               UNCHANGED <<tables, call, snap, siblings, todo, crashes>>
        PROVE  Serial'
    <3>1. SeenOK(p)'
      BY <1>0, <2>1 DEF GoTo, TypeOK, SeenOK, tables, IsActive, HoldPcs
    <3> QED
      BY <1>2, <2>1, <3>1
  <2> QED
    BY <1>1, <1>4, <2>1 DEF ReleaseLookup, ConvertLookup, Outcomes
<1>5. CASE MutateRead(p)
  <2>1. CASE /\ ConnectionFree /\ snap' = [snap EXCEPT ![p] = wallets[call[p].wallet]]
             /\ GoTo(p, "mutateLedger")
             /\ UNCHANGED <<tables, call, siblings, todo, crashes>>
    <3>1. SeenOK(p)'
      BY <1>0, <2>1, SeenOutside DEF GoTo, TypeOK, MutatePcs
    <3> QED
      BY <1>0, <1>2, <2>1, <3>1 DEF TypeOK
  <2> QED
    BY <1>1, <1>5, <2>1 DEF MutateRead, Outcomes
<1> QED
  BY <1>3, <1>4, <1>5 DEF Start

LEMMA SerialContinue ==
  ASSUME Serial, Lock', MaxConnections = 1, NEW p \in Processes, Continue(p)
  PROVE  Serial'
<1>0. TypeOK /\ SeenOK(p) /\ "ok" \in Outcomes
  BY DEF Serial, Lock, Outcomes
<1>1. CASE \E o \in Outcomes : Quit(p, o)
  BY <1>1, SerialQuit
<1>2. ASSUME holds' = holds, call' = call, NEW label, GoTo(p, label), SeenOK(p)',
             InTransaction(p)' => InTransaction(p),
             \A q \in Processes \ {p} : snap'[q] = snap[q] /\ siblings'[q] = siblings[q]
      PROVE  Serial'
  <2>1. OneHoldPerBid'
    BY <1>2 DEF Serial, OneHoldPerBid
  <2>2. \A q \in Processes \ {p} : /\ pc'[q] = pc[q] /\ call'[q] = call[q]
                                   /\ snap'[q] = snap[q] /\ siblings'[q] = siblings[q]
    BY <1>0, <1>2 DEF GoTo, TypeOK
  <2> QED
    BY <1>2, <2>1, <2>2, SerialStepOf
<1>3. CASE HoldReadWallet(p)
  <2>1. SeenOK(p)' /\ InTransaction(p)
    BY <1>0, <1>3 DEF HoldReadWallet, GoTo, TypeOK, SeenOK, tables, SameBid, HoldPcs,
       ReleasePcs, ConvertPcs, InTransaction
  <2> QED
    BY <1>0, <1>2, <1>3, <2>1 DEF HoldReadWallet, TypeOK, tables
<1>4. CASE HoldReadSiblings(p)
  <2>1. CASE /\ CanReplace(snap[p], ActiveSiblings(call[p].wallet, call[p].auction),
                           call[p].amount)
             /\ siblings' = [siblings EXCEPT ![p] =
                               ActiveSiblings(call[p].wallet, call[p].auction)]
             /\ GoTo(p, "holdWrite")
             /\ UNCHANGED <<tables, call, snap, todo, crashes>>
    <3>1. SameBid(call[p].auction, call[p].bid)' = {}
      BY <1>0, <1>4, <2>1 DEF HoldReadSiblings, SeenOK, HoldPcs, tables, SameBid
    <3>2. Allowed("HOLD", Released(snap[p], siblings[p]), call[p].amount)'
      BY <1>0, <2>1 DEF CanReplace, Released, Total, tables, TypeOK
    <3>3. pc'[p] = "holdWrite"
      BY <1>0, <2>1 DEF GoTo, TypeOK
    <3>4. SeenOK(p)'
      BY <3>1, <3>2, <3>3 DEF SeenOK, ReleasePcs, ConvertPcs
    <3>5. InTransaction(p)
      BY <1>4 DEF HoldReadSiblings, InTransaction, HoldPcs
    <3> QED
      BY <1>0, <1>2, <2>1, <3>4, <3>5 DEF TypeOK, tables
  <2> QED
    BY <1>1, <1>4, <2>1 DEF HoldReadSiblings, Outcomes
<1>5. CASE HoldWrite(p)
  BY <1>1, <1>5, HoldWriteCases, SerialHoldCommit
<1>6. CASE ReleaseReadWallet(p) \/ ConvertReadWallet(p)
  <2>1. ASSUME NEW next \in {"releaseWrite", "convertWrite"},
               snap' = [snap EXCEPT ![p] = wallets[WalletOf(p)]], GoTo(p, next),
               UNCHANGED <<tables, call, siblings, todo, crashes>>
        PROVE  Serial'
    <3>1. SeenOK(p)' /\ InTransaction(p)
      BY <1>0, <1>6, <2>1 DEF ReleaseReadWallet, ConvertReadWallet, GoTo, TypeOK, SeenOK,
         tables, HoldPcs, ReleasePcs, ConvertPcs, InTransaction
    <3> QED
      BY <1>0, <1>2, <2>1, <3>1 DEF TypeOK, tables
  <2> QED
    BY <1>1, <1>6, <2>1 DEF ReleaseReadWallet, ConvertReadWallet, ReadWalletFor, Outcomes
<1>7. CASE ReleaseWrite(p)
  BY <1>1, <1>7, FinishCases, SerialFinishCommit DEF ReleaseWrite, ReleasePcs
<1>8. CASE ConvertWrite(p)
  BY <1>1, <1>8, FinishCases, SerialFinishCommit DEF ConvertWrite, ConvertPcs
<1>9. CASE MutateLedger(p)
  <2>1. SeenOK(p)' /\ ~InTransaction(p)'
    BY <1>0, <1>9, SeenOutside DEF MutateLedger, GoTo, TypeOK, MutatePcs
  <2> QED
    BY <1>0, <1>2, <1>9, <2>1 DEF MutateLedger
<1>10. CASE MutateUpdate(p)
  <2>1. CASE Finish(p, "ok") /\ UNCHANGED <<holds, ledger, expired, call, todo, crashes>>
    <3>1. SeenOK(p)' /\ ~InTransaction(p)'
      BY <1>0, <2>1, FinishLocals, SeenOutside
    <3>2. OneHoldPerBid'
      BY <2>1 DEF Serial, OneHoldPerBid
    <3>3. \A q \in Processes \ {p} : /\ pc'[q] = pc[q] /\ call'[q] = call[q]
                                     /\ snap'[q] = snap[q] /\ siblings'[q] = siblings[q]
      BY <1>0, <2>1, FinishLocals
    <3> QED
      BY <2>1, <3>1, <3>2, <3>3, SerialStepOf
  <2> QED
    BY <1>1, <1>10, <2>1 DEF MutateUpdate, Outcomes
<1> QED
  BY <1>3, <1>4, <1>5, <1>6, <1>7, <1>8, <1>9, <1>10 DEF Continue

LEMMA SerialStep ==
  ASSUME MaxConnections = 1
  PROVE  Serial /\ [Next]_vars => Serial'
<1> SUFFICES ASSUME Serial, [Next]_vars PROVE Serial'
  OBVIOUS
<1>0. Lock /\ Lock' /\ TypeOK
  BY LockStep DEF Serial, Lock
<1>1. ASSUME NEW p \in Processes, Start(p) PROVE Serial'
  BY <1>0, <1>1, SerialStart
<1>2. ASSUME NEW p \in Processes, Continue(p) PROVE Serial'
  BY <1>0, <1>2, SerialContinue
<1>3. ASSUME NEW p \in Processes, Abort(p) PROVE Serial'
  <2>1. "aborted" \in Outcomes
    BY DEF Outcomes
  <2>2. SeenOK(p)' /\ ~InTransaction(p)'
    BY <1>0, <1>3, <2>1, FinishLocals, SeenOutside DEF Abort
  <2>3. \A q \in Processes \ {p} : /\ pc'[q] = pc[q] /\ call'[q] = call[q]
                                   /\ snap'[q] = snap[q] /\ siblings'[q] = siblings[q]
    BY <1>0, <1>3, <2>1, FinishLocals DEF Abort
  <2>4. holds' = holds /\ OneHoldPerBid'
    BY <1>3 DEF Abort, tables, Serial, OneHoldPerBid
  <2> QED
    BY <1>0, <2>2, <2>3, <2>4, SerialStepOf
<1>4. CASE WorkerTick \/ (\E h \in HoldIds : Expire(h)) \/ UNCHANGED vars
  <2>1. UNCHANGED <<holds, locals>>
    BY <1>4 DEF WorkerTick, Expire, vars, tables
  <2> QED
    BY <1>0, <2>1 DEF locals, Serial, OneTransaction, InTransaction, OneHoldPerBid, SeenOK,
       SameBid, Released, Total
<1>5. CASE WorkerNext
  <2>1. Worker \in Processes
    BY DEF Processes
  <2>2. SeenOK(Worker)' /\ ~InTransaction(Worker)'
    BY <1>0, <1>5, <2>1, SeenOutside DEF WorkerNext, GoTo, TypeOK
  <2>3. \A q \in Processes \ {Worker} : /\ pc'[q] = pc[q] /\ call'[q] = call[q]
                                        /\ snap'[q] = snap[q] /\ siblings'[q] = siblings[q]
    BY <1>0, <1>5 DEF WorkerNext, GoTo, TypeOK
  <2>4. holds' = holds /\ OneHoldPerBid'
    BY <1>5 DEF WorkerNext, tables, Serial, OneHoldPerBid
  <2> QED
    BY <1>0, <2>1, <2>2, <2>3, <2>4, SerialStepOf
<1> QED
  BY <1>1, <1>2, <1>3, <1>4, <1>5 DEF Next

(* With one connection there is never a second hold for a bid of an auction,
   although no unique index forbids it. *)
THEOREM SerialOneHoldPerBid ==
  ASSUME MaxConnections = 1
  PROVE  Spec => []OneHoldPerBid
<1>1. Serial => OneHoldPerBid
  BY DEF Serial
<1> QED
  BY <1>1, SerialInit, SerialStep, PTL DEF Spec

(* The statement that commits is the only one that changes holds. *)
LEMMA WhoSettles ==
  ASSUME TypeOK, [Next]_vars, holds' # holds
  PROVE  \E p \in Processes :
           \/ HoldCommit(p)
           \/ pc[p] = "releaseWrite" /\ FinishCommit(p, "RELEASE", "RELEASED")
           \/ pc[p] = "convertWrite" /\ FinishCommit(p, "CONVERT", "CONVERTED")
<1>1. ASSUME NEW p \in Processes, Start(p) PROVE FALSE
  BY <1>1 DEF Start, HoldLookup, ReleaseLookup, ConvertLookup, MutateRead, Quit, tables
<1>2. ASSUME NEW p \in Processes, Abort(p) PROVE FALSE
  BY <1>2 DEF Abort, tables
<1>3. CASE WorkerTick \/ WorkerNext \/ (\E h \in HoldIds : Expire(h)) \/ UNCHANGED vars
  BY <1>3 DEF WorkerTick, WorkerNext, Expire, tables, vars
<1>4. ASSUME NEW p \in Processes, Continue(p)
      PROVE  \/ HoldCommit(p)
             \/ pc[p] = "releaseWrite" /\ FinishCommit(p, "RELEASE", "RELEASED")
             \/ pc[p] = "convertWrite" /\ FinishCommit(p, "CONVERT", "CONVERTED")
  <2>1. ~ \E o \in Outcomes : Quit(p, o)
    BY DEF Quit, tables
  <2>2. CASE HoldWrite(p)
    BY <2>1, <2>2, HoldWriteCases
  <2>3. CASE ReleaseWrite(p)
    BY <2>1, <2>3, FinishCases DEF ReleaseWrite
  <2>4. CASE ConvertWrite(p)
    BY <2>1, <2>4, FinishCases DEF ConvertWrite
  <2>5. CASE \/ HoldReadWallet(p) \/ HoldReadSiblings(p) \/ ReleaseReadWallet(p)
             \/ ConvertReadWallet(p) \/ MutateLedger(p) \/ MutateUpdate(p)
    BY <2>5 DEF HoldReadWallet, HoldReadSiblings, ReleaseReadWallet, ConvertReadWallet,
       ReadWalletFor, MutateLedger, MutateUpdate, Quit, tables
  <2> QED
    BY <1>4, <2>2, <2>3, <2>4, <2>5 DEF Continue
<1> QED
  BY <1>1, <1>2, <1>3, <1>4 DEF Next

(* With one connection a RELEASED or CONVERTED hold is never touched again. *)
THEOREM SerialFinality ==
  ASSUME MaxConnections = 1
  PROVE  Spec => HoldFinality
<1>1. Serial /\ [Next]_vars =>
      [\A h \in DOMAIN holds : holds[h].status # "ACTIVE" => holds'[h] = holds[h]]_vars
  <2> SUFFICES ASSUME Serial, [Next]_vars, NEW h \in DOMAIN holds,
                      holds[h].status # "ACTIVE", holds' # holds
               PROVE  holds'[h] = holds[h]
    OBVIOUS
  <2>1. TypeOK
    BY DEF Serial, Lock
  <2>2. PICK p \in Processes :
           \/ HoldCommit(p)
           \/ pc[p] = "releaseWrite" /\ FinishCommit(p, "RELEASE", "RELEASED")
           \/ pc[p] = "convertWrite" /\ FinishCommit(p, "CONVERT", "CONVERTED")
    BY <2>1, WhoSettles
  <2>3. CASE HoldCommit(p)
    <3>1. siblings[p] = ActiveSiblings(call[p].wallet, call[p].auction)
      BY <2>3 DEF HoldCommit, Serial, Lock, SiblingsCurrent
    <3>2. h \notin siblings[p] /\ h # call[p].hold
      BY <2>3, <3>1 DEF ActiveSiblings, HoldCommit
    <3> QED
      BY <2>3, <3>2 DEF HoldCommit, PlacedHolds
  <2>4. CASE pc[p] \in {"releaseWrite", "convertWrite"} /\ holds[call[p].hold].status = "ACTIVE"
    BY <2>2, <2>4 DEF FinishCommit, HoldCommit
  <2>5. pc[p] \in {"releaseWrite", "convertWrite"} => holds[call[p].hold].status = "ACTIVE"
    BY DEF Serial, SeenOK, ReleasePcs, ConvertPcs
  <2> QED
    BY <2>2, <2>3, <2>4, <2>5
<1> QED
  BY <1>1, SerialInit, SerialStep, PTL DEF Spec, HoldFinality

-----------------------------------------------------------------------------
(* The handlers implement HoldContract when transactions run one at a time. *)

ActiveColumn == [w \in Wallets |-> wallets[w].active]
HeldColumn   == [w \in Wallets |-> wallets[w].held]

LEMMA ContractSum ==
  ASSUME NEW f, NEW s
  PROVE  Contract!SumFunctionOnSet(f, s) = SumFunctionOnSet(f, s)
BY DEF Contract!SumFunctionOnSet, SumFunctionOnSet, Contract!FoldFunctionOnSet,
   FoldFunctionOnSet, Contract!MapThenFoldSet, MapThenFoldSet

(* What the operations do to the two balances, whatever the siblings add up to. *)
LEMMA ApplyFields ==
  ASSUME NEW t, NEW w \in Wallet, NEW a
  PROVE  /\ Apply(t, w, a).active = w.active + ActiveMove(t, a)
         /\ Apply(t, w, a).held = w.held + HeldMove(t, a)
<1>1. Apply(t, w, a).active = w.active + ActiveMove(t, a)
  BY DEF Apply, Wallet
<1>2. Apply(t, w, a).held = w.held + HeldMove(t, a)
  BY DEF Apply, Wallet
<1> QED
  BY <1>1, <1>2

LEMMA ReplaceFields ==
  ASSUME NEW w \in Wallet, NEW hs, NEW m
  PROVE  /\ Released(w, hs).active = w.active + Total(hs)
         /\ Replaced(w, hs, m).active = w.active + Total(hs) + -m
         /\ Replaced(w, hs, m).held = w.held + -Total(hs) + m
<1>1. Released(w, hs).active = w.active + ActiveMove("RELEASE", Total(hs))
  BY DEF Apply, Released, Wallet
<1>2. Replaced(w, hs, m).active
        = w.active + ActiveMove("RELEASE", Total(hs)) + ActiveMove("HOLD", m)
  BY DEF Apply, Released, Replaced, Wallet
<1>3. Replaced(w, hs, m).held
        = w.held + HeldMove("RELEASE", Total(hs)) + HeldMove("HOLD", m)
  BY DEF Apply, Released, Replaced, Wallet
<1>4. /\ ActiveMove("RELEASE", Total(hs)) = Total(hs) /\ ActiveMove("HOLD", m) = -m
      /\ HeldMove("RELEASE", Total(hs)) = -Total(hs) /\ HeldMove("HOLD", m) = m
  BY DEF ActiveMove, HeldMove, CreditsActive, DebitsActive, CreditsHeld, DebitsHeld
<1> QED
  BY <1>1, <1>2, <1>3, <1>4

LEMMA Moves ==
  ASSUME NEW a \in Int
  PROVE  /\ ActiveMove("RELEASE", a) = a /\ HeldMove("RELEASE", a) = -a
         /\ ActiveMove("CONVERT", a) = 0 /\ HeldMove("CONVERT", a) = -a
         /\ ActiveMove("TOP_UP", a) = a /\ HeldMove("TOP_UP", a) = 0
         /\ ActiveMove("WITHDRAW", a) = -a /\ HeldMove("WITHDRAW", a) = 0
         /\ ActiveMove("BID", a) = -a /\ HeldMove("BID", a) = a
BY DEF ActiveMove, HeldMove, CreditsActive, DebitsActive, CreditsHeld, DebitsHeld

(* A commit of row on wallet w changes its two balances and no other wallet's. *)
LEMMA ColumnsAfter ==
  ASSUME TypeOK, NEW w \in Wallets, NEW row \in Wallet,
         wallets' = [wallets EXCEPT ![w] = Stored(row)]
  PROVE  /\ ActiveColumn' = [ActiveColumn EXCEPT ![w] = row.active]
         /\ HeldColumn' = [HeldColumn EXCEPT ![w] = row.held]
<1>1. Stored(row).active = row.active /\ Stored(row).held = row.held
  BY DEF Stored, Wallet
<1>2. wallets \in [Wallets -> Wallet]
  BY DEF TypeOK
<1>3. ActiveColumn' = [ActiveColumn EXCEPT ![w] = row.active]
  BY <1>1, <1>2 DEF ActiveColumn
<1>4. HeldColumn' = [HeldColumn EXCEPT ![w] = row.held]
  BY <1>1, <1>2 DEF HeldColumn
<1> QED
  BY <1>3, <1>4

(* The same for an operation. *)
LEMMA ColumnsMove ==
  ASSUME TypeOK, NEW w \in Wallets, NEW t \in TransactionType, NEW a \in Nat,
         Allowed(t, wallets[w], a),
         wallets' = [wallets EXCEPT ![w] = Stored(Apply(t, wallets[w], a))]
  PROVE  /\ ActiveColumn' = [ActiveColumn EXCEPT ![w] = @ + ActiveMove(t, a)]
         /\ HeldColumn' = [HeldColumn EXCEPT ![w] = @ + HeldMove(t, a)]
<1>1. wallets[w] \in Wallet
  BY DEF TypeOK
<1>2. Apply(t, wallets[w], a) \in Wallet
  BY <1>1, ApplyType
<1>3. /\ ActiveColumn' = [ActiveColumn EXCEPT ![w] = Apply(t, wallets[w], a).active]
      /\ HeldColumn' = [HeldColumn EXCEPT ![w] = Apply(t, wallets[w], a).held]
  BY <1>2, ColumnsAfter
<1>4. /\ Apply(t, wallets[w], a).active = wallets[w].active + ActiveMove(t, a)
      /\ Apply(t, wallets[w], a).held = wallets[w].held + HeldMove(t, a)
  BY <1>1, ApplyFields
<1>5. ActiveColumn[w] = wallets[w].active /\ HeldColumn[w] = wallets[w].held
  BY DEF ActiveColumn, HeldColumn
<1> QED
  BY <1>3, <1>4, <1>5

(* The amounts the contract ranges over are those the clients name. *)
CallsOK == \A p \in Processes : call[p] \in HoldCall \cup MutateCall => call[p] \in Calls

LEMMA CallsInit == Init => CallsOK
<1> SUFFICES ASSUME Init, NEW p \in Processes, call[p] \in HoldCall \cup MutateCall
             PROVE  call[p] \in Calls
  BY DEF CallsOK
<1>1. PICK c \in [Requests -> Calls] :
         call = [q \in Processes |-> IF q = Worker THEN NoCall ELSE c[q]]
  BY DEF Init
<1>2. p # Worker
  BY <1>1 DEF NoCall, HoldCall, MutateCall
<1> QED
  BY <1>1, <1>2 DEF Processes

(* A process keeps the call it serves; only the worker takes another. *)
LEMMA CallKept ==
  ASSUME [Next]_vars
  PROVE  call' = call \/ WorkerNext
<1>1. ASSUME NEW p \in Processes, Start(p) PROVE call' = call
  BY <1>1 DEF Start, HoldLookup, ReleaseLookup, ConvertLookup, MutateRead, Quit
<1>2. ASSUME NEW p \in Processes, Continue(p) PROVE call' = call
  BY <1>2 DEF Continue, HoldReadWallet, HoldReadSiblings, HoldWrite, ReleaseReadWallet,
     ReleaseWrite, ConvertReadWallet, ConvertWrite, ReadWalletFor, FinishHold, MutateLedger,
     MutateUpdate, Quit
<1>3. ASSUME NEW p \in Processes, Abort(p) PROVE call' = call
  BY <1>3 DEF Abort
<1>4. CASE WorkerTick \/ (\E h \in HoldIds : Expire(h)) \/ UNCHANGED vars
  BY <1>4 DEF WorkerTick, Expire, vars, locals
<1> QED
  BY <1>1, <1>2, <1>3, <1>4 DEF Next

LEMMA CallsStep == TypeOK /\ CallsOK /\ [Next]_vars => CallsOK'
<1> SUFFICES ASSUME TypeOK, CallsOK, WorkerNext PROVE CallsOK'
  BY CallKept DEF CallsOK
<1>1. PICK h : call' = [call EXCEPT ![Worker] = [op |-> "release", hold |-> h]]
  BY DEF WorkerNext
<1>2. call'[Worker] \notin HoldCall \cup MutateCall
  BY <1>1 DEF HoldCall, MutateCall, TypeOK, Processes
<1> QED
  BY <1>1, <1>2 DEF CallsOK, TypeOK

LEMMA CallsStay == TypeOK /\ [Next]_vars => \A p \in Requests : call'[p] = call[p]
<1> SUFFICES ASSUME TypeOK, WorkerNext, NEW p \in Requests PROVE call'[p] = call[p]
  BY CallKept
<1> QED
  BY ProcessAssumption DEF WorkerNext, TypeOK, Processes

LEMMA WorkerReleases ==
  ASSUME TypeOK, [Next]_vars, call[Worker] \notin MutateCall
  PROVE  call'[Worker] \notin MutateCall
BY CallKept DEF WorkerNext, MutateCall, TypeOK, Processes

(* Each commit is a step of the contract.  The names it is about are constants of
   the step, so they are picked before the contract's actions are applied to them. *)
LEMMA PlaceStep ==
  ASSUME Serial, CallsOK, NEW p \in Processes, HoldCommit(p)
  PROVE  Contract!Next
<1>1. TypeOK /\ SeenOK(p) /\ pc[p] = "holdWrite"
  BY DEF Serial, Lock, HoldCommit
<1>2. call[p] \in HoldCall /\ call[p] \in Calls
  BY <1>1, HoldCommitRows DEF CallsOK
<1>3. PICK h, w, a, b, m, hs :
        /\ h = call[p].hold /\ w = call[p].wallet /\ a = call[p].auction
        /\ b = call[p].bid /\ m = call[p].amount /\ hs = siblings[p]
  OBVIOUS
<1>4. /\ h \in HoldIds /\ w \in Wallets /\ a \in Auctions /\ b \in Bids /\ m \in Nat
      /\ WalletOf(p) = w
  BY <1>2, <1>3 DEF HoldCall, WalletOf
<1>5. m \in Amounts
  BY <1>2, <1>3 DEF Amounts
<1>6. snap[p] = wallets[w] /\ wallets[w] \in Wallet
  BY <1>1, <1>4, CommitterCurrent DEF HoldCommit, HoldsSnapshot, Serial, TypeOK
<1>7. Contract!ActiveIn(w, a) = hs
  BY <1>3 DEF HoldCommit, Serial, Lock, SiblingsCurrent, Contract!ActiveIn, ActiveSiblings
<1>8. Contract!Sum(hs) = Total(hs)
  BY ContractSum DEF Contract!Sum, Total
<1>9. ActiveColumn[w] = wallets[w].active /\ HeldColumn[w] = wallets[w].held
  BY <1>4 DEF ActiveColumn, HeldColumn
<1>10. 0 < m /\ wallets[w].active + Total(hs) >= m
  <2>1. Allowed("HOLD", Released(wallets[w], hs), m)
    BY <1>1, <1>3, <1>6 DEF SeenOK
  <2>2. m > 0 /\ Released(wallets[w], hs).active >= m
    BY <2>1 DEF Allowed, DebitsActive
  <2>3. Released(wallets[w], hs).active = wallets[w].active + Total(hs)
    BY <1>6, ReplaceFields
  <2> QED
    BY <1>4, <2>2, <2>3
<1>11. /\ ActiveColumn' = [ActiveColumn EXCEPT ![w] = wallets[w].active + Total(hs) + -m]
       /\ HeldColumn' = [HeldColumn EXCEPT ![w] = wallets[w].held + -Total(hs) + m]
  <2>1. /\ Replaced(wallets[w], hs, m) \in Wallet
        /\ wallets' = [wallets EXCEPT ![w] = Stored(Replaced(wallets[w], hs, m))]
    BY <1>3, <1>6 DEF HoldCommit
  <2>2. /\ ActiveColumn' = [ActiveColumn EXCEPT ![w] = Replaced(wallets[w], hs, m).active]
        /\ HeldColumn' = [HeldColumn EXCEPT ![w] = Replaced(wallets[w], hs, m).held]
    BY <1>1, <1>4, <2>1, ColumnsAfter
  <2>3. /\ Replaced(wallets[w], hs, m).active = wallets[w].active + Total(hs) + -m
        /\ Replaced(wallets[w], hs, m).held = wallets[w].held + -Total(hs) + m
    BY <1>6, ReplaceFields
  <2> QED
    BY <2>2, <2>3
<1>12. \A g \in DOMAIN holds : ~(holds[g].auction = a /\ holds[g].bid = b)
  BY <1>1, <1>3 DEF SeenOK, HoldPcs, SameBid
<1>13. /\ h \notin DOMAIN holds
       /\ holds' = [g \in DOMAIN holds \cup {h} |->
                      IF g = h
                      THEN [wallet |-> w, auction |-> a, bid |-> b, amount |-> m,
                            status |-> "ACTIVE"]
                      ELSE IF g \in hs
                      THEN [holds[g] EXCEPT !.status = "RELEASED"] ELSE holds[g]]
  BY <1>3 DEF HoldCommit, PlacedHolds
<1>14. Contract!Place(h, w, a, b, m)
  BY <1>7, <1>8, <1>9, <1>10, <1>11, <1>12, <1>13
     DEF Contract!Place, ActiveColumn, HeldColumn
<1> QED
  BY <1>4, <1>5, <1>14 DEF Contract!Next

LEMMA SettleStep ==
  ASSUME Serial, NEW p \in Processes,
         \/ pc[p] = "releaseWrite" /\ FinishCommit(p, "RELEASE", "RELEASED")
         \/ pc[p] = "convertWrite" /\ FinishCommit(p, "CONVERT", "CONVERTED")
  PROVE  Contract!Next
<1>1. /\ TypeOK /\ SeenOK(p) /\ HandlerOK(p)
      /\ pc[p] \in ReleasePcs \cup ConvertPcs /\ HoldsSnapshot(p)
  BY DEF Serial, Lock, TypeOK, ReleasePcs, ConvertPcs, HoldsSnapshot
<1>2. PICK h, w, m, type, status :
        /\ h = call[p].hold /\ w = WalletOf(p) /\ m = holds[h].amount
        /\ type = IF pc[p] = "releaseWrite" THEN "RELEASE" ELSE "CONVERT"
        /\ status = IF pc[p] = "releaseWrite" THEN "RELEASED" ELSE "CONVERTED"
  OBVIOUS
<1>3. FinishCommit(p, type, status)
  BY <1>2
<1>4. h \in DOMAIN holds /\ w = holds[h].wallet /\ holds[h].status = "ACTIVE"
  BY <1>1, <1>2, <1>3, FinishCommitRows DEF SeenOK
<1>5. w \in Wallets /\ m \in Nat /\ h \in HoldIds
  BY <1>1, <1>2, <1>4 DEF TypeOK, HoldRow
<1>6. snap[p] = wallets[w] /\ wallets[w] \in Wallet
  BY <1>1, <1>2, <1>3, <1>5, CommitterCurrent DEF FinishCommit, Serial, TypeOK
<1>7. Allowed(type, wallets[w], m)
  BY <1>1, <1>2, <1>6 DEF HandlerOK
<1>8. type \in TransactionType
  BY <1>2 DEF TransactionType
<1>9. /\ ActiveColumn' = [ActiveColumn EXCEPT ![w] = @ + ActiveMove(type, m)]
      /\ HeldColumn' = [HeldColumn EXCEPT ![w] = @ + HeldMove(type, m)]
  <2>1. wallets' = [wallets EXCEPT ![w] = Stored(Apply(type, wallets[w], m))]
    BY <1>2, <1>3, <1>6 DEF FinishCommit
  <2>2. TypeOK /\ w \in Wallets /\ type \in TransactionType /\ m \in Nat
    BY <1>1, <1>5, <1>8
  <2>3. ActiveColumn' = [ActiveColumn EXCEPT ![w] = @ + ActiveMove(type, m)]
    BY <1>7, <2>1, <2>2, ColumnsMove
  <2>4. HeldColumn' = [HeldColumn EXCEPT ![w] = @ + HeldMove(type, m)]
    BY <1>7, <2>1, <2>2, ColumnsMove
  <2> QED
    BY <2>3, <2>4
<1>10. m <= HeldColumn[w]
  BY <1>2, <1>5, <1>6, <1>7 DEF Allowed, DebitsHeld, HeldColumn, Wallet
<1>11. holds' = [holds EXCEPT ![h].status = status]
  BY <1>2, <1>3 DEF FinishCommit
<1>12. CASE pc[p] = "releaseWrite"
  <2>1. ActiveMove(type, m) = m /\ HeldMove(type, m) = -m
    BY <1>2, <1>5, <1>12, Moves
  <2>2. Contract!Release(h)
    BY <1>2, <1>4, <1>9, <1>10, <1>11, <1>12, <2>1
       DEF Contract!Release, Contract!Settle, Contract!Move, ActiveColumn, HeldColumn
  <2> QED
    BY <1>5, <2>2 DEF Contract!Next
<1>13. CASE pc[p] # "releaseWrite"
  <2>1. ActiveMove(type, m) = 0 /\ HeldMove(type, m) = -m
    BY <1>2, <1>5, <1>13, Moves
  <2>2. Contract!Convert(h)
    BY <1>2, <1>4, <1>9, <1>10, <1>11, <1>13, <2>1
       DEF Contract!Convert, Contract!Settle, Contract!Move, ActiveColumn, HeldColumn
  <2> QED
    BY <1>5, <2>2 DEF Contract!Next
<1> QED
  BY <1>12, <1>13

LEMMA MutateStep ==
  ASSUME Serial, CallsOK, NEW p \in Processes, MutateUpdate(p), wallets' # wallets
  PROVE  Contract!Next
<1>1. TypeOK /\ HandlerOK(p)
  BY DEF Serial, Lock, TypeOK
<1>2. PICK w, m, op : w = call[p].wallet /\ m = call[p].amount /\ op = call[p].op
  OBVIOUS
<1>3. /\ pc[p] = "mutateUpdate" /\ VersionMatches(p) /\ UNCHANGED holds
      /\ wallets' = [wallets EXCEPT ![w] = Stored(Apply(op, snap[p], m))]
  BY <1>2 DEF MutateUpdate, Quit, tables
<1>4. call[p] \in MutateCall /\ Allowed(op, snap[p], m)
  BY <1>1, <1>2, <1>3 DEF HandlerOK, MutatePcs
<1>5. /\ w \in Wallets /\ WalletOf(p) = w /\ m \in Nat
      /\ op \in {"TOP_UP", "WITHDRAW", "BID"} /\ op \in TransactionType
  BY <1>2, <1>4 DEF MutateCall, WalletOf, TransactionType
<1>6. m \in Amounts
  BY <1>2, <1>4 DEF CallsOK, Amounts
<1>7. snap[p] = wallets[w] /\ wallets[w] \in Wallet
  BY <1>1, <1>3, <1>5, CommitterCurrent DEF HoldsSnapshot, MutatePcs, Serial, TypeOK
<1>8. Allowed(op, wallets[w], m)
  BY <1>4, <1>7
<1>9. /\ ActiveColumn' = [ActiveColumn EXCEPT ![w] = @ + ActiveMove(op, m)]
      /\ HeldColumn' = [HeldColumn EXCEPT ![w] = @ + HeldMove(op, m)]
  <2>1. wallets' = [wallets EXCEPT ![w] = Stored(Apply(op, wallets[w], m))]
    BY <1>3, <1>7
  <2>2. TypeOK /\ w \in Wallets /\ op \in TransactionType /\ m \in Nat
    BY <1>1, <1>5
  <2>3. ActiveColumn' = [ActiveColumn EXCEPT ![w] = @ + ActiveMove(op, m)]
    BY <1>8, <2>1, <2>2, ColumnsMove
  <2>4. HeldColumn' = [HeldColumn EXCEPT ![w] = @ + HeldMove(op, m)]
    BY <1>8, <2>1, <2>2, ColumnsMove
  <2> QED
    BY <2>3, <2>4
<1>10. 0 < m /\ (op \in {"WITHDRAW", "BID"} => m <= ActiveColumn[w])
  BY <1>5, <1>7, <1>8 DEF Allowed, DebitsActive, ActiveColumn, Wallet
<1>11. CASE op = "TOP_UP"
  <2>1. ActiveMove(op, m) = m /\ HeldMove(op, m) = 0
    BY <1>5, <1>11, Moves
  <2>2. Contract!TopUp(w, m)
    BY <1>3, <1>9, <1>10, <2>1
       DEF Contract!TopUp, Contract!Move, ActiveColumn, HeldColumn
  <2> QED
    BY <1>5, <1>6, <2>2 DEF Contract!Next
<1>12. CASE op = "WITHDRAW"
  <2>1. ActiveMove(op, m) = -m /\ HeldMove(op, m) = 0
    BY <1>5, <1>12, Moves
  <2>2. Contract!Withdraw(w, m)
    BY <1>3, <1>9, <1>10, <1>12, <2>1
       DEF Contract!Withdraw, Contract!Move, ActiveColumn, HeldColumn
  <2> QED
    BY <1>5, <1>6, <2>2 DEF Contract!Next
<1>13. CASE op = "BID"
  <2>1. ActiveMove(op, m) = -m /\ HeldMove(op, m) = m
    BY <1>5, <1>13, Moves
  <2>2. Contract!Bid(w, m)
    BY <1>3, <1>9, <1>10, <1>13, <2>1
       DEF Contract!Bid, Contract!Move, ActiveColumn, HeldColumn
  <2> QED
    BY <1>5, <1>6, <2>2 DEF Contract!Next
<1> QED
  BY <1>5, <1>11, <1>12, <1>13

(* A step that changes a balance or a hold is the commit of one handler. *)
LEMMA WhoMoves ==
  ASSUME TypeOK, Next, <<wallets, holds>>' # <<wallets, holds>>
  PROVE  \E p \in Processes :
           \/ HoldCommit(p)
           \/ pc[p] = "releaseWrite" /\ FinishCommit(p, "RELEASE", "RELEASED")
           \/ pc[p] = "convertWrite" /\ FinishCommit(p, "CONVERT", "CONVERTED")
           \/ MutateUpdate(p) /\ wallets' # wallets
<1>1. ASSUME NEW p \in Processes, Start(p) PROVE FALSE
  BY <1>1 DEF Start, HoldLookup, ReleaseLookup, ConvertLookup, MutateRead, Quit, tables
<1>2. ASSUME NEW p \in Processes, Abort(p) PROVE FALSE
  BY <1>2 DEF Abort, tables
<1>3. CASE WorkerTick \/ WorkerNext \/ (\E h \in HoldIds : Expire(h))
  BY <1>3 DEF WorkerTick, WorkerNext, Expire, tables
<1>4. ASSUME NEW p \in Processes, Continue(p)
      PROVE  \/ HoldCommit(p)
             \/ pc[p] = "releaseWrite" /\ FinishCommit(p, "RELEASE", "RELEASED")
             \/ pc[p] = "convertWrite" /\ FinishCommit(p, "CONVERT", "CONVERTED")
             \/ MutateUpdate(p) /\ wallets' # wallets
  <2>1. ~ \E o \in Outcomes : Quit(p, o)
    BY DEF Quit, tables
  <2>2. CASE HoldWrite(p)
    BY <2>1, <2>2, HoldWriteCases
  <2>3. CASE ReleaseWrite(p)
    BY <2>1, <2>3, FinishCases DEF ReleaseWrite
  <2>4. CASE ConvertWrite(p)
    BY <2>1, <2>4, FinishCases DEF ConvertWrite
  <2>5. CASE MutateUpdate(p)
    <3>1. holds' = holds
      BY <2>5 DEF MutateUpdate, Quit, tables
    <3> QED
      BY <2>5, <3>1
  <2>6. CASE \/ HoldReadWallet(p) \/ HoldReadSiblings(p) \/ ReleaseReadWallet(p)
             \/ ConvertReadWallet(p) \/ MutateLedger(p)
    BY <2>6 DEF HoldReadWallet, HoldReadSiblings, ReleaseReadWallet, ConvertReadWallet,
       ReadWalletFor, MutateLedger, Quit, tables
  <2> QED
    BY <1>4, <2>2, <2>3, <2>4, <2>5, <2>6 DEF Continue
<1> QED
  BY <1>1, <1>2, <1>3, <1>4 DEF Next

LEMMA ContractStep ==
  Serial /\ CallsOK /\ [Next]_vars => [Contract!Next]_<<ActiveColumn, HeldColumn, holds>>
<1> SUFFICES ASSUME Serial, CallsOK, [Next]_vars,
                    <<ActiveColumn, HeldColumn, holds>>' # <<ActiveColumn, HeldColumn, holds>>
             PROVE  Contract!Next
  OBVIOUS
<1>1. TypeOK
  BY DEF Serial, Lock
<1>2. <<wallets, holds>>' # <<wallets, holds>>
  BY DEF ActiveColumn, HeldColumn
<1>3. Next
  BY <1>2 DEF vars, tables
<1>4. PICK p \in Processes :
         \/ HoldCommit(p)
         \/ pc[p] = "releaseWrite" /\ FinishCommit(p, "RELEASE", "RELEASED")
         \/ pc[p] = "convertWrite" /\ FinishCommit(p, "CONVERT", "CONVERTED")
         \/ MutateUpdate(p) /\ wallets' # wallets
  BY <1>1, <1>2, <1>3, WhoMoves
<1> QED
  BY <1>4, PlaceStep, SettleStep, MutateStep

LEMMA ContractInit == Init => Contract!Init
BY DEF Init, Contract!Init, NewWallet

(* With one connection every behaviour of the handlers, whatever they interleave,
   crash and retry, is one of atomic placements, settlements and mutations. *)
THEOREM SerialRefinement ==
  ASSUME MaxConnections = 1
  PROVE  Spec => ImplementsContract
<1>1. Serial /\ CallsOK /\ [Next]_vars => (Serial /\ CallsOK)'
  BY SerialStep, CallsStep DEF Serial, Lock
<1>2. Init => Serial /\ CallsOK
  BY SerialInit, CallsInit
<1>3. Serial /\ CallsOK /\ [Next]_vars => [Contract!Next]_<<ActiveColumn, HeldColumn, holds>>
  BY ContractStep
<1> QED
  BY <1>1, <1>2, <1>3, ContractInit, PTL
     DEF Spec, ImplementsContract, Contract!Spec, ActiveColumn, HeldColumn

-----------------------------------------------------------------------------
(* The receipts.  While only holds move money, no process is in mutate_wallet, and
   what is left changes a wallet and its receipts in one transaction.  The worker's
   calls are releases, so the requests decide. *)

LedgerInv == Lock /\ call[Worker] \notin MutateCall /\ LedgerAgrees

LEMMA NoMutations ==
  ASSUME TypeOK, OnlyHoldsMoveMoney, call[Worker] \notin MutateCall, NEW p \in Processes
  PROVE  pc[p] \notin MutatePcs
<1>1. pc[p] \in MutatePcs => call[p] \in MutateCall
  BY DEF TypeOK, HandlerOK
<1> QED
  BY <1>1 DEF OnlyHoldsMoveMoney, Processes, MutateCall

LEMMA OnlyHoldsStays ==
  TypeOK /\ [Next]_vars => (OnlyHoldsMoveMoney' <=> OnlyHoldsMoveMoney)
BY CallsStay DEF OnlyHoldsMoveMoney

(* A step that changes a wallet or its receipts is one of these. *)
LEMMA WhoRecords ==
  ASSUME TypeOK, [Next]_vars, <<wallets, ledger>>' # <<wallets, ledger>>
  PROVE  \E p \in Processes :
           \/ HoldCommit(p)
           \/ pc[p] = "releaseWrite" /\ FinishCommit(p, "RELEASE", "RELEASED")
           \/ pc[p] = "convertWrite" /\ FinishCommit(p, "CONVERT", "CONVERTED")
           \/ MutateLedger(p) \/ MutateUpdate(p)
<1>1. ASSUME NEW p \in Processes, Start(p) PROVE FALSE
  BY <1>1 DEF Start, HoldLookup, ReleaseLookup, ConvertLookup, MutateRead, Quit, tables
<1>2. ASSUME NEW p \in Processes, Abort(p) PROVE FALSE
  BY <1>2 DEF Abort, tables
<1>3. CASE WorkerTick \/ WorkerNext \/ (\E h \in HoldIds : Expire(h)) \/ UNCHANGED vars
  BY <1>3 DEF WorkerTick, WorkerNext, Expire, tables, vars
<1>4. ASSUME NEW p \in Processes, Continue(p)
      PROVE  \/ HoldCommit(p)
             \/ pc[p] = "releaseWrite" /\ FinishCommit(p, "RELEASE", "RELEASED")
             \/ pc[p] = "convertWrite" /\ FinishCommit(p, "CONVERT", "CONVERTED")
             \/ MutateLedger(p) \/ MutateUpdate(p)
  <2>1. ~ \E o \in Outcomes : Quit(p, o)
    BY DEF Quit, tables
  <2>2. CASE HoldWrite(p)
    BY <2>1, <2>2, HoldWriteCases
  <2>3. CASE ReleaseWrite(p)
    BY <2>1, <2>3, FinishCases DEF ReleaseWrite
  <2>4. CASE ConvertWrite(p)
    BY <2>1, <2>4, FinishCases DEF ConvertWrite
  <2>5. CASE \/ HoldReadWallet(p) \/ HoldReadSiblings(p) \/ ReleaseReadWallet(p)
             \/ ConvertReadWallet(p)
    BY <2>1, <2>5 DEF HoldReadWallet, HoldReadSiblings, ReleaseReadWallet, ConvertReadWallet,
       ReadWalletFor, tables, Outcomes
  <2> QED
    BY <1>4, <2>2, <2>3, <2>4, <2>5 DEF Continue
<1> QED
  BY <1>1, <1>2, <1>3, <1>4 DEF Next

(* One commit: the receipts move as the row does. *)
LEMMA CommitRecorded ==
  ASSUME TypeOK, NEW w \in Wallets, NEW new \in Wallet,
         wallets' = [wallets EXCEPT ![w] = Stored(new)],
         ledger' = Recorded(w, wallets[w], new),
         \A v \in Wallets : /\ ledger[v].active = wallets[v].active
                            /\ ledger[v].held = wallets[v].held
  PROVE  \A v \in Wallets : /\ ledger'[v].active = wallets'[v].active
                            /\ ledger'[v].held = wallets'[v].held
<1> SUFFICES ASSUME NEW v \in Wallets
             PROVE  ledger'[v].active = wallets'[v].active /\ ledger'[v].held = wallets'[v].held
  OBVIOUS
<1>1. CASE v # w
  BY <1>1 DEF Recorded, TypeOK
<1>2. CASE v = w
  <2>1. wallets'[v] = Stored(new) /\ wallets[v] \in Wallet
    BY <1>2 DEF TypeOK
  <2>2. wallets'[v].active = new.active /\ wallets'[v].held = new.held
    BY <2>1 DEF Stored, Wallet
  <2>3. ledger'[v] = [active |-> wallets[v].active + new.active - wallets[v].active,
                      held |-> wallets[v].held + new.held - wallets[v].held]
    BY <1>2 DEF Recorded, TypeOK
  <2>4. ledger'[v].active = new.active /\ ledger'[v].held = new.held
    BY <2>1, <2>3 DEF Wallet
  <2> QED
    BY <2>2, <2>4
<1> QED
  BY <1>1, <1>2

LEMMA LedgerStep == LedgerInv /\ [Next]_vars => LedgerInv'
<1> SUFFICES ASSUME LedgerInv, [Next]_vars PROVE LedgerInv'
  OBVIOUS
<1>0. Lock /\ TypeOK /\ Lock' /\ call'[Worker] \notin MutateCall
  BY LockStep, WorkerReleases DEF LedgerInv, Lock
<1>1. SUFFICES ASSUME OnlyHoldsMoveMoney', <<wallets, ledger>>' # <<wallets, ledger>>
               PROVE  \A w \in Wallets : /\ ledger'[w].active = wallets'[w].active
                                         /\ ledger'[w].held = wallets'[w].held
  <2>1. CASE <<wallets, ledger>>' = <<wallets, ledger>>
    BY <1>0, <2>1, OnlyHoldsStays DEF LedgerInv, LedgerAgrees
  <2>2. CASE OnlyHoldsMoveMoney' /\ <<wallets, ledger>>' # <<wallets, ledger>>
    BY <1>0, <1>1, <2>2 DEF LedgerInv, LedgerAgrees
  <2>3. CASE ~OnlyHoldsMoveMoney'
    BY <1>0, <2>3 DEF LedgerInv, LedgerAgrees
  <2> QED
    BY <2>1, <2>2, <2>3
<1>2. OnlyHoldsMoveMoney
  BY <1>0, <1>1, OnlyHoldsStays
<1>3. \A w \in Wallets : /\ ledger[w].active = wallets[w].active
                         /\ ledger[w].held = wallets[w].held
  BY <1>2 DEF LedgerInv, LedgerAgrees
<1>4. PICK p \in Processes :
         \/ HoldCommit(p)
         \/ pc[p] = "releaseWrite" /\ FinishCommit(p, "RELEASE", "RELEASED")
         \/ pc[p] = "convertWrite" /\ FinishCommit(p, "CONVERT", "CONVERTED")
         \/ MutateLedger(p) \/ MutateUpdate(p)
  BY <1>0, <1>1, WhoRecords
<1>5. ~MutateLedger(p) /\ ~MutateUpdate(p)
  BY <1>0, <1>2, NoMutations DEF LedgerInv, MutateLedger, MutateUpdate, MutatePcs
<1>6. CASE HoldCommit(p)
  <2>1. call[p] \in HoldCall /\ pc[p] = "holdWrite"
    BY <1>0, <1>6, HoldCommitRows DEF HoldCommit
  <2>2. call[p].wallet \in Wallets /\ WalletOf(p) = call[p].wallet
    BY <2>1 DEF HoldCall, WalletOf
  <2>3. snap[p] = wallets[call[p].wallet]
    BY <1>0, <1>6, <2>1, <2>2, CommitterCurrent DEF HoldCommit, HoldsSnapshot
  <2> QED
    BY <1>0, <1>3, <1>6, <2>2, <2>3, CommitRecorded DEF HoldCommit
<1>7. ASSUME NEW type \in {"RELEASE", "CONVERT"}, NEW status \in {"RELEASED", "CONVERTED"},
             pc[p] = IF type = "RELEASE" THEN "releaseWrite" ELSE "convertWrite",
             FinishCommit(p, type, status)
      PROVE  \A w \in Wallets : /\ ledger'[w].active = wallets'[w].active
                                /\ ledger'[w].held = wallets'[w].held
  <2>1. pc[p] \in ReleasePcs \cup ConvertPcs /\ HoldsSnapshot(p)
    BY <1>7 DEF ReleasePcs, ConvertPcs, HoldsSnapshot
  <2>2. /\ call[p].hold \in DOMAIN holds
        /\ WalletOf(p) = holds[call[p].hold].wallet
    BY <1>0, <1>7, <2>1, FinishCommitRows
  <2>3. WalletOf(p) \in Wallets /\ holds[call[p].hold].amount \in Nat
    BY <1>0, <2>2 DEF TypeOK, HoldRow
  <2>4. snap[p] = wallets[WalletOf(p)] /\ snap[p] \in Wallet
    BY <1>0, <1>7, <2>1, CommitterCurrent DEF FinishCommit, TypeOK
  <2>5. Allowed(type, snap[p], holds[call[p].hold].amount)
    BY <1>0, <1>7 DEF TypeOK, HandlerOK
  <2>6. Apply(type, snap[p], holds[call[p].hold].amount) \in Wallet
    BY <2>3, <2>4, <2>5, ApplyType DEF TransactionType
  <2> QED
    BY <1>0, <1>3, <1>7, <2>3, <2>4, <2>6, CommitRecorded DEF FinishCommit
<1> QED
  BY <1>4, <1>5, <1>6, <1>7

LEMMA LedgerInit == Init => LedgerInv
<1> SUFFICES ASSUME Init PROVE LedgerInv
  OBVIOUS
<1>1. call[Worker] \notin MutateCall
  <2>1. PICK c \in [Requests -> Calls] :
           call = [q \in Processes |-> IF q = Worker THEN NoCall ELSE c[q]]
    BY DEF Init
  <2> QED
    BY <2>1 DEF Processes, NoCall, MutateCall
<1>2. LedgerAgrees
  BY DEF Init, LedgerAgrees, NewWallet
<1> QED
  BY <1>1, <1>2, LockInit DEF LedgerInv

(* While only holds move money, the history adds up to the balances, whatever the
   number of connections, conflicts and dropped handlers. *)
THEOREM ReceiptsAgree == Spec => []LedgerAgrees
<1>1. LedgerInv => LedgerAgrees
  BY DEF LedgerInv
<1> QED
  BY <1>1, LedgerInit, LedgerStep, PTL DEF Spec

-----------------------------------------------------------------------------
(* What the holds of a wallet add up to, and how a commit changes it. *)

AmountOf == [h \in DOMAIN holds |-> holds[h].amount]

LEMMA TotalIsSum == \A hs : Total(hs) = SumFunctionOnSet(AmountOf, hs)
BY DEF Total, AmountOf

LEMMA TotalIsSumNext ==
  ASSUME NEW w, NEW s
  PROVE  Total(HoldsOf(w, s))' = SumFunctionOnSet(AmountOf', HoldsOf(w, s)')
BY DEF Total, AmountOf

LEMMA AmountsTyped ==
  ASSUME TypeOK
  PROVE  \A h \in DOMAIN holds : AmountOf[h] \in Nat /\ AmountOf[h] = holds[h].amount
BY DEF AmountOf, TypeOK, HoldRow

LEMMA HoldsOfFinite ==
  ASSUME IsFiniteSet(DOMAIN holds)
  PROVE  \A w, s : HoldsOf(w, s) \subseteq DOMAIN holds /\ IsFiniteSet(HoldsOf(w, s))
<1> TAKE w, s
<1>1. HoldsOf(w, s) \subseteq DOMAIN holds
  BY DEF HoldsOf
<1> QED
  BY <1>1, FS_Subset

(* A placement takes the siblings out of what its wallet holds and brings its own
   amount in; nothing it does is a conversion. *)
LEMMA PlacedTotals ==
  ASSUME TypeOK, IsFiniteSet(DOMAIN holds), NEW p \in Processes, HoldCommit(p),
         siblings[p] = ActiveSiblings(call[p].wallet, call[p].auction)
  PROVE  /\ IsFiniteSet(DOMAIN holds')
         /\ Total(siblings[p]) \in Nat
         /\ \A w \in Wallets :
              /\ Total(HoldsOf(w, "ACTIVE"))' =
                   IF w = call[p].wallet
                   THEN Total(HoldsOf(w, "ACTIVE")) - Total(siblings[p]) + call[p].amount
                   ELSE Total(HoldsOf(w, "ACTIVE"))
              /\ Total(HoldsOf(w, "CONVERTED"))' = Total(HoldsOf(w, "CONVERTED"))
<1>0. call[p] \in HoldCall
  BY HoldCommitRows
<1>1. PICK h, v, a, m, hs :
        /\ h = call[p].hold /\ v = call[p].wallet /\ a = call[p].auction
        /\ m = call[p].amount /\ hs = siblings[p]
  OBVIOUS
<1>2. h \in HoldIds /\ v \in Wallets /\ m \in Nat /\ h \notin DOMAIN holds
  BY <1>0, <1>1 DEF HoldCall, HoldCommit
<1>3. \A g \in DOMAIN holds : g \in hs <=> /\ holds[g].wallet = v /\ holds[g].auction = a
                                           /\ holds[g].status = "ACTIVE"
  BY <1>1 DEF ActiveSiblings
<1>4. hs \subseteq DOMAIN holds /\ hs \subseteq HoldsOf(v, "ACTIVE")
  BY <1>1 DEF ActiveSiblings, HoldsOf
<1>5. DOMAIN holds' = DOMAIN holds \cup {h}
  BY <1>1 DEF HoldCommit, PlacedHolds
<1>6. \A g \in DOMAIN holds :
        /\ holds'[g].wallet = holds[g].wallet /\ holds'[g].amount = holds[g].amount
        /\ holds'[g].status = IF g \in hs THEN "RELEASED" ELSE holds[g].status
  <2>1. \A g \in DOMAIN holds :
          holds'[g] = IF g \in hs THEN [holds[g] EXCEPT !.status = "RELEASED"] ELSE holds[g]
    BY <1>1, <1>2 DEF HoldCommit, PlacedHolds
  <2>2. \A g \in DOMAIN holds : holds[g] \in HoldRow
    BY DEF TypeOK
  <2> QED
    BY <2>1, <2>2 DEF HoldRow
<1>7. holds'[h].wallet = v /\ holds'[h].amount = m /\ holds'[h].status = "ACTIVE"
  BY <1>1 DEF HoldCommit, PlacedHolds
<1>8. \A w : /\ HoldsOf(w, "ACTIVE")' = IF w = v THEN (HoldsOf(w, "ACTIVE") \ hs) \cup {h}
                                        ELSE HoldsOf(w, "ACTIVE")
             /\ HoldsOf(w, "CONVERTED")' = HoldsOf(w, "CONVERTED")
  <2> TAKE w
  <2>1. CASE w = v
    <3>1. HoldsOf(w, "ACTIVE")' = (HoldsOf(w, "ACTIVE") \ hs) \cup {h}
      BY <1>2, <1>5, <1>6, <1>7, <2>1 DEF HoldsOf
    <3>2. HoldsOf(w, "CONVERTED")' = HoldsOf(w, "CONVERTED")
      BY <1>2, <1>3, <1>5, <1>6, <1>7, <2>1 DEF HoldsOf
    <3> QED
      BY <2>1, <3>1, <3>2
  <2>2. CASE w # v
    <3>1. HoldsOf(w, "ACTIVE")' = HoldsOf(w, "ACTIVE")
      BY <1>2, <1>3, <1>4, <1>5, <1>6, <1>7, <2>2 DEF HoldsOf
    <3>2. HoldsOf(w, "CONVERTED")' = HoldsOf(w, "CONVERTED")
      BY <1>2, <1>3, <1>5, <1>6, <1>7, <2>2 DEF HoldsOf
    <3> QED
      BY <2>2, <3>1, <3>2
  <2> QED
    BY <2>1, <2>2
<1>9. \A g \in DOMAIN holds : AmountOf'[g] = AmountOf[g]
  BY <1>5, <1>6 DEF AmountOf
<1>10. AmountOf'[h] = m
  BY <1>5, <1>7 DEF AmountOf
<1>11. \A g \in DOMAIN holds : AmountOf[g] \in Nat
  BY AmountsTyped
<1>12. \A w, s : HoldsOf(w, s) \subseteq DOMAIN holds /\ IsFiniteSet(HoldsOf(w, s))
  BY HoldsOfFinite
<1>13. \A w, s : SumFunctionOnSet(AmountOf', HoldsOf(w, s))
                   = SumFunctionOnSet(AmountOf, HoldsOf(w, s))
  BY <1>9, <1>12, SumSame
<1>14. IsFiniteSet(hs)
  BY <1>4, FS_Subset
<1>15. SumFunctionOnSet(AmountOf, hs) \in Nat
  BY <1>4, <1>11, <1>14, SumNat
<1>16. SumFunctionOnSet(AmountOf', (HoldsOf(v, "ACTIVE") \ hs) \cup {h})
         = SumFunctionOnSet(AmountOf, HoldsOf(v, "ACTIVE")) - SumFunctionOnSet(AmountOf, hs) + m
  <2> DEFINE all == HoldsOf(v, "ACTIVE")
             rest == all \ hs
  <2>1. IsFiniteSet(all) /\ IsFiniteSet(rest) /\ all \subseteq DOMAIN holds /\ hs \in SUBSET all
    BY <1>4, <1>12, FS_Subset
  <2>2. /\ h \notin rest /\ rest \subseteq DOMAIN holds
        /\ \A g \in all : AmountOf[g] \in Int
        /\ \A g \in rest : AmountOf[g] \in Int /\ AmountOf'[g] = AmountOf[g]
    BY <1>2, <1>9, <1>11, <2>1
  <2>3. SumFunctionOnSet(AmountOf, all)
          = SumFunctionOnSet(AmountOf, hs) + SumFunctionOnSet(AmountOf, rest)
    <3> HIDE DEF all
    <3> QED
      BY <2>1, <2>2, SumSplit
  <2>4. SumFunctionOnSet(AmountOf', rest \cup {h}) = SumFunctionOnSet(AmountOf, rest) + m
    <3> HIDE DEF rest
    <3>1. AmountOf'[h] \in Int
      BY <1>2, <1>10
    <3> QED
      BY <1>10, <2>1, <2>2, <3>1, SumExtend
  <2>5. SumFunctionOnSet(AmountOf, rest) \in Int /\ SumFunctionOnSet(AmountOf, all) \in Int
    <3> HIDE DEF rest, all
    <3> QED
      BY <2>1, <2>2, SumInt
  <2> HIDE DEF rest, all
  <2>6. SumFunctionOnSet(AmountOf', rest \cup {h})
          = SumFunctionOnSet(AmountOf, all) - SumFunctionOnSet(AmountOf, hs) + m
    BY <1>2, <1>15, <2>3, <2>4, <2>5
  <2> QED
    BY <2>6 DEF rest, all
<1>17. IsFiniteSet(DOMAIN holds')
  BY <1>5, FS_AddElement
<1>18. ASSUME NEW w \in Wallets
       PROVE  /\ Total(HoldsOf(w, "ACTIVE"))' =
                   IF w = v THEN Total(HoldsOf(w, "ACTIVE")) - Total(hs) + m
                   ELSE Total(HoldsOf(w, "ACTIVE"))
              /\ Total(HoldsOf(w, "CONVERTED"))' = Total(HoldsOf(w, "CONVERTED"))
  <2>1. Total(HoldsOf(w, "CONVERTED"))' = Total(HoldsOf(w, "CONVERTED"))
    BY <1>8, <1>13, TotalIsSum, TotalIsSumNext
  <2>2. CASE w = v
    BY <1>8, <1>16, <2>1, <2>2, TotalIsSum, TotalIsSumNext
  <2>3. CASE w # v
    BY <1>8, <1>13, <2>1, <2>3, TotalIsSum, TotalIsSumNext
  <2> QED
    BY <2>2, <2>3
<1> QED
  BY <1>1, <1>15, <1>17, <1>18, TotalIsSum

(* A settlement takes the hold out of what its wallet holds; a conversion adds it
   to what the wallet has spent. *)
LEMMA SettledTotals ==
  ASSUME TypeOK, IsFiniteSet(DOMAIN holds), NEW h \in DOMAIN holds,
         NEW status \in {"RELEASED", "CONVERTED"}, holds[h].status = "ACTIVE",
         holds' = [holds EXCEPT ![h].status = status]
  PROVE  /\ DOMAIN holds' = DOMAIN holds
         /\ \A w \in Wallets :
              /\ Total(HoldsOf(w, "ACTIVE"))' =
                   IF w = holds[h].wallet
                   THEN Total(HoldsOf(w, "ACTIVE")) - holds[h].amount
                   ELSE Total(HoldsOf(w, "ACTIVE"))
              /\ Total(HoldsOf(w, "CONVERTED"))' =
                   IF w = holds[h].wallet /\ status = "CONVERTED"
                   THEN Total(HoldsOf(w, "CONVERTED")) + holds[h].amount
                   ELSE Total(HoldsOf(w, "CONVERTED"))
<1>1. PICK v, m : v = holds[h].wallet /\ m = holds[h].amount
  OBVIOUS
<1>2. m \in Nat
  BY <1>1 DEF TypeOK, HoldRow
<1>3. DOMAIN holds' = DOMAIN holds
  OBVIOUS
<1>4. \A g \in DOMAIN holds :
        /\ holds'[g].wallet = holds[g].wallet /\ holds'[g].amount = holds[g].amount
        /\ holds'[g].status = IF g = h THEN status ELSE holds[g].status
  <2>1. \A g \in DOMAIN holds : holds[g] \in HoldRow
    BY DEF TypeOK
  <2> QED
    BY <2>1 DEF HoldRow
<1>5. \A w : HoldsOf(w, "ACTIVE")' = IF w = v THEN HoldsOf(w, "ACTIVE") \ {h}
                                     ELSE HoldsOf(w, "ACTIVE")
  <2> TAKE w
  <2>1. CASE w = v
    BY <1>1, <1>3, <1>4, <2>1 DEF HoldsOf
  <2>2. CASE w # v
    BY <1>1, <1>3, <1>4, <2>2 DEF HoldsOf
  <2> QED
    BY <2>1, <2>2
<1>6. \A w : HoldsOf(w, "CONVERTED")' = IF w = v /\ status = "CONVERTED"
                                        THEN HoldsOf(w, "CONVERTED") \cup {h}
                                        ELSE HoldsOf(w, "CONVERTED")
  <2> TAKE w
  <2>1. CASE w = v /\ status = "CONVERTED"
    BY <1>1, <1>3, <1>4, <2>1 DEF HoldsOf
  <2>2. CASE ~(w = v /\ status = "CONVERTED")
    BY <1>1, <1>3, <1>4, <2>2 DEF HoldsOf
  <2> QED
    BY <2>1, <2>2
<1>7. AmountOf' = AmountOf
  BY <1>3, <1>4 DEF AmountOf
<1>8. \A g \in DOMAIN holds : AmountOf[g] \in Nat
  BY AmountsTyped
<1>9. AmountOf[h] = m /\ h \in HoldsOf(v, "ACTIVE") /\ h \notin HoldsOf(v, "CONVERTED")
  BY <1>1 DEF AmountOf, HoldsOf
<1>10. \A w, s : HoldsOf(w, s) \subseteq DOMAIN holds /\ IsFiniteSet(HoldsOf(w, s))
  BY HoldsOfFinite
<1>11. SumFunctionOnSet(AmountOf, HoldsOf(v, "ACTIVE") \ {h})
         = SumFunctionOnSet(AmountOf, HoldsOf(v, "ACTIVE")) - m
  <2> DEFINE all == HoldsOf(v, "ACTIVE")
             rest == all \ {h}
  <2>1. /\ IsFiniteSet(all) /\ h \in all /\ \A g \in all : AmountOf[g] \in Int
        /\ IsFiniteSet(rest) /\ \A g \in rest : AmountOf[g] \in Int
    BY <1>8, <1>9, <1>10, FS_Subset
  <2>2. SumFunctionOnSet(AmountOf, all) = AmountOf[h] + SumFunctionOnSet(AmountOf, rest)
    <3> HIDE DEF all
    <3> QED
      BY <2>1, SumRemove
  <2>3. SumFunctionOnSet(AmountOf, rest) \in Int
    <3> HIDE DEF rest
    <3> QED
      BY <2>1, SumInt
  <2> HIDE DEF rest, all
  <2>4. SumFunctionOnSet(AmountOf, rest) = SumFunctionOnSet(AmountOf, all) - m
    BY <1>2, <1>9, <2>2, <2>3
  <2> QED
    BY <2>4 DEF rest, all
<1>12. SumFunctionOnSet(AmountOf, HoldsOf(v, "CONVERTED") \cup {h})
         = SumFunctionOnSet(AmountOf, HoldsOf(v, "CONVERTED")) + m
  <2> DEFINE all == HoldsOf(v, "CONVERTED")
  <2>1. /\ IsFiniteSet(all) /\ h \notin all /\ \A g \in all \cup {h} : AmountOf[g] \in Int
    BY <1>8, <1>9, <1>10
  <2> HIDE DEF all
  <2>2. SumFunctionOnSet(AmountOf, all \cup {h}) = AmountOf[h] + SumFunctionOnSet(AmountOf, all)
    BY <2>1, SumAdd
  <2>3. SumFunctionOnSet(AmountOf, all) \in Int
    BY <2>1, SumInt
  <2>4. SumFunctionOnSet(AmountOf, all \cup {h}) = SumFunctionOnSet(AmountOf, all) + m
    BY <1>2, <1>9, <2>2, <2>3
  <2> QED
    BY <2>4 DEF all
<1>13. ASSUME NEW w \in Wallets
       PROVE  /\ Total(HoldsOf(w, "ACTIVE"))' =
                   IF w = v THEN Total(HoldsOf(w, "ACTIVE")) - m
                   ELSE Total(HoldsOf(w, "ACTIVE"))
              /\ Total(HoldsOf(w, "CONVERTED"))' =
                   IF w = v /\ status = "CONVERTED"
                   THEN Total(HoldsOf(w, "CONVERTED")) + m
                   ELSE Total(HoldsOf(w, "CONVERTED"))
  <2>1. Total(HoldsOf(w, "ACTIVE"))' = IF w = v THEN Total(HoldsOf(w, "ACTIVE")) - m
                                       ELSE Total(HoldsOf(w, "ACTIVE"))
    BY <1>5, <1>7, <1>11, TotalIsSum, TotalIsSumNext
  <2>2. Total(HoldsOf(w, "CONVERTED"))' = IF w = v /\ status = "CONVERTED"
                                          THEN Total(HoldsOf(w, "CONVERTED")) + m
                                          ELSE Total(HoldsOf(w, "CONVERTED"))
    BY <1>6, <1>7, <1>12, TotalIsSum, TotalIsSumNext
  <2> QED
    BY <2>1, <2>2
<1> QED
  BY <1>1, <1>3, <1>13

-----------------------------------------------------------------------------
(* With one connection a handler's operation meets the holds it has seen, so the
   balances and the sums move together. *)

MoneyInv ==
  /\ Serial /\ call[Worker] \notin MutateCall
  /\ IsFiniteSet(DOMAIN holds)
  /\ HeldCoversHolds /\ BalancesFollowHolds

(* What the money invariant says of one wallet. *)
Covered(w) == wallets[w].held >= Total(HoldsOf(w, "ACTIVE"))

Followed(w) ==
  /\ wallets[w].held = Total(HoldsOf(w, "ACTIVE"))
  /\ wallets[w].active =
       InitialActive - Total(HoldsOf(w, "ACTIVE")) - Total(HoldsOf(w, "CONVERTED"))

LEMMA TotalsTyped ==
  ASSUME TypeOK, IsFiniteSet(DOMAIN holds)
  PROVE  \A w, s : Total(HoldsOf(w, s)) \in Nat
<1> TAKE w, s
<1>1. HoldsOf(w, s) \subseteq DOMAIN holds /\ IsFiniteSet(HoldsOf(w, s))
  BY HoldsOfFinite
<1>2. \A h \in HoldsOf(w, s) : AmountOf[h] \in Nat
  BY <1>1, AmountsTyped
<1>3. SumFunctionOnSet(AmountOf, HoldsOf(w, s)) \in Nat
  BY <1>1, <1>2, SumNat
<1> QED
  BY <1>3, TotalIsSum

LEMMA PlaceMoney ==
  ASSUME MoneyInv, NEW p \in Processes, HoldCommit(p)
  PROVE  /\ IsFiniteSet(DOMAIN holds')
         /\ \A w \in Wallets : Covered(w)' /\ (Followed(w) => Followed(w)')
<1>1. TypeOK /\ Lock /\ pc[p] = "holdWrite" /\ call[p] \in HoldCall
  BY HoldCommitRows DEF MoneyInv, Serial, Lock, HoldCommit
<1>2. PICK v, m, hs : v = call[p].wallet /\ m = call[p].amount /\ hs = siblings[p]
  OBVIOUS
<1>3. v \in Wallets /\ m \in Nat /\ WalletOf(p) = v
  BY <1>1, <1>2 DEF HoldCall, WalletOf
<1>4. snap[p] = wallets[v] /\ wallets[v] \in Wallet
  BY <1>1, <1>3, CommitterCurrent DEF HoldCommit, HoldsSnapshot, TypeOK
<1>5. siblings[p] = ActiveSiblings(call[p].wallet, call[p].auction)
  BY <1>1 DEF HoldCommit, Lock, SiblingsCurrent
<1>6. /\ IsFiniteSet(DOMAIN holds')
      /\ Total(hs) \in Nat
      /\ \A w \in Wallets :
           /\ Total(HoldsOf(w, "ACTIVE"))' =
                IF w = v THEN Total(HoldsOf(w, "ACTIVE")) - Total(hs) + m
                ELSE Total(HoldsOf(w, "ACTIVE"))
           /\ Total(HoldsOf(w, "CONVERTED"))' = Total(HoldsOf(w, "CONVERTED"))
  BY <1>1, <1>2, <1>5, PlacedTotals DEF MoneyInv
<1>7. /\ wallets'[v].active = wallets[v].active + Total(hs) + -m
      /\ wallets'[v].held = wallets[v].held + -Total(hs) + m
      /\ \A w \in Wallets \ {v} : wallets'[w] = wallets[w]
  <2>1. /\ Replaced(wallets[v], hs, m) \in Wallet
        /\ wallets' = [wallets EXCEPT ![v] = Stored(Replaced(wallets[v], hs, m))]
    BY <1>2, <1>4 DEF HoldCommit
  <2>2. wallets'[v] = Stored(Replaced(wallets[v], hs, m))
    BY <1>1, <1>3, <2>1, StoredRow
  <2>3. /\ wallets'[v].active = Replaced(wallets[v], hs, m).active
        /\ wallets'[v].held = Replaced(wallets[v], hs, m).held
    BY <2>1, <2>2 DEF Stored, Wallet
  <2>4. \A w \in Wallets \ {v} : wallets'[w] = wallets[w]
    BY <1>1, <2>1 DEF TypeOK
  <2> QED
    BY <1>4, <2>3, <2>4, ReplaceFields
<1>8. ASSUME NEW w \in Wallets
      PROVE  Covered(w)' /\ (Followed(w) => Followed(w)')
  <2>1. Covered(w)
    BY DEF MoneyInv, HeldCoversHolds, Covered
  <2>2. Total(HoldsOf(w, "ACTIVE")) \in Nat /\ Total(HoldsOf(w, "CONVERTED")) \in Nat
    BY <1>1, TotalsTyped DEF MoneyInv
  <2>3. wallets[w].active \in Nat /\ wallets[w].held \in Nat
    BY <1>1 DEF TypeOK, Wallet
  <2>4. CASE w # v
    BY <1>6, <1>7, <2>1, <2>4 DEF Covered, Followed
  <2>5. CASE w = v
    <3>1. Covered(w)'
      BY <1>3, <1>6, <1>7, <2>1, <2>2, <2>3, <2>5 DEF Covered
    <3>2. Followed(w) => Followed(w)'
      BY <1>3, <1>6, <1>7, <2>2, <2>3, <2>5, BoundsAssumption DEF Followed
    <3> QED
      BY <3>1, <3>2
  <2> QED
    BY <2>4, <2>5
<1> QED
  BY <1>6, <1>8

LEMMA SettleMoney ==
  ASSUME MoneyInv, NEW p \in Processes,
         \/ pc[p] = "releaseWrite" /\ FinishCommit(p, "RELEASE", "RELEASED")
         \/ pc[p] = "convertWrite" /\ FinishCommit(p, "CONVERT", "CONVERTED")
  PROVE  /\ IsFiniteSet(DOMAIN holds')
         /\ \A w \in Wallets : Covered(w)' /\ (Followed(w) => Followed(w)')
<1>1. /\ TypeOK /\ Lock /\ SeenOK(p) /\ HandlerOK(p)
      /\ pc[p] \in ReleasePcs \cup ConvertPcs /\ HoldsSnapshot(p)
  BY DEF MoneyInv, Serial, Lock, TypeOK, ReleasePcs, ConvertPcs, HoldsSnapshot
<1>2. PICK h, v, m, type, status :
        /\ h = call[p].hold /\ v = WalletOf(p) /\ m = holds[h].amount
        /\ type = IF pc[p] = "releaseWrite" THEN "RELEASE" ELSE "CONVERT"
        /\ status = IF pc[p] = "releaseWrite" THEN "RELEASED" ELSE "CONVERTED"
  OBVIOUS
<1>3. FinishCommit(p, type, status)
  BY <1>2
<1>4. h \in DOMAIN holds /\ v = holds[h].wallet /\ holds[h].status = "ACTIVE"
  BY <1>1, <1>2, <1>3, FinishCommitRows DEF SeenOK
<1>5. v \in Wallets /\ m \in Nat
  BY <1>1, <1>2, <1>4 DEF TypeOK, HoldRow
<1>6. snap[p] = wallets[v] /\ wallets[v] \in Wallet
  BY <1>1, <1>2, <1>3, <1>5, CommitterCurrent DEF FinishCommit, TypeOK
<1>7. Allowed(type, wallets[v], m)
  BY <1>1, <1>2, <1>6 DEF HandlerOK
<1>8. /\ DOMAIN holds' = DOMAIN holds
      /\ \A w \in Wallets :
           /\ Total(HoldsOf(w, "ACTIVE"))' =
                IF w = v THEN Total(HoldsOf(w, "ACTIVE")) - m ELSE Total(HoldsOf(w, "ACTIVE"))
           /\ Total(HoldsOf(w, "CONVERTED"))' =
                IF w = v /\ status = "CONVERTED"
                THEN Total(HoldsOf(w, "CONVERTED")) + m ELSE Total(HoldsOf(w, "CONVERTED"))
  <2>1. holds' = [holds EXCEPT ![h].status = status] /\ status \in {"RELEASED", "CONVERTED"}
    BY <1>2, <1>3 DEF FinishCommit
  <2>2. IsFiniteSet(DOMAIN holds)
    BY DEF MoneyInv
  <2> QED
    BY <1>1, <1>2, <1>4, <2>1, <2>2, SettledTotals
<1>9. /\ wallets'[v].active = wallets[v].active + (IF status = "RELEASED" THEN m ELSE 0)
      /\ wallets'[v].held = wallets[v].held + -m
      /\ \A w \in Wallets \ {v} : wallets'[w] = wallets[w]
  <2>1. wallets' = [wallets EXCEPT ![v] = Stored(Apply(type, wallets[v], m))]
    BY <1>2, <1>3, <1>6 DEF FinishCommit
  <2>2. wallets'[v] = Stored(Apply(type, wallets[v], m))
    BY <1>1, <1>5, <2>1, StoredRow
  <2>3. Apply(type, wallets[v], m) \in Wallet
    BY <1>2, <1>5, <1>6, <1>7, ApplyType DEF TransactionType
  <2>4. /\ wallets'[v].active = Apply(type, wallets[v], m).active
        /\ wallets'[v].held = Apply(type, wallets[v], m).held
    BY <2>2, <2>3 DEF Stored, Wallet
  <2>5. /\ ActiveMove(type, m) = IF status = "RELEASED" THEN m ELSE 0
        /\ HeldMove(type, m) = -m
    BY <1>2, <1>5, Moves
  <2>6. \A w \in Wallets \ {v} : wallets'[w] = wallets[w]
    BY <1>1, <2>1 DEF TypeOK
  <2>7. /\ Apply(type, wallets[v], m).active = wallets[v].active + ActiveMove(type, m)
        /\ Apply(type, wallets[v], m).held = wallets[v].held + HeldMove(type, m)
    BY <1>6, ApplyFields
  <2> QED
    BY <2>4, <2>5, <2>6, <2>7
<1>10. status \in {"RELEASED", "CONVERTED"}
  BY <1>2
<1>11. ASSUME NEW w \in Wallets
       PROVE  Covered(w)' /\ (Followed(w) => Followed(w)')
  <2>1. Covered(w)
    BY DEF MoneyInv, HeldCoversHolds, Covered
  <2>2. Total(HoldsOf(w, "ACTIVE")) \in Nat /\ Total(HoldsOf(w, "CONVERTED")) \in Nat
    BY <1>1, TotalsTyped DEF MoneyInv
  <2>3. wallets[w].active \in Nat /\ wallets[w].held \in Nat
    BY <1>1 DEF TypeOK, Wallet
  <2>4. CASE w # v
    BY <1>8, <1>9, <2>1, <2>4 DEF Covered, Followed
  <2>5. CASE w = v
    <3>1. Covered(w)'
      BY <1>5, <1>8, <1>9, <2>1, <2>2, <2>3, <2>5 DEF Covered
    <3>2. Followed(w) => Followed(w)'
      BY <1>5, <1>8, <1>9, <1>10, <2>2, <2>3, <2>5, BoundsAssumption DEF Followed
    <3> QED
      BY <3>1, <3>2
  <2> QED
    BY <2>4, <2>5
<1>12. IsFiniteSet(DOMAIN holds')
  BY <1>8 DEF MoneyInv
<1> QED
  BY <1>11, <1>12

(* A balance mutation leaves the holds alone, and never takes from what is held. *)
LEMMA MutateMoney ==
  ASSUME MoneyInv, NEW p \in Processes, MutateUpdate(p), wallets' # wallets
  PROVE  IsFiniteSet(DOMAIN holds') /\ \A w \in Wallets : Covered(w)'
<1>1. TypeOK /\ HandlerOK(p) /\ Lock
  BY DEF MoneyInv, Serial, Lock, TypeOK
<1>2. PICK v, m, op : v = call[p].wallet /\ m = call[p].amount /\ op = call[p].op
  OBVIOUS
<1>3. /\ pc[p] = "mutateUpdate" /\ VersionMatches(p) /\ UNCHANGED holds
      /\ wallets' = [wallets EXCEPT ![v] = Stored(Apply(op, snap[p], m))]
  BY <1>2 DEF MutateUpdate, Quit, tables
<1>4. call[p] \in MutateCall /\ Allowed(op, snap[p], m)
  BY <1>1, <1>2, <1>3 DEF HandlerOK, MutatePcs
<1>5. /\ v \in Wallets /\ WalletOf(p) = v /\ m \in Nat
      /\ op \in {"TOP_UP", "WITHDRAW", "BID"} /\ op \in TransactionType
  BY <1>2, <1>4 DEF MutateCall, WalletOf, TransactionType
<1>6. snap[p] = wallets[v] /\ wallets[v] \in Wallet
  BY <1>1, <1>3, <1>5, CommitterCurrent DEF HoldsSnapshot, MutatePcs, TypeOK
<1>7. Apply(op, wallets[v], m) \in Wallet
  BY <1>4, <1>5, <1>6, ApplyType
<1>8. wallets'[v].held = wallets[v].held + HeldMove(op, m)
  <2>1. wallets'[v] = Stored(Apply(op, wallets[v], m))
    BY <1>1, <1>3, <1>5, <1>6, StoredRow
  <2>2. wallets'[v].held = Apply(op, wallets[v], m).held
    BY <1>7, <2>1 DEF Stored, Wallet
  <2> QED
    BY <1>6, <2>2, ApplyFields
<1>9. HeldMove(op, m) \in Nat
  BY <1>5, Moves
<1>10. \A w \in Wallets \ {v} : wallets'[w] = wallets[w]
  BY <1>1, <1>3 DEF TypeOK
<1>11. ASSUME NEW w \in Wallets PROVE Covered(w)'
  <2>1. Total(HoldsOf(w, "ACTIVE"))' = Total(HoldsOf(w, "ACTIVE"))
    BY <1>3 DEF Total, HoldsOf
  <2>2. wallets'[w].held >= wallets[w].held
    BY <1>1, <1>8, <1>9, <1>10 DEF TypeOK, Wallet
  <2>3. Total(HoldsOf(w, "ACTIVE")) \in Nat
    BY <1>1, TotalsTyped DEF MoneyInv
  <2>4. wallets[w].held \in Nat
    BY <1>1 DEF TypeOK, Wallet
  <2>5. wallets'[w].held \in Int
    BY <1>8, <1>9, <1>10, <2>4
  <2>6. wallets[w].held >= Total(HoldsOf(w, "ACTIVE"))
    BY DEF MoneyInv, HeldCoversHolds
  <2> QED
    BY <2>1, <2>2, <2>3, <2>4, <2>5, <2>6 DEF Covered
<1> QED
  BY <1>3, <1>11 DEF MoneyInv

LEMMA MoneyStep ==
  ASSUME MaxConnections = 1
  PROVE  MoneyInv /\ [Next]_vars => MoneyInv'
<1> SUFFICES ASSUME MoneyInv, [Next]_vars PROVE MoneyInv'
  OBVIOUS
<1>1. /\ TypeOK /\ Serial' /\ call'[Worker] \notin MutateCall
      /\ OnlyHoldsMoveMoney' => OnlyHoldsMoveMoney
  BY SerialStep, WorkerReleases, OnlyHoldsStays DEF MoneyInv, Serial, Lock
<1>2. OnlyHoldsMoveMoney => \A w \in Wallets : Followed(w)
  BY DEF MoneyInv, BalancesFollowHolds, Followed
<1>3. /\ IsFiniteSet(DOMAIN holds')
      /\ \A w \in Wallets : Covered(w)' /\ (OnlyHoldsMoveMoney => Followed(w)')
  <2>1. CASE <<wallets, holds>>' = <<wallets, holds>>
    BY <1>2, <2>1 DEF MoneyInv, HeldCoversHolds, Covered, Followed, Total, HoldsOf
  <2>2. CASE <<wallets, holds>>' # <<wallets, holds>>
    <3>1. Next
      BY <2>2 DEF vars, tables
    <3>2. PICK p \in Processes :
            \/ HoldCommit(p)
            \/ pc[p] = "releaseWrite" /\ FinishCommit(p, "RELEASE", "RELEASED")
            \/ pc[p] = "convertWrite" /\ FinishCommit(p, "CONVERT", "CONVERTED")
            \/ MutateUpdate(p) /\ wallets' # wallets
      BY <1>1, <2>2, <3>1, WhoMoves
    <3>3. CASE HoldCommit(p)
      BY <1>2, <3>3, PlaceMoney
    <3>4. CASE \/ pc[p] = "releaseWrite" /\ FinishCommit(p, "RELEASE", "RELEASED")
               \/ pc[p] = "convertWrite" /\ FinishCommit(p, "CONVERT", "CONVERTED")
      BY <1>2, <3>4, SettleMoney
    <3>5. CASE MutateUpdate(p) /\ wallets' # wallets
      <4>1. ~OnlyHoldsMoveMoney
        BY <1>1, <3>5, NoMutations DEF MoneyInv, MutateUpdate, MutatePcs
      <4> QED
        BY <3>5, <4>1, MutateMoney
    <3> QED
      BY <3>2, <3>3, <3>4, <3>5
  <2> QED
    BY <2>1, <2>2
<1>4. HeldCoversHolds'
  BY <1>3 DEF HeldCoversHolds, Covered
<1>5. BalancesFollowHolds'
  BY <1>1, <1>3 DEF BalancesFollowHolds, Followed
<1> QED
  BY <1>1, <1>3, <1>4, <1>5 DEF MoneyInv

LEMMA MoneyInit == Init => MoneyInv
<1> SUFFICES ASSUME Init PROVE MoneyInv
  OBVIOUS
<1>1. Serial /\ call[Worker] \notin MutateCall
  BY SerialInit, LedgerInit DEF LedgerInv
<1>2. DOMAIN holds = {} /\ IsFiniteSet(DOMAIN holds)
  BY FS_EmptySet DEF Init
<1>3. \A w, s : Total(HoldsOf(w, s)) = 0
  <2> TAKE w, s
  <2>1. HoldsOf(w, s) = {}
    BY <1>2 DEF HoldsOf
  <2> QED
    BY <2>1, SumEmpty, TotalIsSum
<1>4. \A w \in Wallets : wallets[w].active = InitialActive /\ wallets[w].held = 0
  BY DEF Init, NewWallet
<1>5. HeldCoversHolds /\ BalancesFollowHolds
  BY <1>3, <1>4, BoundsAssumption DEF HeldCoversHolds, BalancesFollowHolds
<1> QED
  BY <1>1, <1>2, <1>5 DEF MoneyInv

LEMMA MoneyInvariant == ASSUME MaxConnections = 1 PROVE Spec => []MoneyInv
BY MoneyInit, MoneyStep, PTL DEF Spec

(* With one connection what a wallet holds covers its ACTIVE holds, whatever trybid
   adds to it. *)
THEOREM SerialHeldCovers ==
  ASSUME MaxConnections = 1
  PROVE  Spec => []HeldCoversHolds
<1>1. MoneyInv => HeldCoversHolds
  BY DEF MoneyInv
<1> QED
  BY <1>1, MoneyInvariant, PTL

(* With one connection, while only holds move money, the two balances of a wallet
   are what its holds say. *)
THEOREM SerialBalances ==
  ASSUME MaxConnections = 1
  PROVE  Spec => []BalancesFollowHolds
<1>1. MoneyInv => BalancesFollowHolds
  BY DEF MoneyInv
<1> QED
  BY <1>1, MoneyInvariant, PTL

-----------------------------------------------------------------------------
(* The table as time goes by: rows stay, only their status changes, and it never
   changes back to ACTIVE. *)
Later ==
  /\ DOMAIN holds \subseteq DOMAIN holds'
  /\ \A h \in DOMAIN holds :
       /\ holds'[h].auction = holds[h].auction
       /\ holds'[h].bid = holds[h].bid
       /\ holds'[h].amount = holds[h].amount
       /\ holds[h].status # "ACTIVE" => holds'[h].status # "ACTIVE"

LEMMA HoldCommitLater ==
  ASSUME TypeOK, NEW p \in Processes, HoldCommit(p)
  PROVE  /\ Later
         /\ call[p].op = "hold" /\ call[p].hold \in DOMAIN holds'
         /\ holds'[call[p].hold].auction = call[p].auction
         /\ holds'[call[p].hold].bid = call[p].bid
<1>1. RowsKept /\ call[p] \in HoldCall
  BY HoldCommitRows
<1>2. \A h \in DOMAIN holds :
        holds'[h] = IF h \in siblings[p] THEN [holds[h] EXCEPT !.status = "RELEASED"]
                    ELSE holds[h]
  BY DEF HoldCommit, PlacedHolds
<1>3. \A h \in DOMAIN holds : holds[h] \in HoldRow
  BY DEF TypeOK
<1>4. \A h \in DOMAIN holds : holds[h].status # "ACTIVE" => holds'[h].status # "ACTIVE"
  BY <1>2, <1>3 DEF HoldRow
<1>5. /\ call[p].hold \in DOMAIN holds'
      /\ holds'[call[p].hold].auction = call[p].auction
      /\ holds'[call[p].hold].bid = call[p].bid
  BY DEF HoldCommit, PlacedHolds
<1> QED
  BY <1>1, <1>4, <1>5 DEF Later, RowsKept, HoldCall

LEMMA FinishCommitLater ==
  ASSUME TypeOK, NEW p \in Processes, NEW type, NEW status \in {"RELEASED", "CONVERTED"},
         pc[p] \in ReleasePcs \cup ConvertPcs, FinishCommit(p, type, status)
  PROVE  /\ Later
         /\ call[p] \in FinishCall /\ call[p].hold \in DOMAIN holds
         /\ holds'[call[p].hold].status # "ACTIVE"
<1>1. RowsKept /\ call[p] \in FinishCall /\ call[p].hold \in DOMAIN holds
  BY FinishCommitRows
<1>2. \A h \in DOMAIN holds :
        holds'[h] = IF h = call[p].hold THEN [holds[h] EXCEPT !.status = status]
                    ELSE holds[h]
  BY DEF FinishCommit
<1>3. \A h \in DOMAIN holds : holds[h] \in HoldRow
  BY DEF TypeOK
<1>4. \A h \in DOMAIN holds : holds[h].status # "ACTIVE" => holds'[h].status # "ACTIVE"
  BY <1>2, <1>3 DEF HoldRow
<1>5. holds'[call[p].hold].status # "ACTIVE"
  BY <1>1, <1>2, <1>3 DEF HoldRow
<1> QED
  BY <1>1, <1>4, <1>5 DEF Later, RowsKept

LEMMA StepsLater == TypeOK /\ [Next]_vars => Later
<1> SUFFICES ASSUME TypeOK, [Next]_vars PROVE Later
  OBVIOUS
<1>1. CASE holds' = holds
  BY <1>1 DEF Later
<1>2. CASE holds' # holds
  BY <1>2, WhoSettles, HoldCommitLater, FinishCommitLater DEF ReleasePcs, ConvertPcs
<1> QED
  BY <1>1, <1>2

-----------------------------------------------------------------------------
(* How a hold operation returns a hold. *)

LEMMA OwnStep ==
  ASSUME TypeOK, Next, NEW p \in Requests, pc'[p] # pc[p]
  PROVE  Start(p) \/ Continue(p) \/ Abort(p)
<1>1. p # Worker /\ p \in Processes /\ Worker \in Processes
  BY ProcessAssumption DEF Processes
<1>2. ASSUME NEW q \in Processes, q # p, Start(q) \/ Continue(q) \/ Abort(q) PROVE FALSE
  <2>1. ASSUME NEW o, Finish(q, o) PROVE FALSE
    BY <1>2, <2>1 DEF Finish, TypeOK
  <2>2. ASSUME NEW l, GoTo(q, l) PROVE FALSE
    BY <1>2, <2>2 DEF GoTo, TypeOK
  <2>3. CASE Start(q)
    BY <2>1, <2>2, <2>3 DEF Start, HoldLookup, ReleaseLookup, ConvertLookup, MutateRead, Quit
  <2>4. CASE Continue(q)
    BY <2>1, <2>2, <2>4 DEF Continue, HoldReadWallet, HoldReadSiblings, HoldWrite,
       ReleaseReadWallet, ReleaseWrite, ConvertReadWallet, ConvertWrite, ReadWalletFor,
       FinishHold, MutateLedger, MutateUpdate, Quit
  <2>5. CASE Abort(q)
    BY <2>1, <2>5 DEF Abort
  <2> QED
    BY <1>2, <2>3, <2>4, <2>5
<1>3. ~(WorkerTick \/ WorkerNext \/ \E h \in HoldIds : Expire(h))
  BY <1>1 DEF WorkerTick, WorkerNext, Expire, locals, GoTo, TypeOK
<1> QED
  BY <1>1, <1>2, <1>3 DEF Next

LEMMA ReturnCases ==
  ASSUME TypeOK, Next, NEW p \in Requests, Returns(p), pc'[p] \in {"ok", "existing"}
  PROVE  \/ pc'[p] = "existing" /\ call[p].op = "hold"
         \/ pc'[p] = "existing" /\ call[p].op = "release" /\ call[p].hold \in DOMAIN holds
              /\ ~IsActive(call[p].hold)
         \/ pc'[p] = "ok" /\ HoldCommit(p)
         \/ pc'[p] = "ok" /\ pc[p] = "releaseWrite" /\ FinishCommit(p, "RELEASE", "RELEASED")
         \/ pc'[p] = "ok" /\ pc[p] = "convertWrite" /\ FinishCommit(p, "CONVERT", "CONVERTED")
<1>1. p \in Processes /\ p # Worker /\ pc'[p] # pc[p] /\ call[p].op \in HoldOps
  BY ProcessAssumption DEF Processes, Returns
<1>2. \A o : Quit(p, o) => pc'[p] = o
  BY <1>1 DEF Quit, Finish, TypeOK
<1>3. \A l : GoTo(p, l) => pc'[p] = l
  BY <1>1 DEF GoTo, TypeOK
<1>4. CASE Start(p)
  <2>1. ~MutateRead(p)
    BY <1>1 DEF MutateRead, HoldOps
  <2>2. ~ConvertLookup(p)
    BY <1>2, <1>3 DEF ConvertLookup
  <2>3. CASE HoldLookup(p)
    BY <1>2, <1>3, <2>3 DEF HoldLookup
  <2>4. CASE ReleaseLookup(p)
    BY <1>2, <1>3, <2>4 DEF ReleaseLookup
  <2> QED
    BY <1>4, <2>1, <2>2, <2>3, <2>4 DEF Start
<1>5. CASE Continue(p)
  <2>1. ~(MutateLedger(p) \/ MutateUpdate(p))
    BY <1>1 DEF MutateLedger, MutateUpdate, TypeOK, HandlerOK, MutatePcs, MutateCall, HoldOps
  <2>2. ~(HoldReadWallet(p) \/ HoldReadSiblings(p) \/ ReleaseReadWallet(p)
            \/ ConvertReadWallet(p))
    BY <1>2, <1>3 DEF HoldReadWallet, HoldReadSiblings, ReleaseReadWallet,
       ConvertReadWallet, ReadWalletFor
  <2>3. ASSUME NEW o \in {"error", "conflict"} PROVE ~Quit(p, o)
    BY <1>2, <2>3
  <2>4. CASE HoldWrite(p)
    <3>1. HoldCommit(p)
      BY <2>3, <2>4 DEF HoldWrite, HoldCommit
    <3> QED
      BY <1>1, <3>1 DEF HoldCommit, Finish, TypeOK
  <2>5. CASE ReleaseWrite(p)
    <3>1. pc[p] = "releaseWrite" /\ FinishCommit(p, "RELEASE", "RELEASED")
      BY <2>3, <2>5 DEF ReleaseWrite, FinishHold, FinishCommit
    <3> QED
      BY <1>1, <3>1 DEF FinishCommit, Finish, TypeOK
  <2>6. CASE ConvertWrite(p)
    <3>1. pc[p] = "convertWrite" /\ FinishCommit(p, "CONVERT", "CONVERTED")
      BY <2>3, <2>6 DEF ConvertWrite, FinishHold, FinishCommit
    <3> QED
      BY <1>1, <3>1 DEF FinishCommit, Finish, TypeOK
  <2> QED
    BY <1>5, <2>1, <2>2, <2>4, <2>5, <2>6 DEF Continue
<1>6. ~Abort(p)
  BY <1>1 DEF Abort, Finish, TypeOK
<1> QED
  BY <1>1, <1>4, <1>5, <1>6, OwnStep

-----------------------------------------------------------------------------
(* What an answer promises: the hold it names, and the one that is to be read back,
   is in the table, is of the bid asked for, and if said to be settled is settled. *)
NamesBid(p, h) == h \in DOMAIN holds /\ holds[h].auction = call[p].auction
                                      /\ holds[h].bid = call[p].bid

Stands(p, h, row) ==
  /\ h \in DOMAIN holds
  /\ holds[h].amount = row.amount
  /\ row.status # "ACTIVE" => holds[h].status # "ACTIVE"
  /\ call[p].op = "hold" => NamesBid(p, h)

AnswerOK(p) ==
  /\ answer[p] = Reading => call[p].op = "hold" /\ NamesBid(p, call[p].hold)
  /\ answer[p].kind = "hold" => Stands(p, answer[p].hold, answer[p].row)

ApiInv ==
  /\ TypeOK
  /\ DOMAIN answer = Requests
  /\ \A p \in Requests : AnswerOK(p)

(* An answer that promises nothing. *)
LEMMA Empty ==
  /\ NoAnswer # Reading /\ NoAnswer.kind # "hold"
  /\ Lost # Reading /\ Lost.kind # "hold" /\ Reading.kind = "reading"
  /\ \A c : Failed(c) # Reading /\ Failed(c).kind # "hold"
  /\ \A h, row : /\ Found(h, row) # Reading /\ Found(h, row).kind = "hold"
                 /\ Found(h, row).hold = h /\ Found(h, row).row = row
<1>1. \A a, b : a.kind # b.kind => a # b
  OBVIOUS
<1>2. /\ NoAnswer.kind = "none" /\ Lost.kind = "lost" /\ Reading.kind = "reading"
      /\ \A c : Failed(c).kind = "error"
      /\ \A h, row : /\ Found(h, row).kind = "hold"
                     /\ Found(h, row).hold = h /\ Found(h, row).row = row
  BY DEF NoAnswer, Lost, Reading, Failed, Found
<1> QED
  BY <1>1, <1>2

LEMMA AnswersAge ==
  ASSUME Later, NEW p \in Requests, AnswerOK(p), answer'[p] = answer[p], call'[p] = call[p]
  PROVE  AnswerOK(p)'
<1>1. ASSUME NEW h, NamesBid(p, h) PROVE NamesBid(p, h)'
  BY <1>1 DEF Later, NamesBid
<1>2. ASSUME NEW h, NEW row, Stands(p, h, row)
      PROVE  h \in DOMAIN holds' /\ holds'[h].amount = row.amount
             /\ (row.status # "ACTIVE" => holds'[h].status # "ACTIVE")
             /\ (call'[p].op = "hold" => NamesBid(p, h)')
  BY <1>1, <1>2 DEF Later, Stands
<1> QED
  BY <1>1, <1>2 DEF AnswerOK, Stands

LEMMA ResultOK ==
  ASSUME TypeOK, Next, NEW p \in Requests, Returns(p), Later, call'[p] = call[p],
         answer'[p] \in Results(p, pc'[p])
  PROVE  AnswerOK(p)'
<1> DEFINE a == answer'[p]
           o == pc'[p]
           h == call[p].hold
<1>0. p \in Processes /\ o \in Outcomes /\ call[p].op \in HoldOps
  BY DEF Processes, Returns
<1>1. CASE o = "existing" /\ call[p].op = "hold"
  <2>1. PICK g \in SameBid(call[p].auction, call[p].bid) : a = Found(g, holds[g])
    BY <1>1 DEF Results
  <2>2. g \in DOMAIN holds /\ holds[g].auction = call[p].auction /\ holds[g].bid = call[p].bid
    BY DEF SameBid
  <2>3. NamesBid(p, g)' /\ g \in DOMAIN holds' /\ holds'[g].amount = holds[g].amount
        /\ (holds[g].status # "ACTIVE" => holds'[g].status # "ACTIVE")
    BY <2>2 DEF NamesBid, Later
  <2> QED
    BY <2>1, <2>3, Empty DEF AnswerOK, Stands
<1>2. CASE o = "existing" /\ call[p].op # "hold"
  <2>1. a = Found(h, holds[h])
    BY <1>2 DEF Results
  <2>2. h \in DOMAIN holds
    <3>1. o \in {"ok", "existing"}
      BY <1>2
    <3> QED
      BY <1>2, <3>1, ReturnCases
  <2>3. h \in DOMAIN holds' /\ holds'[h].amount = holds[h].amount
        /\ (holds[h].status # "ACTIVE" => holds'[h].status # "ACTIVE")
    BY <2>2 DEF Later
  <2> QED
    BY <1>2, <2>1, <2>3, Empty DEF AnswerOK, Stands
<1>3. CASE o = "ok"
  <2>1. \/ HoldCommit(p)
        \/ pc[p] = "releaseWrite" /\ FinishCommit(p, "RELEASE", "RELEASED")
        \/ pc[p] = "convertWrite" /\ FinishCommit(p, "CONVERT", "CONVERTED")
    BY <1>3, ReturnCases
  <2>2. CASE HoldCommit(p)
    <3>1. call[p].op = "hold" /\ NamesBid(p, h)'
      BY <1>0, <2>2, HoldCommitLater DEF NamesBid
    <3>2. a = Reading
      BY <1>3, <3>1 DEF Results
    <3> QED
      BY <3>1, <3>2, Empty DEF AnswerOK
  <2>3. CASE ~HoldCommit(p)
    <3>1. /\ call[p] \in FinishCall /\ h \in DOMAIN holds
          /\ holds'[h].status # "ACTIVE"
      BY <1>0, <2>1, <2>3, FinishCommitLater DEF ReleasePcs, ConvertPcs
    <3>2. call[p].op \in {"release", "convert"}
      BY <3>1 DEF FinishCall
    <3>3. PICK s \in {"RELEASED", "CONVERTED"} : a = Settled(h, s)
      BY <1>3, <3>2 DEF Results
    <3>4. a = Found(h, a.row) /\ a.kind = "hold" /\ a.hold = h
          /\ a.row = [holds[h] EXCEPT !.status = s]
      BY <3>3, Empty DEF Settled
    <3>5. holds[h] \in HoldRow
      BY <3>1 DEF TypeOK
    <3>6. a.row.amount = holds[h].amount
      BY <3>4, <3>5 DEF HoldRow
    <3>7. a # Reading
      BY <3>4, Empty
    <3>8. h \in DOMAIN holds' /\ holds'[h].amount = a.row.amount
      BY <3>1, <3>6 DEF Later
    <3> QED
      BY <3>1, <3>2, <3>4, <3>7, <3>8 DEF AnswerOK, Stands
  <2> QED
    BY <2>2, <2>3
<1>4. CASE o \notin {"ok", "existing"}
  <2>1. a = Lost \/ \E c : a = Failed(c)
    BY <1>4 DEF Results
  <2> QED
    BY <2>1, Empty DEF AnswerOK
<1> QED
  BY <1>1, <1>2, <1>3, <1>4

LEMMA ApiInvInit == ApiInit => ApiInv
BY TypeInit, Empty DEF ApiInit, ApiInv, AnswerOK

LEMMA ApiIsNext == ApiNext => [Next]_vars
BY DEF ApiNext, HandlerStep, ReadBack, LoseReply

LEMMA ApiInvStep == ApiInv /\ [ApiNext]_apiVars => ApiInv'
<1> SUFFICES ASSUME ApiInv, [ApiNext]_apiVars PROVE ApiInv'
  OBVIOUS
<1>1. [Next]_vars
  BY ApiIsNext DEF apiVars
<1>2. TypeOK /\ TypeOK'
  BY <1>1, TypeStep DEF ApiInv
<1>3. Later /\ \A p \in Requests : call'[p] = call[p]
  BY <1>1, <1>2, StepsLater, CallsStay
<1>4. CASE UNCHANGED answer
  BY <1>2, <1>3, <1>4, AnswersAge DEF ApiInv
<1>5. ASSUME NEW p \in Requests, Next, Returns(p), NEW a \in Results(p, pc'[p]),
             answer' = [answer EXCEPT ![p] = a]
      PROVE  ApiInv'
  <2>1. answer'[p] = a /\ \A q \in Requests \ {p} : answer'[q] = answer[q]
    BY <1>5 DEF ApiInv
  <2>2. AnswerOK(p)'
    BY <1>2, <1>3, <1>5, <2>1, ResultOK
  <2> QED
    BY <1>2, <1>3, <1>5, <2>1, <2>2, AnswersAge DEF ApiInv
<1>6. ASSUME NEW p \in Requests, ReadBack(p) PROVE ApiInv'
  <2>1. /\ answer'[p] = Found(call[p].hold, holds[call[p].hold])
        /\ \A q \in Requests \ {p} : answer'[q] = answer[q]
        /\ UNCHANGED <<holds, call>>
    BY <1>6 DEF ReadBack, ApiInv, vars, tables, locals
  <2>2. call[p].op = "hold" /\ NamesBid(p, call[p].hold)
    BY <1>6 DEF ReadBack, ApiInv, AnswerOK
  <2>3. AnswerOK(p)'
    BY <2>1, <2>2, Empty DEF AnswerOK, Stands, NamesBid
  <2> QED
    BY <1>2, <1>3, <1>6, <2>1, <2>3, AnswersAge DEF ApiInv, ReadBack
<1>7. ASSUME NEW p \in Requests, LoseReply(p) PROVE ApiInv'
  <2>1. answer'[p] = Lost /\ \A q \in Requests \ {p} : answer'[q] = answer[q]
    BY <1>7 DEF LoseReply, ApiInv
  <2>2. AnswerOK(p)'
    BY <2>1, Empty DEF AnswerOK
  <2> QED
    BY <1>2, <1>3, <1>7, <2>1, <2>2, AnswersAge DEF ApiInv, LoseReply
<1> QED
  BY <1>4, <1>5, <1>6, <1>7 DEF ApiNext, HandlerStep, apiVars

LEMMA ApiInvariant == ApiSpec => []ApiInv
BY ApiInvInit, ApiInvStep, PTL DEF ApiSpec

-----------------------------------------------------------------------------
(* The replies change nothing in the handlers: every behaviour of the adapters is one
   of WalletHolds, so what is proved of it holds here. *)
THEOREM ApiRefinesHolds == ApiSpec => Spec
<1>1. ApiInit => Init
  BY DEF ApiInit
<1>2. [ApiNext]_apiVars => [Next]_vars
  BY ApiIsNext DEF apiVars
<1> QED
  BY <1>1, <1>2, PTL DEF ApiSpec, Spec

(* A success reply to a hold names a stored hold of the bid and auction asked for, with
   the amount it has, for every pool and every interleaving. *)
THEOREM HeldReplies == ApiSpec => []HeldRepliesStand
<1>1. ApiInv => HeldRepliesStand
  <2> SUFFICES ASSUME ApiInv, NEW p \in Requests,
                      call[p].op = "hold", answer[p].kind = "hold"
               PROVE  LET r == GrpcReply(answer[p]) IN
                      /\ r.hold \in DOMAIN holds
                      /\ holds[r.hold].auction = call[p].auction
                      /\ holds[r.hold].bid = call[p].bid
                      /\ holds[r.hold].amount = r.amount
    BY DEF HeldRepliesStand
  <2>1. GrpcReply(answer[p]).hold = answer[p].hold
        /\ GrpcReply(answer[p]).amount = answer[p].row.amount
    BY DEF GrpcReply
  <2> QED
    BY <2>1 DEF ApiInv, AnswerOK, Stands, NamesBid
<1> QED
  BY <1>1, ApiInvariant, PTL

(* A hold a caller was told is RELEASED or CONVERTED is never ACTIVE again. *)
THEOREM SettledReplies == ApiSpec => []SettledRepliesStand
<1>1. ApiInv => SettledRepliesStand
  <2> SUFFICES ASSUME ApiInv, NEW p \in Requests, answer[p].kind = "hold",
                      HttpReply(answer[p]).state # "ACTIVE"
               PROVE  LET r == HttpReply(answer[p]) IN
                      r.hold \in DOMAIN holds /\ holds[r.hold].status # "ACTIVE"
    BY DEF SettledRepliesStand
  <2>1. HttpReply(answer[p]).hold = answer[p].hold
        /\ HttpReply(answer[p]).state = answer[p].row.status
    BY DEF HttpReply
  <2> QED
    BY <2>1 DEF ApiInv, AnswerOK, Stands
<1> QED
  BY <1>1, ApiInvariant, PTL
=============================================================================
