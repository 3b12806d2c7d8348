------------------------- MODULE ProvisioningProofs -------------------------
(***************************************************************************)
(* Proofs about Provisioning for every number of consumers, messages and   *)
(* HTTP requests, and every number of losses and database errors.          *)
(***************************************************************************)
EXTENDS Provisioning, TLAPS

(* What a consumer knows of the message in its hands: the wallet is there before the
   event is recorded, and, unless a statement failed, before it is acknowledged. *)
ConsumerKnows(c) ==
  /\ pc[c] = "insertEvent" => OwnerOf(delivery[c]) \in wallets
  /\ pc[c] = "ack" /\ dbErrors = 0 /\ delivery[c] \notin Malformed =>
       OwnerOf(delivery[c]) \in wallets

Kept ==
  /\ TypeOK
  /\ RecordedHasWallet
  /\ AckedHasWallet
  /\ \A c \in Consumers : ConsumerKnows(c)

LEMMA KeptInit == Init => Kept
BY ProcessAssumption, BoundsAssumption, MessagesAssumption
   DEF Init, Kept, TypeOK, RecordedHasWallet, AckedHasWallet, ConsumerKnows, Handling,
       Processes

(* A consumer's step changes no other consumer's message or place. *)
LEMMA ConsumerAlone ==
  ASSUME TypeOK, NEW c \in Consumers,
         Consume(c) \/ DatabaseError(c) \/ LoseConnection(c) \/ Restart(c)
  PROVE  /\ \A p \in Processes \ {c} : pc'[p] = pc[p]
         /\ \A d \in Consumers \ {c} : delivery'[d] = delivery[d]
BY DEF TypeOK, Consume, Connect, Deliver, Ack, ProvisionExists, ProvisionFindWallet,
   ProvisionInsertWallet, ProvisionInsertEvent, DatabaseError, LoseConnection, Restart,
   Proceed, GoTo, InsertWallet, broker, Processes

LEMMA OwnerIsOwner == \A m \in Messages : OwnerOf(m) \in Owners
BY MessagesAssumption DEF OwnerOf, Owners, WalletRoles

(* The calls of the HTTP handlers and of the reconciler touch no message. *)
Call(r) ==
  \/ r \in Creators /\ (CreateFind(r) \/ CreateInsert(r))
  \/ r \in Reconcilers /\ (ReconcileRead(r) \/ ReconcileFind(r) \/ ReconcileInsert(r))
  \/ CallError(r)

LEMMA CallsAlone ==
  ASSUME TypeOK, NEW r \in Creators \cup Reconcilers, Call(r)
  PROVE  /\ UNCHANGED <<recorded, unpublished, ready, acked, delivery, connected>>
         /\ \A c \in Consumers : pc'[c] = pc[c]
         /\ wallets \subseteq wallets' /\ (dbErrors' = 0 => dbErrors = 0)
<1>1. \A c \in Consumers : c # r
  BY ProcessAssumption
<1>2. CASE dbErrors' = dbErrors
  BY <1>1, <1>2 DEF Call, TypeOK, CreateFind, CreateInsert, ReconcileRead, ReconcileFind,
     ReconcileInsert, CallError, Proceed, GoTo, InsertWallet, broker, Processes
<1>3. CASE dbErrors' = dbErrors + 1 /\ CallError(r)
  BY <1>1, <1>3 DEF TypeOK, CallError, GoTo, broker, Processes
<1> QED
  BY <1>2, <1>3 DEF Call, CreateFind, CreateInsert, ReconcileRead, ReconcileFind,
     ReconcileInsert, CallError, Proceed, InsertWallet

LEMMA TypeStep == TypeOK /\ [Next]_vars => TypeOK'
<1> SUFFICES ASSUME TypeOK, [Next]_vars PROVE TypeOK'
  OBVIOUS
<1> USE MessagesAssumption, ProcessAssumption, BoundsAssumption DEF Processes, walk
<1>1. ASSUME NEW c \in Consumers, Connect(c) PROVE TypeOK'
  BY <1>1 DEF TypeOK, Connect, GoTo, broker, Handling
<1>2. ASSUME NEW c \in Consumers, Deliver(c) PROVE TypeOK'
  BY <1>2 DEF TypeOK, Deliver, GoTo, Proceed, broker, Handling
<1>3. ASSUME NEW c \in Consumers, Ack(c) PROVE TypeOK'
  BY <1>3 DEF TypeOK, Ack, GoTo, broker, Handling
<1>4. ASSUME NEW c \in Consumers, ProvisionExists(c) PROVE TypeOK'
  BY <1>4 DEF TypeOK, ProvisionExists, GoTo, Proceed, broker, Handling
<1>5. ASSUME NEW c \in Consumers, ProvisionFindWallet(c) PROVE TypeOK'
  BY <1>5 DEF TypeOK, ProvisionFindWallet, GoTo, Proceed, broker, Handling
<1>6. ASSUME NEW c \in Consumers, ProvisionInsertWallet(c) PROVE TypeOK'
  BY <1>6, OwnerIsOwner DEF TypeOK, ProvisionInsertWallet, InsertWallet, GoTo, Proceed, broker,
     Handling
<1>7. ASSUME NEW c \in Consumers, ProvisionInsertEvent(c) PROVE TypeOK'
  BY <1>7 DEF TypeOK, ProvisionInsertEvent, EventAt, GoTo, broker, Handling
<1>8. ASSUME NEW c \in Consumers, DatabaseError(c) PROVE TypeOK'
  BY <1>8 DEF TypeOK, DatabaseError, GoTo, broker, Handling
<1>9. ASSUME NEW c \in Consumers, LoseConnection(c) PROVE TypeOK'
  BY <1>9 DEF TypeOK, LoseConnection, Requeue, Handling
<1>10. ASSUME NEW c \in Consumers, Restart(c) PROVE TypeOK'
  BY <1>10 DEF TypeOK, Restart, Requeue, GoTo, Handling
<1>11. ASSUME NEW r \in Creators, CreateFind(r) \/ CreateInsert(r) PROVE TypeOK'
  BY <1>11 DEF TypeOK, CreateFind, CreateInsert, InsertWallet, GoTo, Proceed, broker, Handling
<1>14. ASSUME NEW r \in Reconcilers, ReconcileRead(r) PROVE TypeOK'
  BY <1>14 DEF TypeOK, ReconcileRead, GoTo, broker, Handling
<1>15. ASSUME NEW r \in Reconcilers, ReconcileFind(r) PROVE TypeOK'
  <2>1. CASE batch[r] = {} /\ Proceed(r, "ok")
    BY <1>15, <2>1 DEF TypeOK, ReconcileFind, GoTo, Proceed, broker, Handling
  <2>2. ASSUME NEW u \in batch[r],
               batch' = [batch EXCEPT ![r] = @ \ {u}], user' = [user EXCEPT ![r] = u],
               GoTo(r, IF <<u, "BUYER">> \in wallets THEN "walk" ELSE "restore"),
               UNCHANGED <<wallets, recorded, broker, delivery, connected, losses, dbErrors>>
        PROVE  TypeOK'
    <3>1. u \in Users /\ batch' \in [Reconcilers -> SUBSET Users]
      BY <2>2 DEF TypeOK
    <3>2. user' \in [Reconcilers -> Users \cup {NoUser}]
      BY <2>2, <3>1 DEF TypeOK
    <3>3. \A x \in Reconcilers : /\ pc'[x] \in {"recent", "walk", "restore", "ok", "error"}
                                /\ pc'[x] = "restore" => user'[x] \in Users
      BY <2>2, <3>1 DEF TypeOK, GoTo
    <3> QED
      BY <2>2, <3>1, <3>2, <3>3 DEF TypeOK, GoTo, broker, Handling
  <2> QED
    BY <1>15, <2>1, <2>2 DEF ReconcileFind
<1>16. ASSUME NEW r \in Reconcilers, ReconcileInsert(r) PROVE TypeOK'
  <2>1. <<user[r], "BUYER">> \in Owners
    BY <1>16 DEF TypeOK, ReconcileInsert, Owners, WalletRoles
  <2> QED
    BY <1>16, <2>1 DEF TypeOK, ReconcileInsert, InsertWallet, GoTo, Proceed, broker, Handling
<1>17. ASSUME NEW r \in Creators \cup Reconcilers, CallError(r) PROVE TypeOK'
  BY <1>17 DEF TypeOK, CallError, GoTo, broker, Handling
<1>12. ASSUME NEW m \in Messages, Publish(m) PROVE TypeOK'
  BY <1>12 DEF TypeOK, Publish, Handling
<1>13. CASE UNCHANGED vars
  BY <1>13 DEF TypeOK, vars, broker, Handling
<1> QED
  BY <1>1, <1>2, <1>3, <1>4, <1>5, <1>6, <1>7, <1>8, <1>9, <1>10, <1>11, <1>12, <1>13,
     <1>14, <1>15, <1>16, <1>17 DEF Next, Consume

(* Wallets are only added, so what a consumer knows holds as long as it stays where
   it is. *)
LEMMA OthersStillKnow ==
  ASSUME Kept, wallets \subseteq wallets', dbErrors' = 0 => dbErrors = 0,
         NEW d \in Consumers, pc'[d] = pc[d], delivery'[d] = delivery[d]
  PROVE  ConsumerKnows(d)'
BY DEF Kept, ConsumerKnows

(* The same for what is recorded and acknowledged already. *)
LEMMA PromisesStand ==
  ASSUME Kept, wallets \subseteq wallets', dbErrors' = 0 => dbErrors = 0
  PROVE  /\ recorded' = recorded => RecordedHasWallet'
         /\ acked' = acked => AckedHasWallet'
BY DEF Kept, RecordedHasWallet, AckedHasWallet

LEMMA NothingForgotten ==
  ASSUME TypeOK, [Next]_vars
  PROVE  wallets \subseteq wallets' /\ (dbErrors' = 0 => dbErrors = 0)
<1>1. ASSUME NEW r \in Creators \cup Reconcilers, Call(r)
      PROVE  wallets \subseteq wallets' /\ (dbErrors' = 0 => dbErrors = 0)
  BY <1>1, CallsAlone
<1> QED
  BY <1>1 DEF TypeOK, Next, Call, Consume, Connect, Deliver, Ack, ProvisionExists,
     ProvisionFindWallet, ProvisionInsertWallet, ProvisionInsertEvent, DatabaseError,
     LoseConnection, Restart, Publish, Proceed, InsertWallet, GoTo, vars, broker

(* A step of a consumer that records no event and acknowledges no message: it has to
   answer only for itself. *)
LEMMA ConsumerStep ==
  ASSUME Kept, TypeOK', NEW c \in Consumers,
         Consume(c) \/ DatabaseError(c) \/ LoseConnection(c) \/ Restart(c),
         recorded' = recorded \/ RecordedHasWallet',
         acked' = acked \/ AckedHasWallet',
         ConsumerKnows(c)'
  PROVE  Kept'
<1>1. [Next]_vars
  BY DEF Next
<1>2. wallets \subseteq wallets' /\ (dbErrors' = 0 => dbErrors = 0)
  BY <1>1, NothingForgotten DEF Kept
<1>3. RecordedHasWallet' /\ AckedHasWallet'
  BY <1>2, PromisesStand
<1>4. ASSUME NEW d \in Consumers \ {c} PROVE ConsumerKnows(d)'
  BY <1>2, ConsumerAlone, OthersStillKnow DEF Kept, Processes
<1> QED
  BY <1>3, <1>4 DEF Kept

LEMMA KeptStep == Kept /\ [Next]_vars => Kept'
<1> SUFFICES ASSUME Kept, [Next]_vars PROVE Kept'
  OBVIOUS
<1> USE DEF Processes
<1>a. TypeOK'
  BY TypeStep DEF Kept
<1>b. wallets \subseteq wallets' /\ (dbErrors' = 0 => dbErrors = 0)
  BY NothingForgotten DEF Kept
<1>1. ASSUME NEW c \in Consumers, Connect(c) PROVE Kept'
  <2>1. ConsumerKnows(c)'
    BY <1>1, <1>a DEF Kept, TypeOK, ConsumerKnows, Connect, GoTo
  <2> QED
    BY <1>1, <1>a, <2>1, ConsumerStep DEF Consume, Connect, broker
<1>2. ASSUME NEW c \in Consumers, Deliver(c) PROVE Kept'
  <2>1. ConsumerKnows(c)'
    BY <1>2, <1>a DEF Kept, TypeOK, ConsumerKnows, Deliver, GoTo, Proceed
  <2> QED
    BY <1>2, <1>a, <2>1, ConsumerStep DEF Consume, Deliver, Proceed, broker
<1>3. ASSUME NEW c \in Consumers, Ack(c) PROVE Kept'
  <2>1. ConsumerKnows(c)'
    BY <1>3, <1>a DEF Kept, TypeOK, ConsumerKnows, Ack, GoTo
  <2>2. AckedHasWallet'
    BY <1>3 DEF Kept, AckedHasWallet, ConsumerKnows, Ack, broker
  <2> QED
    BY <1>3, <1>a, <2>1, <2>2, ConsumerStep DEF Consume, Ack
<1>4. ASSUME NEW c \in Consumers, ProvisionExists(c) PROVE Kept'
  <2>1. delivery[c] \in Messages
    BY <1>4 DEF Kept, TypeOK, ProvisionExists, Handling
  <2>2. EventAt(c) \in recorded => OwnerOf(delivery[c]) \in wallets
    BY <2>1 DEF Kept, RecordedHasWallet, EventAt
  <2>3. ConsumerKnows(c)'
    BY <1>4, <2>2 DEF Kept, TypeOK, ConsumerKnows, ProvisionExists, GoTo, Proceed
  <2> QED
    BY <1>4, <1>a, <2>3, ConsumerStep DEF Consume, ProvisionExists, Proceed, broker
<1>5. ASSUME NEW c \in Consumers, ProvisionFindWallet(c) PROVE Kept'
  <2>1. ConsumerKnows(c)'
    BY <1>5 DEF Kept, TypeOK, ConsumerKnows, ProvisionFindWallet, GoTo, Proceed
  <2> QED
    BY <1>5, <1>a, <2>1, ConsumerStep DEF Consume, ProvisionFindWallet, Proceed, broker
<1>6. ASSUME NEW c \in Consumers, ProvisionInsertWallet(c) PROVE Kept'
  <2>1. ConsumerKnows(c)'
    BY <1>6 DEF Kept, TypeOK, ConsumerKnows, ProvisionInsertWallet, InsertWallet, GoTo,
       Proceed, Processes, broker
  <2> QED
    BY <1>6, <1>a, <2>1, ConsumerStep DEF Consume, ProvisionInsertWallet, InsertWallet,
       Proceed, broker
<1>7. ASSUME NEW c \in Consumers, ProvisionInsertEvent(c) PROVE Kept'
  <2>1. delivery[c] \in Messages /\ OwnerOf(delivery[c]) \in wallets
    BY <1>7 DEF Kept, TypeOK, ConsumerKnows, ProvisionInsertEvent, Handling
  <2>2. \A m \in Messages : EventOf[m] = EventAt(c) => OwnerOf(m) = OwnerOf(delivery[c])
    BY <2>1, SameEventSameUser DEF EventAt, OwnerOf
  <2>3. RecordedHasWallet'
    BY <1>7, <2>1, <2>2 DEF Kept, RecordedHasWallet, ProvisionInsertEvent
  <2>4. ConsumerKnows(c)'
    BY <1>7, <2>1 DEF Kept, TypeOK, ConsumerKnows, ProvisionInsertEvent, GoTo
  <2> QED
    BY <1>7, <1>a, <2>3, <2>4, ConsumerStep DEF Consume, ProvisionInsertEvent, broker
<1>8. ASSUME NEW c \in Consumers, DatabaseError(c) PROVE Kept'
  <2>1. ConsumerKnows(c)'
    BY <1>8 DEF Kept, TypeOK, ConsumerKnows, DatabaseError, GoTo
  <2> QED
    BY <1>8, <1>a, <2>1, ConsumerStep DEF DatabaseError, broker
<1>9. ASSUME NEW c \in Consumers, LoseConnection(c) PROVE Kept'
  <2>1. ConsumerKnows(c)'
    BY <1>9 DEF Kept, ConsumerKnows, LoseConnection
  <2> QED
    BY <1>9, <1>a, <2>1, ConsumerStep DEF LoseConnection
<1>10. ASSUME NEW c \in Consumers, Restart(c) PROVE Kept'
  <2>1. ConsumerKnows(c)'
    BY <1>10 DEF Kept, TypeOK, ConsumerKnows, Restart, GoTo
  <2> QED
    BY <1>10, <1>a, <2>1, ConsumerStep DEF Restart
<1>11. ASSUME NEW r \in Creators \cup Reconcilers, Call(r) PROVE Kept'
  BY <1>11, <1>a, <1>b, CallsAlone, OthersStillKnow, PromisesStand DEF Kept
<1>12. ASSUME NEW m \in Messages, Publish(m) PROVE Kept'
  BY <1>12, <1>a, <1>b, OthersStillKnow, PromisesStand DEF Kept, Publish
<1>13. CASE UNCHANGED vars
  BY <1>13, <1>a, <1>b, OthersStillKnow, PromisesStand DEF Kept, vars, broker
<1> QED
  BY <1>1, <1>2, <1>3, <1>4, <1>5, <1>6, <1>7, <1>8, <1>9, <1>10, <1>11, <1>12, <1>13
     DEF Next, Consume, Call

LEMMA KeptInvariant == Spec => []Kept
BY KeptInit, KeptStep, PTL DEF Spec

-----------------------------------------------------------------------------
(* Every reachable state is type correct; in particular a consumer has a message in
   its hands exactly while it handles or acknowledges one (consume_loop). *)
THEOREM TypeCorrect == Spec => []TypeOK
<1>1. Kept => TypeOK
  BY DEF Kept
<1> QED
  BY <1>1, KeptInvariant, PTL

(* For any number of consumers, callers, repeated events, losses and database errors,
   a recorded event has its wallet, so that provision_wallet may skip it. *)
THEOREM RecordedProvisioned == Spec => []RecordedHasWallet
<1>1. Kept => RecordedHasWallet
  BY DEF Kept
<1> QED
  BY <1>1, KeptInvariant, PTL

(* As long as no database error made a handler fail, consume_loop acknowledges a
   message only when its user has a wallet. *)
THEOREM AcknowledgedProvisioned == Spec => []AckedHasWallet
<1>1. Kept => AckedHasWallet
  BY DEF Kept
<1> QED
  BY <1>1, KeptInvariant, PTL
=============================================================================
