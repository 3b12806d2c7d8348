---------------------------- MODULE Provisioning ----------------------------
(***************************************************************************)
(* Wallets for new users: the RabbitMQ consumer that provisions a wallet   *)
(* for every auth event, next to the HTTP handlers that create the wallet  *)
(* of a user they meet (create_wallet, ensure_wallet) and to               *)
(* reconcile_provisioned_wallets.                                          *)
(*                                                                         *)
(* The broker is external: it holds each message until it is acknowledged  *)
(* and delivers it again, to any instance of the service, when the         *)
(* connection it was delivered on is gone.  The auth service may publish   *)
(* an event twice.  Every message is told apart by its own identity; an    *)
(* event by its event_id.                                                  *)
(***************************************************************************)
EXTENDS Naturals

CONSTANTS
  Consumers,       \* instances of the service, each with one consumer
  Creators,        \* HTTP requests that create a wallet
  Reconcilers,     \* calls of reconcile_provisioned_wallets
  Users, NoUser,
  Messages,        \* what the auth service publishes
  NoMessage,
  Events,
  Malformed,       \* the messages whose body does not parse
  EventOf, UserOf, RoleOf, \* the event_id, user and role a message carries
  WantedBy,        \* the user and role a creator is about
  MaxLosses,       \* bound on lost connections and restarts
  MaxDatabaseErrors

(* A user has a wallet for each role. *)
WalletRoles == {"BUYER", "SELLER"}
Owners == Users \X WalletRoles

ASSUME MessagesAssumption ==
  /\ NoMessage \notin Messages
  /\ Malformed \subseteq Messages
  /\ EventOf \in [Messages -> Events]
  /\ UserOf \in [Messages -> Users]
  /\ RoleOf \in [Messages -> WalletRoles \cup {"other"}]
  /\ WantedBy \in [Creators -> Owners]
ASSUME SameEventSameUser ==
  \A m, n \in Messages :
    EventOf[m] = EventOf[n] => UserOf[m] = UserOf[n] /\ RoleOf[m] = RoleOf[n]
ASSUME ProcessAssumption ==
  /\ Consumers \cap Creators = {} /\ Consumers \cap Reconcilers = {}
  /\ Creators \cap Reconcilers = {}
ASSUME BoundsAssumption == MaxLosses \in Nat /\ MaxDatabaseErrors \in Nat

VARIABLES
  wallets,     \* the users and roles with a row in table wallets
  recorded,    \* table wallet_provisioning_events, the event ids
  unpublished, \* messages the auth service has yet to send
  ready,       \* messages the broker would deliver
  acked,       \* messages acknowledged, which the broker has dropped
  delivery,    \* the message each consumer has been given
  connected,   \* the consumers whose connection is open
  pc,
  batch, user, \* the users of the events a reconciler has read and not looked at, and the
               \* one it is looking at
  losses, dbErrors

broker == <<unpublished, ready, acked>>
walk == <<batch, user>>
vars == <<wallets, recorded, broker, delivery, connected, pc, walk, losses, dbErrors>>

-----------------------------------------------------------------------------
Processes == Consumers \cup Creators \cup Reconcilers
Handling == {"exists", "findWallet", "insertWallet", "insertEvent"}

GoTo(p, label) == pc' = [pc EXCEPT ![p] = label]
Proceed(p, label) ==
  /\ GoTo(p, label)
  /\ UNCHANGED <<wallets, recorded, broker, delivery, connected, walk, losses, dbErrors>>

(* The wallet a message asks for: whatever role is not SELLER is BUYER. *)
OwnerOf(m) == <<UserOf[m], IF RoleOf[m] = "SELLER" THEN "SELLER" ELSE "BUYER">>

EventAt(c) == EventOf[delivery[c]]

(* WalletRepository::insert; wallets is unique by user and role. *)
InsertWallet(owner) ==
  /\ wallets' = wallets \cup {owner}
  /\ UNCHANGED <<recorded, broker, delivery, connected, walk, losses, dbErrors>>

-----------------------------------------------------------------------------
(* consume_loop: connect, then one message at a time (basic_qos 1), acknowledged
   whether its handler succeeded or not. *)
Connect(c) ==
  /\ pc[c] = "retry"
  /\ connected' = connected \cup {c}
  /\ GoTo(c, "next")
  /\ UNCHANGED <<wallets, recorded, broker, delivery, walk, losses, dbErrors>>

(* Mutant: auto-acknowledgement, the message is gone once delivered. *)
DeliverAutoAck(c) ==
  /\ pc[c] = "next"
  /\ \/ c \notin connected /\ Proceed(c, "retry")
     \/ /\ c \in connected
        /\ \E m \in ready :
             /\ ready' = ready \ {m}
             /\ acked' = acked \cup {m}
             /\ delivery' = [delivery EXCEPT ![c] = m]
             /\ GoTo(c, IF m \in Malformed THEN "ack" ELSE "exists")
        /\ UNCHANGED <<wallets, recorded, unpublished, connected, walk, losses, dbErrors>>

(* consumer.next(), which ends when the connection does; a body that does not parse
   is acknowledged like any other. *)
Deliver(c) ==
  /\ pc[c] = "next"
  /\ \/ c \notin connected /\ Proceed(c, "retry")
     \/ /\ c \in connected
        /\ \E m \in ready :
             /\ ready' = ready \ {m}
             /\ delivery' = [delivery EXCEPT ![c] = m]
             /\ GoTo(c, IF m \in Malformed THEN "ack" ELSE "exists")
        /\ UNCHANGED <<wallets, recorded, unpublished, acked, connected, walk, losses, dbErrors>>

(* Mutant: an acknowledgement that fails is only logged. *)
AckUnchecked(c) ==
  /\ pc[c] = "ack"
  /\ GoTo(c, "next")
  /\ delivery' = [delivery EXCEPT ![c] = IF c \in connected THEN NoMessage ELSE @]
  /\ acked' = IF c \in connected THEN acked \cup {delivery[c]} ELSE acked
  /\ UNCHANGED <<wallets, recorded, unpublished, ready, connected, walk, losses, dbErrors>>

(* An acknowledgement on a lost connection fails, and consume_loop with it. *)
Ack(c) ==
  /\ pc[c] = "ack"
  /\ delivery' = [delivery EXCEPT ![c] = NoMessage]
  /\ \/ /\ c \in connected
        /\ acked' = acked \cup {delivery[c]}
        /\ GoTo(c, "next")
     \/ /\ c \notin connected
        /\ GoTo(c, "retry")
        /\ UNCHANGED acked
  /\ UNCHANGED <<wallets, recorded, unpublished, ready, connected, walk, losses, dbErrors>>

-----------------------------------------------------------------------------
(* provision_wallet *)
ProvisionExists(c) ==
  /\ pc[c] = "exists"
  /\ Proceed(c, IF EventAt(c) \in recorded THEN "ack" ELSE "findWallet")

(* Mutant: the event is looked at, the wallet is not. *)
ProvisionWalletAssumed(c) == pc[c] = "findWallet" /\ Proceed(c, "insertEvent")

ProvisionFindWallet(c) ==
  /\ pc[c] = "findWallet"
  /\ Proceed(c, IF OwnerOf(delivery[c]) \in wallets THEN "insertEvent" ELSE "insertWallet")

(* A wallet that someone else has inserted since ends the handler with an error. *)
ProvisionInsertWallet(c) ==
  /\ pc[c] = "insertWallet"
  /\ LET owner == OwnerOf(delivery[c]) IN
     \/ owner \in wallets /\ Proceed(c, "ack")
     \/ owner \notin wallets /\ InsertWallet(owner) /\ GoTo(c, "insertEvent")

(* event_id is the primary key: a second row is refused, and that is an error too. *)
ProvisionInsertEvent(c) ==
  /\ pc[c] = "insertEvent"
  /\ recorded' = recorded \cup {EventAt(c)}
  /\ GoTo(c, "ack")
  /\ UNCHANGED <<wallets, broker, delivery, connected, walk, losses, dbErrors>>

(* A statement fails for the database's own reasons: the handler returns an error. *)
DatabaseError(c) ==
  /\ pc[c] \in Handling
  /\ dbErrors < MaxDatabaseErrors
  /\ dbErrors' = dbErrors + 1
  /\ GoTo(c, "ack")
  /\ UNCHANGED <<wallets, recorded, broker, delivery, connected, walk, losses>>

-----------------------------------------------------------------------------
(* create_wallet_core *)
CreateFind(r) ==
  /\ pc[r] = "new"
  /\ Proceed(r, IF WantedBy[r] \in wallets THEN "ok" ELSE "insert")

CreateInsert(r) ==
  /\ pc[r] = "insert"
  /\ \/ WantedBy[r] \in wallets /\ Proceed(r, "error")
     \/ WantedBy[r] \notin wallets /\ InsertWallet(WantedBy[r]) /\ GoTo(r, "ok")

-----------------------------------------------------------------------------
(* reconcile_provisioned_wallets: the latest recorded events, as many as the limit lets
   through, and a BUYER wallet for each user without one. *)
ReconcileRead(r) ==
  /\ pc[r] = "recent"
  /\ \E events \in SUBSET recorded :
       batch' = [batch EXCEPT ![r] = {UserOf[m] : m \in {n \in Messages : EventOf[n] \in events}}]
  /\ GoTo(r, "walk")
  /\ UNCHANGED <<wallets, recorded, broker, delivery, connected, user, losses, dbErrors>>

ReconcileFind(r) ==
  /\ pc[r] = "walk"
  /\ \/ batch[r] = {} /\ Proceed(r, "ok")
     \/ \E u \in batch[r] :
          /\ batch' = [batch EXCEPT ![r] = @ \ {u}]
          /\ user' = [user EXCEPT ![r] = u]
          /\ GoTo(r, IF <<u, "BUYER">> \in wallets THEN "walk" ELSE "restore")
          /\ UNCHANGED <<wallets, recorded, broker, delivery, connected, losses, dbErrors>>

(* A wallet inserted since ends the walk with an error. *)
ReconcileInsert(r) ==
  /\ pc[r] = "restore"
  /\ LET owner == <<user[r], "BUYER">> IN
     \/ owner \in wallets /\ Proceed(r, "error")
     \/ owner \notin wallets /\ InsertWallet(owner) /\ GoTo(r, "walk")

(* A statement of either call fails.  create_wallet_core takes an error of its search for
   an absent wallet; every other error ends the call. *)
CallError(r) ==
  /\ pc[r] \in {"new", "insert", "recent", "walk", "restore"}
  /\ dbErrors < MaxDatabaseErrors
  /\ dbErrors' = dbErrors + 1
  /\ GoTo(r, IF pc[r] = "new" THEN "insert" ELSE "error")
  /\ UNCHANGED <<wallets, recorded, broker, delivery, connected, walk, losses>>

-----------------------------------------------------------------------------
(* The environment. *)
Publish(m) ==
  /\ m \in unpublished
  /\ unpublished' = unpublished \ {m}
  /\ ready' = ready \cup {m}
  /\ UNCHANGED <<wallets, recorded, acked, delivery, connected, pc, walk, losses, dbErrors>>

Requeue(c) ==
  IF c \notin connected THEN {} ELSE {delivery[c]} \ (acked \cup {NoMessage})

(* The broker notices that a connection is gone and makes its message ready again;
   the handler does not notice and goes on. *)
LoseConnection(c) ==
  /\ c \in connected /\ losses < MaxLosses
  /\ losses' = losses + 1
  /\ connected' = connected \ {c}
  /\ ready' = ready \cup Requeue(c)
  /\ UNCHANGED <<wallets, recorded, unpublished, acked, delivery, pc, walk, dbErrors>>

(* An instance stops between two statements and is started again. *)
Restart(c) ==
  /\ pc[c] # "retry" /\ losses < MaxLosses
  /\ losses' = losses + 1
  /\ connected' = connected \ {c}
  /\ ready' = ready \cup Requeue(c)
  /\ delivery' = [delivery EXCEPT ![c] = NoMessage]
  /\ GoTo(c, "retry")
  /\ UNCHANGED <<wallets, recorded, unpublished, acked, walk, dbErrors>>

-----------------------------------------------------------------------------
Init ==
  /\ wallets = {}
  /\ recorded = {}
  /\ unpublished = Messages
  /\ ready = {}
  /\ acked = {}
  /\ delivery = [c \in Consumers |-> NoMessage]
  /\ connected = {}
  /\ pc = [p \in Processes |-> IF p \in Consumers THEN "retry"
                              ELSE IF p \in Creators THEN "new" ELSE "recent"]
  /\ batch = [r \in Reconcilers |-> {}]
  /\ user = [r \in Reconcilers |-> NoUser]
  /\ losses = 0
  /\ dbErrors = 0

Consume(c) ==
  \/ Connect(c) \/ Deliver(c) \/ Ack(c)
  \/ ProvisionExists(c) \/ ProvisionFindWallet(c)
  \/ ProvisionInsertWallet(c) \/ ProvisionInsertEvent(c)

Next ==
  \/ \E c \in Consumers : Consume(c) \/ DatabaseError(c) \/ LoseConnection(c) \/ Restart(c)
  \/ \E r \in Creators : CreateFind(r) \/ CreateInsert(r)
  \/ \E r \in Reconcilers : ReconcileRead(r) \/ ReconcileFind(r) \/ ReconcileInsert(r)
  \/ \E r \in Creators \cup Reconcilers : CallError(r)
  \/ \E m \in Messages : Publish(m)

Spec == Init /\ [][Next]_vars

(* run() is a task of its own that loops for ever and tokio polls. *)
FairSpec == Spec /\ \A c \in Consumers : WF_vars(Consume(c))

-----------------------------------------------------------------------------
TypeOK ==
  /\ wallets \subseteq Owners
  /\ recorded \subseteq Events
  /\ unpublished \subseteq Messages /\ ready \subseteq Messages /\ acked \subseteq Messages
  /\ delivery \in [Consumers -> Messages \cup {NoMessage}]
  /\ connected \subseteq Consumers
  /\ pc \in [Processes -> {"retry", "next", "ack", "new", "insert", "recent", "walk", "restore",
                           "ok", "error"} \cup Handling]
  /\ \A c \in Consumers :
       /\ pc[c] \in {"retry", "next", "ack"} \cup Handling
       /\ pc[c] \in {"ack"} \cup Handling <=> delivery[c] \in Messages
  /\ \A r \in Creators : pc[r] \in {"new", "insert", "ok", "error"}
  /\ batch \in [Reconcilers -> SUBSET Users]
  /\ user \in [Reconcilers -> Users \cup {NoUser}]
  /\ \A r \in Reconcilers :
       /\ pc[r] \in {"recent", "walk", "restore", "ok", "error"}
       /\ pc[r] = "restore" => user[r] \in Users
  /\ losses \in 0 .. MaxLosses /\ dbErrors \in 0 .. MaxDatabaseErrors

-----------------------------------------------------------------------------
(* A recorded event has its wallet, and so a repeated event may be skipped: its record
   is the last thing the handler writes, through races with the HTTP handlers, with a
   second consumer of the same event, and restarts. *)
RecordedHasWallet ==
  \A m \in Messages : EventOf[m] \in recorded => OwnerOf(m) \in wallets

(* A message the broker has dropped has done its work, as long as no database error
   made a handler fail (its message is acknowledged too): its user has the wallet. *)
AckedHasWallet ==
  dbErrors = 0 => \A m \in acked \ Malformed : OwnerOf(m) \in wallets

(* Every event that is published is provisioned in the end, through lost connections
   and restarts, as long as there are no more of them, unless a database error made a
   handler fail. *)
PublishedIsProvisioned ==
  \A m \in Messages \ Malformed :
    m \notin unpublished ~> OwnerOf(m) \in wallets \/ dbErrors > 0
=============================================================================
