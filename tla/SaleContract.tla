---------------------------- MODULE SaleContract ----------------------------
(***************************************************************************)
(* What seller escrow promises, with no handler in sight: a sale is        *)
(* recorded and credited to the held balance in one step and only once; a  *)
(* settlement is recorded once per order, and what it recorded moves from  *)
(* held to active at most once, afterwards, or never.                      *)
(***************************************************************************)
EXTENDS Integers

CONSTANTS
  Sellers,
  Ids,       \* what names a sale or an order
  Amounts    \* the amounts callers name

VARIABLES
  active,        \* per seller, what can be withdrawn
  held,          \* per seller, what is not settled yet
  sales,         \* the sales credited
  settlements,   \* the settlements recorded
  owed           \* those of them whose money has not moved

vars == <<active, held, sales, settlements, owed>>

Entry(id, s, m) == [id |-> id, seller |-> s, amount |-> m]
Unused(id, entries) == \A e \in entries : e.id # id

Credit(id, s, m) ==
  /\ 0 < m /\ Unused(id, sales)
  /\ sales' = sales \cup {Entry(id, s, m)}
  /\ held' = [held EXCEPT ![s] = @ + m]
  /\ UNCHANGED <<active, settlements, owed>>

(* Nothing is set aside for the order: whether the held balance still covers it shows
   when the money moves. *)
Claim(id, s, m) ==
  /\ 0 < m /\ Unused(id, settlements)
  /\ settlements' = settlements \cup {Entry(id, s, m)}
  /\ owed' = owed \cup {Entry(id, s, m)}
  /\ UNCHANGED <<active, held, sales>>

Settle(e) ==
  /\ e.amount <= held[e.seller]
  /\ active' = [active EXCEPT ![e.seller] = @ + e.amount]
  /\ held' = [held EXCEPT ![e.seller] = @ + -e.amount]
  /\ owed' = owed \ {e}
  /\ UNCHANGED <<sales, settlements>>

(* The order stays recorded and nobody moves its money any more. *)
Forfeit(e) ==
  owed' = owed \ {e} /\ UNCHANGED <<active, held, sales, settlements>>

Withdraw(s, m) ==
  /\ 0 < m /\ m <= active[s]
  /\ active' = [active EXCEPT ![s] = @ + -m]
  /\ UNCHANGED <<held, sales, settlements, owed>>

Init == /\ active = [s \in Sellers |-> 0] /\ held = [s \in Sellers |-> 0]
        /\ sales = {} /\ settlements = {} /\ owed = {}

Next ==
  \/ \E id \in Ids, s \in Sellers, m \in Amounts : Credit(id, s, m) \/ Claim(id, s, m)
  \/ \E e \in owed : Settle(e) \/ Forfeit(e)
  \/ \E s \in Sellers, m \in Amounts : Withdraw(s, m)

Spec == Init /\ [][Next]_vars
=============================================================================
