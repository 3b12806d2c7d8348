-------------------------- MODULE PaymentContract --------------------------
(***************************************************************************)
(* What top-ups promise to the owner of a wallet, with no handler in       *)
(* sight: a payment is opened once, settled once in one step that credits  *)
(* what it opened for when it is PAID, and a direct top-up or withdrawal   *)
(* is carried out at most once and never below zero.                       *)
(***************************************************************************)
EXTENDS Integers, Functions

CONSTANTS
  Requests, Wallets, PaymentIds,
  Amounts,        \* the amounts callers name
  OpenPayments,   \* the payments open at the start
  OpenAmount, InitialActive

VARIABLES
  active,     \* per wallet, the money its owner can spend
  payments,
  carried     \* the direct top-ups and withdrawals carried out, by request

NewPayment(w, m) == [wallet |-> w, amount |-> m, status |-> "PENDING"]

Open(id, w, m) ==
  /\ id \notin DOMAIN payments /\ 0 < m
  /\ payments' = [i \in DOMAIN payments \cup {id} |->
                    IF i = id THEN NewPayment(w, m) ELSE payments[i]]
  /\ UNCHANGED <<active, carried>>

Settle(id, status) ==
  /\ id \in DOMAIN payments
  /\ payments[id].status = "PENDING"
  /\ payments' = [payments EXCEPT ![id].status = status]
  /\ active' = IF status = "PAID"
               THEN [active EXCEPT ![payments[id].wallet] = @ + payments[id].amount]
               ELSE active
  /\ UNCHANGED carried

Carry(r, w, dx) ==
  /\ r \notin carried
  /\ active[w] + dx >= 0
  /\ active' = [active EXCEPT ![w] = @ + dx]
  /\ carried' = carried \cup {r}
  /\ UNCHANGED payments

Init == /\ active = [w \in Wallets |-> InitialActive]
        /\ payments \in {[id \in OpenPayments |-> NewPayment(w, OpenAmount)] : w \in Wallets}
        /\ carried = {}

Next ==
  \/ \E id \in PaymentIds, w \in Wallets, m \in Amounts : Open(id, w, m)
  \/ \E id \in PaymentIds, status \in {"PAID", "FAILED", "EXPIRED"} : Settle(id, status)
  \/ \E r \in Requests, w \in Wallets, m \in Amounts : Carry(r, w, m) \/ Carry(r, w, -m)

Spec == Init /\ [][Next]_<<active, payments, carried>>
=============================================================================
