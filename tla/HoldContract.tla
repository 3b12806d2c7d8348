---------------------------- MODULE HoldContract ----------------------------
(***************************************************************************)
(* What holds promise to the auction service, with no handler in sight: a  *)
(* hold is placed, released and converted in one step each, a bid replaces *)
(* the holds of earlier bids in the same auction, and a settled hold is    *)
(* never touched again.  WalletHolds implements this when its pool lets    *)
(* one transaction run at a time.                                          *)
(***************************************************************************)
EXTENDS Integers, Functions

CONSTANTS
  Wallets, HoldIds, Auctions, Bids,
  Amounts,        \* the amounts callers name
  InitialActive   \* what every wallet holds at the start

VARIABLES
  active,   \* per wallet, the money its owner can spend
  held,     \* per wallet, the money set aside
  holds

ActiveIn(w, a) ==
  {h \in DOMAIN holds : /\ holds[h].wallet = w /\ holds[h].auction = a
                        /\ holds[h].status = "ACTIVE"}

Sum(hs) == SumFunctionOnSet([h \in DOMAIN holds |-> holds[h].amount], hs)

(* The balances of wallet w change by dx and dy. *)
Move(w, dx, dy) ==
  /\ active' = [active EXCEPT ![w] = @ + dx]
  /\ held' = [held EXCEPT ![w] = @ + dy]

(* The holds of earlier bids come back before the new amount is set aside. *)
Place(h, w, a, b, amount) ==
  LET replaced == ActiveIn(w, a)
      back == Sum(replaced) IN
  /\ h \notin DOMAIN holds
  /\ \A g \in DOMAIN holds : ~(holds[g].auction = a /\ holds[g].bid = b)
  /\ 0 < amount /\ active[w] + back >= amount
  /\ active' = [active EXCEPT ![w] = @ + back + -amount]
  /\ held' = [held EXCEPT ![w] = @ + -back + amount]
  /\ holds' = [g \in DOMAIN holds \cup {h} |->
                 IF g = h
                 THEN [wallet |-> w, auction |-> a, bid |-> b, amount |-> amount,
                       status |-> "ACTIVE"]
                 ELSE IF g \in replaced THEN [holds[g] EXCEPT !.status = "RELEASED"]
                 ELSE holds[g]]

Settle(h, back, status) ==
  /\ h \in DOMAIN holds
  /\ holds[h].status = "ACTIVE"
  /\ holds[h].amount <= held[holds[h].wallet]
  /\ Move(holds[h].wallet, back, -holds[h].amount)
  /\ holds' = [holds EXCEPT ![h].status = status]

Release(h) == Settle(h, holds[h].amount, "RELEASED")
Convert(h) == Settle(h, 0, "CONVERTED")

TopUp(w, amount) ==
  /\ 0 < amount
  /\ Move(w, amount, 0) /\ UNCHANGED holds

Withdraw(w, amount) ==
  /\ 0 < amount /\ amount <= active[w]
  /\ Move(w, -amount, 0) /\ UNCHANGED holds

(* A trybid sets money aside under no hold. *)
Bid(w, amount) ==
  /\ 0 < amount /\ amount <= active[w]
  /\ Move(w, -amount, amount) /\ UNCHANGED holds

Init == /\ active = [w \in Wallets |-> InitialActive]
        /\ held = [w \in Wallets |-> 0]
        /\ holds = [h \in {} |-> {}]

Next ==
  \/ \E h \in HoldIds, w \in Wallets, a \in Auctions, b \in Bids, m \in Amounts :
       Place(h, w, a, b, m)
  \/ \E h \in HoldIds : Release(h) \/ Convert(h)
  \/ \E w \in Wallets, m \in Amounts : TopUp(w, m) \/ Withdraw(w, m) \/ Bid(w, m)

Spec == Init /\ [][Next]_<<active, held, holds>>
=============================================================================
