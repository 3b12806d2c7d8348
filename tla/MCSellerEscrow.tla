--------------------------- MODULE MCSellerEscrow ---------------------------
(* Instances of SellerEscrow for TLC. *)
EXTENDS SellerEscrow, TLC

CONSTANTS s1, s2, sale, order

Credit(s, ref, m) == [op |-> "credit", seller |-> s, ref |-> ref, amount |-> m]
Payout(ref, m) == [op |-> "payout", seller |-> s1, ref |-> ref, amount |-> m]
Take(m) == [op |-> "withdraw", seller |-> s1, amount |-> m]

(* One sale reported for either seller and without its id, an order paid out under
   its id and without, and a withdrawal. *)
SaleCalls ==
  {Credit(s1, sale, 2), Credit(s2, sale, 2), Credit(s1, None, 1), Credit(s1, sale, 0),
   Payout(order, 1), Payout(order, 2), Payout(None, 1), Take(1)}

(* What it takes to credit one sale and pay it out, with a retry. *)
OrderCalls == {Credit(s1, sale, 2), Credit(s1, None, 1), Payout(order, 2)}

Symmetry == Permutations(Requests)
=============================================================================
