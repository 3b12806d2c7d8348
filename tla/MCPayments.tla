----------------------------- MODULE MCPayments -----------------------------
(* Instances of Payments for TLC. *)
EXTENDS Payments, TLC

CONSTANTS w1, k1, o1

Intent(key, m, method) ==
  [op |-> "intent", wallet |-> w1, key |-> key, amount |-> m, method |-> method]
Status(id, s) == [op |-> "status", payment |-> id, status |-> s]
Returned(id, word) == [op |-> "return", payment |-> id, word |-> word]
Sync(id) == [op |-> "sync", payment |-> id]
Get(id) == [op |-> "get", wallet |-> w1, payment |-> id]
Detail == [op |-> "detail", wallet |-> w1]
Mutate(type, m) == [op |-> type, wallet |-> w1, amount |-> m]

(* Two requests for one key under different amounts and methods, a request without a key, all that
   may happen to the payment made by key and to one that was open before, and
   mutations of their wallet. *)
PaymentCalls ==
  {Intent(k1, 1, "qris"), Intent(k1, 2, "none"), Intent(NoKey, 1, "mandiri"),
   Intent(k1, 0, "bca"), Intent(k1, 1, "unsupported"),
   Status(o1, "PENDING"), Status(o1, "PAID"), Status(o1, "FAILED"), Status(o1, "unknown"),
   Returned(<<w1, k1>>, "settlement"), Returned(o1, "expire"), Sync(o1), Sync(<<w1, k1>>),
   Get(o1), Get(<<w1, k1>>), Detail, Mutate("WITHDRAW", 1), Mutate("TOP_UP", 1)}

Symmetry == Permutations(Requests)
=============================================================================
