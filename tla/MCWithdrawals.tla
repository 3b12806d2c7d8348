--------------------------- MODULE MCWithdrawals ---------------------------
(* Instances of Withdrawals for TLC. *)
EXTENDS Withdrawals, TLC

CONSTANTS w1, k1, a1, a2

Create(key, m) ==
  [op |-> "create", wallet |-> w1, key |-> key, amount |-> m, account |-> a1]
Misaddressed ==
  [op |-> "create", wallet |-> w1, key |-> NoKey, amount |-> 1, account |-> NoAccount]
Status(s) == [op |-> "status", withdrawal |-> <<w1, k1>>, status |-> s]

(* Requests under one key with two amounts, others without a key, and the reports on
   the withdrawal made by key. *)
WithdrawalCalls ==
  {Create(k1, 1), Create(k1, 2), Create(NoKey, 1), Create(NoKey, 0), Misaddressed,
   Status("unknown")}
    \cup {Status(s) : s \in Terminal}

Symmetry == Permutations(Requests)
=============================================================================
