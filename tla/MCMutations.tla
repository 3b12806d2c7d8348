---------------------------- MODULE MCMutations ----------------------------
(* Instances of Mutations for TLC. *)
EXTENDS Mutations

CONSTANTS r1, r2, r3, u1, u2, u3

Mutate(op, o, a) == [op |-> op, owner |-> o, amount |-> a]
Cancel(o, r) == [op |-> "CANCEL", owner |-> o, of |-> r]

(* ColumnMax is 3 and U64 16 in the instance: 5 is too large for the column, 9 and 15
   are negative as i64, and 15 wraps every balance but 0. *)
SomeCalls ==
  {Mutate("TOP_UP", u1, a) : a \in {0, 1, 2, 5, 9, 15}}
    \cup {Mutate(t, u1, 1) : t \in {"WITHDRAW", "HOLD", "RELEASE", "CONVERT"}}
    \cup {Mutate("BID", o, 1) : o \in {u1, u2}} \cup {Mutate("TOP_UP", u3, 1)}
    \cup {Cancel(u1, r1), Cancel(u2, r1), Cancel(u1, r2)}
=============================================================================
