--------------------------- MODULE MCWalletHolds ---------------------------
(* Instances of WalletHolds for TLC. *)
EXTENDS WalletHolds, TLC

CONSTANTS h1, h2, w1, a1, a2, b1, b2

Hold(h, a, b, m) == [op |-> "hold", hold |-> h, wallet |-> w1,
                     auction |-> a, bid |-> b, amount |-> m]
Release(h) == [op |-> "release", hold |-> h]
Convert(h) == [op |-> "convert", hold |-> h]
Mutate(op, m) == [op |-> op, wallet |-> w1, amount |-> m]

(* Two holds of one auction, under the same bid or another, what ends them, and calls
   that move money outside holds. *)
AllCalls ==
  {Hold(h, a1, b, m) : h \in {h1, h2}, b \in {b1, b2}, m \in {1, 2}}
    \cup {Release(h) : h \in {h1, h2}} \cup {Convert(h) : h \in {h1, h2}}
    \cup {Hold(h1, a1, b1, 0), Mutate("TOP_UP", 1), Mutate("WITHDRAW", 2), Mutate("BID", 1)}

(* Fewer of them, for instances with more interleavings. *)
RaceCalls ==
  {Hold(h1, a1, b1, 1), Hold(h2, a1, b2, 2), Hold(h2, a1, b1, 2), Release(h1), Convert(h1)}

MixedCalls ==
  {Hold(h1, a1, b1, 1), Hold(h2, a1, b2, 2), Hold(h1, a1, b1, 0), Hold(h1, a2, b2, 1),
   Release(h1), Convert(h1), Mutate("TOP_UP", 1), Mutate("WITHDRAW", 2),
   Mutate("BID", 1), Mutate("BID", 0)}

Symmetry == Permutations(Requests)
=============================================================================
