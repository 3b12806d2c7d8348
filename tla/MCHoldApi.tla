----------------------------- MODULE MCHoldApi -----------------------------
(* Instances of HoldApi for TLC: the calls of MCWalletHolds. *)
EXTENDS MCWalletHolds, HoldApi
=============================================================================
