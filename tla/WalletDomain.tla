---------------------------- MODULE WalletDomain ----------------------------
(***************************************************************************)
(* The wallet entity of src/src/wallet.rs: two balances, an optimistic     *)
(* version, and the balance operations every service goes through.  Only   *)
(* pure operators live here; the modules that keep wallets in a table use  *)
(* them for what a handler computes from the row it has read.              *)
(***************************************************************************)
EXTENDS Integers

-----------------------------------------------------------------------------
(* The operations that move money, by the TransactionType they record.  The
   status rows (WITHDRAW_FAILED, WITHDRAW_EXPIRED, ...) that move none are the business
   of the modules that write them. *)
TransactionType ==
  {"TOP_UP", "WITHDRAW", "HOLD", "RELEASE", "CONVERT", "PAYOUT",
   "SELLER_ESCROW", "SELLER_ESCROW_SETTLE", "BID"}

CreditsActive == {"TOP_UP", "RELEASE", "PAYOUT", "SELLER_ESCROW_SETTLE"}
DebitsActive  == {"WITHDRAW", "HOLD", "BID"}
CreditsHeld   == {"HOLD", "SELLER_ESCROW", "BID"}
DebitsHeld    == {"RELEASE", "CONVERT", "SELLER_ESCROW_SETTLE"}

(* A row of table wallets.  Both balances carry CHECK (... >= 0). *)
Wallet == [active : Nat, held : Nat, version : Nat]

NewWallet == [active |-> 0, held |-> 0, version |-> 0]

-----------------------------------------------------------------------------
(* The sign with which an operation of type t moves amount a. *)
ActiveMove(t, a) == IF t \in CreditsActive THEN a
                    ELSE IF t \in DebitsActive THEN -a ELSE 0

HeldMove(t, a) == IF t \in CreditsHeld THEN a
                  ELSE IF t \in DebitsHeld THEN -a ELSE 0

(* Mutant: the balances are not looked at. *)
AllowedOnCredit(t, w, a) == a > 0

(* validate_positive, require_active_balance, require_held_balance: what an
   operation checks before it touches a balance. *)
Allowed(t, w, a) ==
  /\ a > 0
  /\ t \in DebitsActive => w.active >= a
  /\ t \in DebitsHeld => w.held >= a

(* The wallet value after the operation; the version is the one read. *)
Apply(t, w, a) ==
  [w EXCEPT !.active = @ + ActiveMove(t, a), !.held = @ + HeldMove(t, a)]

(* Mutant: the version stays. *)
StoredUnversioned(w) == w

(* UPDATE wallets SET ..., version = version + 1 WHERE id AND version: the row
   the update leaves when the version it was computed from is still there. *)
Stored(w) == [w EXCEPT !.version = @ + 1]
=============================================================================
