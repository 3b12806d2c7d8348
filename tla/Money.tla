------------------------------- MODULE Money -------------------------------
(***************************************************************************)
(* The widths of an amount of rupiah on its way through the program: u64   *)
(* in Money (src/src/wallet.rs), i64 where a row is bound or read, and the *)
(* INTEGER column with CHECK (... >= 0) where it is stored.                *)
(***************************************************************************)
EXTENDS Integers

CONSTANTS
  Half,       \* 2^63: half the range of u64, the first value i64 cannot hold
  ColumnMax   \* the largest INTEGER: 2^31 - 1 in PostgreSQL, 2^63 - 1 in SQLite

ASSUME WidthAssumption ==
  /\ Half \in Nat \ {0}
  /\ ColumnMax \in 0 .. (Half - 1)

U64 == 2 * Half

(* A u64: what a request may carry and what Money holds. *)
Amount == 0 .. (U64 - 1)

(* Add for Money in a build without overflow checks, the release build. *)
Sum(a, b) == (a + b) % U64

(* amount.rupiah() as i64, and row.amount as u64. *)
AsI64(m) == IF m < Half THEN m ELSE m - U64
AsU64(i) == i % U64

(* Mutant: the CHECK is not there. *)
ColumnAcceptsNegative(i) == i <= ColumnMax

(* The INTEGER column takes the value and its CHECK holds. *)
ColumnAccepts(i) == i \in 0 .. ColumnMax
=============================================================================
