--------------------------- MODULE MCProvisioning ---------------------------
(* Instances of Provisioning for TLC. *)
EXTENDS Provisioning, TLC

CONSTANTS m1, m2, m3, e1, e2, e3, u1, u2, r1

(* Two events of a user who buys and sells, and a body that does not parse.  A connection
   that is lost brings either event a second time. *)
Mails == {m1, m2, m3}
EventIds == {e1, e2, e3}
EventsOfMails == (m1 :> e1) @@ (m2 :> e2) @@ (m3 :> e3)
UsersOfMails == (m1 :> u1) @@ (m2 :> u1) @@ (m3 :> u2)
RolesOfMails == (m1 :> "other") @@ (m2 :> "SELLER") @@ (m3 :> "BUYER")
Wanted == (r1 :> <<u1, "BUYER">>)
=============================================================================
