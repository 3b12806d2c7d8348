------------------------------ MODULE Midtrans ------------------------------
(***************************************************************************)
(* The adapter of the payment gateway (MidtransGateway): what one exchange *)
(* with Midtrans may come to, whatever Midtrans answers.  A result says    *)
(* what the gateway has done and what the service is told of it; the two   *)
(* come apart when an answer is lost or lacks what the service looks for.  *)
(* Without keys the adapter asks nobody and answers by itself.             *)
(***************************************************************************)

CONSTANTS
  ServerKeySet,  \* MIDTRANS_SERVER_KEY is set, and not to the local placeholder
  IrisKeysSet,   \* so are the API and merchant keys of IRIS
  Accounts       \* well-formed bank accounts

ASSUME KeysSetAssumption == ServerKeySet \in BOOLEAN /\ IrisKeysSet \in BOOLEAN

-----------------------------------------------------------------------------
(* MidtransPaymentMethod *)
Channel == {"bca_va", "bni_va", "bri_va", "permata_va", "mandiri_bill", "qris"}

(* parse: the spellings it knows, and the method of a request that names none. *)
Spellings ==
  [bca |-> "bca_va", bca_va |-> "bca_va", bni |-> "bni_va", bni_va |-> "bni_va",
   bri |-> "bri_va", bri_va |-> "bri_va", permata |-> "permata_va",
   permata_va |-> "permata_va", mandiri |-> "mandiri_bill", mandiri_bill |-> "mandiri_bill",
   qris |-> "qris", none |-> "bca_va"]

PaymentMethod == DOMAIN Spellings \cup {"unsupported"}

Parses(method) == method \in DOMAIN Spellings

(* payment_page: the answer must name the instruction of the channel asked for, a
   virtual account at its bank, a bill key or a QR code. *)
HasInstruction(channel, named) == channel \in named

(* create_payment: refused, or charged and an answer read that names instructions; an
   answer that is lost or cannot be read tells as much as one that names none. *)
Charge(method) ==
  IF ~Parses(method) THEN {[charged |-> FALSE, page |-> FALSE]}
  ELSE IF ~ServerKeySet THEN {[charged |-> FALSE, page |-> TRUE]}
  ELSE {[charged |-> FALSE, page |-> FALSE]} \cup
       {[charged |-> TRUE, page |-> HasInstruction(Spellings[method], named)] :
          named \in SUBSET Channel}

-----------------------------------------------------------------------------
(* fetch_transaction_status: what it may bring when it does not fail.  "settlement" stands
   for "capture" too, "deny" for "cancel" and "failure", "refund" for every word the
   service does not know. *)
StatusWord == {"settlement", "deny", "expire", "pending", "refund"}

FetchStatus == IF ServerKeySet THEN StatusWord ELSE {}

(* map_midtrans_transaction_status *)
Mapped(word) == CASE word = "settlement" -> "PAID"
                  [] word = "deny"       -> "FAILED"
                  [] word = "expire"     -> "EXPIRED"
                  [] word = "pending"    -> "PENDING"
                  [] OTHER               -> "unknown"

-----------------------------------------------------------------------------
(* validate_bank_account: the accounts it may name for the one asked about.  IRIS may
   refuse, or correct bank and number. *)
ValidatedAs(account) == IF IrisKeysSet THEN Accounts ELSE {account}

ValidationMayFail == IrisKeysSet

(* create_payout: refused; or paid, and the answer lost, or read.  The reference is that
   of the answer or else the one the request carried; a blank one is taken as it is. *)
Payout ==
  IF ~IrisKeysSet THEN {[paid |-> FALSE, reference |-> "own"]}
  ELSE {[paid |-> FALSE, reference |-> "failed"]} \cup
       {[paid |-> TRUE, reference |-> r] : r \in {"failed", "own", "answered", "blank"}}
=============================================================================
