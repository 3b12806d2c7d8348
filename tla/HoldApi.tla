------------------------------ MODULE HoldApi ------------------------------
(***************************************************************************)
(* What a caller of the hold operations is told: the result the service    *)
(* returns for a call of WalletHolds, and the replies the HTTP handlers    *)
(* (src/src/http/router.rs) and the gRPC adapter (src/src/grpc/mod.rs)     *)
(* make of it.                                                             *)
(***************************************************************************)
EXTENDS WalletHolds

VARIABLE
  answer   \* per request: what the service has returned to the handler

apiVars == <<vars, answer>>

-----------------------------------------------------------------------------
NoAnswer == [kind |-> "none"]
Reading  == [kind |-> "reading"]  \* committed, the new hold not yet read back
Lost     == [kind |-> "lost"]     \* the handler is gone

Found(h, row) == [kind |-> "hold", hold |-> h, row |-> row]
Failed(code)  == [kind |-> "error", code |-> code]

(* The HTTP reply.  map_error looks for "Insufficient active balance" where the
   domain says "insufficient active balance", so a refused hold has the general code. *)
HttpReply(a) ==
  IF a.kind = "hold"
  THEN [status |-> 200, hold |-> a.hold, state |-> a.row.status, amount |-> a.row.amount]
  ELSE [status |-> 400, code |-> a.code]

(* The gRPC reply to a hold: the state is the word HELD, whatever the hold's is. *)
GrpcReply(a) ==
  IF a.kind = "hold"
  THEN [status |-> "OK", hold |-> a.hold, state |-> "HELD", amount |-> a.row.amount]
  ELSE [status |-> "INTERNAL"]

(* The code of the error a handler ends with. *)
ErrorCode(p) ==
  CASE pc[p] = "new" /\ call[p].op = "hold" -> "INVALID_AMOUNT"
    [] call[p].op = "convert" /\ pc[p] = "new" /\ call[p].hold \in DOMAIN holds
         -> "HOLD_NOT_ACTIVE"
    [] OTHER -> "HOLD_OPERATION_FAILED"

(* The status of the hold record that release_funds and convert_funds return: the
   one they read first, with the status they have set. *)
Settled(h, status) == Found(h, [holds[h] EXCEPT !.status = status])

(* What the service may return as p ends with an outcome. *)
Results(p, outcome) ==
  LET op == call[p].op IN
  CASE outcome = "existing" /\ op = "hold" ->
         {Found(h, holds[h]) : h \in SameBid(call[p].auction, call[p].bid)}
    [] outcome = "existing" /\ op # "hold" -> {Found(call[p].hold, holds[call[p].hold])}
    [] outcome = "ok" /\ op = "hold" -> {Reading}
    [] outcome = "ok" /\ op = "release" -> {Settled(call[p].hold, "RELEASED")}
    [] outcome = "ok" /\ op = "convert" -> {Settled(call[p].hold, "CONVERTED")}
    [] outcome = "aborted" -> {Lost}
    [] OTHER -> {Failed(ErrorCode(p))}

HoldOps == {"hold", "release", "convert"}

Returns(p) == call[p].op \in HoldOps /\ pc'[p] # pc[p] /\ pc'[p] \in Outcomes

(* After COMMIT hold_funds reads the hold it has inserted, in a statement of its own:
   the hold may have been settled in between, and the handler may be dropped. *)
ReadBack(p) ==
  /\ answer[p] = Reading
  /\ ConnectionFree
  /\ answer' = [answer EXCEPT ![p] = Found(call[p].hold, holds[call[p].hold])]
  /\ UNCHANGED vars

LoseReply(p) ==
  /\ answer[p] = Reading
  /\ answer' = [answer EXCEPT ![p] = Lost]
  /\ UNCHANGED vars

ApiInit == Init /\ answer = [p \in Requests |-> NoAnswer]

(* A step of a handler, with what it returns. *)
HandlerStep ==
  /\ Next
  /\ \/ /\ \A p \in Requests : ~Returns(p)
        /\ UNCHANGED answer
     \/ \E p \in Requests :
          /\ Returns(p)
          /\ \E a \in Results(p, pc'[p]) : answer' = [answer EXCEPT ![p] = a]

ApiNext == HandlerStep \/ \E p \in Requests : ReadBack(p) \/ LoseReply(p)

ApiSpec == ApiInit /\ [][ApiNext]_apiVars

-----------------------------------------------------------------------------
(* The success replies to a hold stand: they name a stored hold of the bid and auction
   that were asked for, with the amount it has, however many callers place, replace
   and settle holds meanwhile.  Neither the wallet nor the amount need be the caller's:
   a repeated bid is answered with the hold there is. *)
HeldRepliesStand ==
  \A p \in Requests : call[p].op = "hold" /\ answer[p].kind = "hold" =>
    LET r == GrpcReply(answer[p]) IN
    /\ r.hold \in DOMAIN holds
    /\ holds[r.hold].auction = call[p].auction
    /\ holds[r.hold].bid = call[p].bid
    /\ holds[r.hold].amount = r.amount

(* Once a reply has reported a hold RELEASED or CONVERTED, the hold is never ACTIVE
   again: no later bid, and no reuse of its id, brings it back. *)
SettledRepliesStand ==
  \A p \in Requests : answer[p].kind = "hold" =>
    LET r == HttpReply(answer[p]) IN
    r.state # "ACTIVE" => r.hold \in DOMAIN holds /\ holds[r.hold].status # "ACTIVE"
=============================================================================
