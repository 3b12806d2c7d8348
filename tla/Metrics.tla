------------------------------- MODULE Metrics -------------------------------
(***************************************************************************)
(* The request metrics: the middleware that records every HTTP request     *)
(* after its handler has answered, the counters of business operations the *)
(* handlers keep, and the scrape of /metrics that reads the counters while *)
(* other requests are recorded.                                            *)
(*                                                                         *)
(* Every counter is an atomic of its own, added to and loaded Relaxed:     *)
(* nothing orders the additions of one request, or the loads of a scrape,  *)
(* as another thread sees them, so they are taken one by one in any order. *)
(***************************************************************************)
EXTENDS Integers, FiniteSets, Functions

CONSTANTS
  Requests,
  Scrapers,        \* those of them that scrape
  Exchanges,       \* what may be asked and how it goes, see Exchange
  CredentialsSet,  \* METRICS_BASIC_USER and METRICS_BASIC_PASSWORD are set
  Watched          \* the counters followed

Classes == {"satisfied", "tolerating", "frustrated"}

Operations == {"hold", "top_up", "try_bid", "payout"}

(* The histogram: requests that took at most so many milliseconds. *)
UpTo == [le_5 |-> 5, le_25 |-> 25, le_50 |-> 50, le_100 |-> 100, le_250 |-> 250,
         le_500 |-> 500, le_1000 |-> 1000, le_2500 |-> 2500]
Buckets == DOMAIN UpTo

Counters == Operations \cup Buckets \cup Classes \cup {"total", "errors", "le_inf", "sum"}

(* Scrapes that carry the right credentials are authorized. *)
Exchange == [op : Operations \cup {"scrape", "other"}, us : Nat, error : BOOLEAN,
             authorized : BOOLEAN]

ASSUME ExchangesAssumption == Exchanges \subseteq Exchange
ASSUME ScrapersAssumption == Scrapers \subseteq Requests
ASSUME RequestsAssumption == IsFiniteSet(Requests)
(* The code keeps them all; those compared below are followed at least. *)
ASSUME WatchedAssumption ==
  /\ Watched \subseteq Counters
  /\ Classes \cup {"total", "le_500", "le_inf", "hold"} \subseteq Watched
ASSUME CredentialsAssumption == CredentialsSet \in BOOLEAN

VARIABLES
  counters,  \* static METRICS
  pc,
  exchange,
  left,      \* the counters the request has yet to add to
  unread,    \* the counters the scrape has yet to load
  seen,      \* what it has loaded
  overlap    \* the requests recorded at some time while it loaded (history)

vars == <<counters, pc, exchange, left, unread, seen, overlap>>

-----------------------------------------------------------------------------
(* record_request: the counters it adds to, and how much. *)
Millis(e) == e.us \div 1000

(* Mutant: under 500 ms. *)
ApdexClassStrict(e) ==
  IF Millis(e) < 500 THEN "satisfied" ELSE IF Millis(e) <= 2000 THEN "tolerating" ELSE "frustrated"

ApdexClass(e) ==
  IF Millis(e) <= 500 THEN "satisfied" ELSE IF Millis(e) <= 2000 THEN "tolerating" ELSE "frustrated"

(* Mutant: le_inf takes what no other bucket takes. *)
BucketsOrInf(e) ==
  LET within == {b \in Buckets : Millis(e) <= UpTo[b]} IN
  IF within = {} THEN {"le_inf"} ELSE within

BucketsOf(e) == {b \in Buckets : Millis(e) <= UpTo[b]} \cup {"le_inf"}

Added(e) ==
  {"total", "sum", ApdexClass(e)} \cup BucketsOf(e) \cup (IF e.error THEN {"errors"} ELSE {})

(* Mutant: the duration goes to every counter. *)
IncrementMicros(c, e) == e.us

Increment(c, e) == IF c = "sum" THEN e.us ELSE 1

(* What render_prometheus_body loads: all but the frustrated. *)
Rendered == Watched \ {"frustrated"}

-----------------------------------------------------------------------------
(* A handler ends; one that served a business operation counts it (record_operation). *)
Handle(p) ==
  /\ pc[p] = "new" /\ exchange[p].op # "scrape"
  /\ counters' = IF exchange[p].op \in Operations \cap Watched /\ ~exchange[p].error
                 THEN [counters EXCEPT ![exchange[p].op] = @ + 1] ELSE counters
  /\ pc' = [pc EXCEPT ![p] = "respond"]
  /\ UNCHANGED <<exchange, left, unread, seen, overlap>>

(* require_metrics_basic_auth lets everyone in when no credentials are set; a refusal
   is an error of the request, recorded like any other. *)
Scrape(p) ==
  /\ pc[p] = "new" /\ exchange[p].op = "scrape"
  /\ IF CredentialsSet /\ ~exchange[p].authorized
     THEN /\ exchange' = [exchange EXCEPT ![p].error = TRUE]
          /\ pc' = [pc EXCEPT ![p] = "respond"]
          /\ UNCHANGED <<unread, overlap>>
     ELSE /\ unread' = [unread EXCEPT ![p] = Rendered]
          /\ overlap' = [overlap EXCEPT ![p] = {q \in Requests : pc[q] = "record"}]
          /\ pc' = [pc EXCEPT ![p] = "load"]
          /\ UNCHANGED exchange
  /\ UNCHANGED <<counters, left, seen>>

Load(p, c) ==
  /\ pc[p] = "load" /\ c \in unread[p]
  /\ seen' = [seen EXCEPT ![p][c] = counters[c]]
  /\ unread' = [unread EXCEPT ![p] = @ \ {c}]
  /\ UNCHANGED <<counters, pc, exchange, left, overlap>>

Render(p) ==
  /\ pc[p] = "load" /\ unread[p] = {}
  /\ pc' = [pc EXCEPT ![p] = "respond"]
  /\ UNCHANGED <<counters, exchange, left, unread, seen, overlap>>

(* The middleware has the response and calls record_request. *)
Respond(p) ==
  /\ pc[p] = "respond"
  /\ left' = [left EXCEPT ![p] = Added(exchange[p]) \cap Watched]
  /\ overlap' = [q \in Requests |->
                   IF pc[q] = "load" THEN overlap[q] \cup {p} ELSE overlap[q]]
  /\ pc' = [pc EXCEPT ![p] = "record"]
  /\ UNCHANGED <<counters, exchange, unread, seen>>

Add(p, c) ==
  /\ pc[p] = "record" /\ c \in left[p]
  /\ counters' = [counters EXCEPT ![c] = @ + Increment(c, exchange[p])]
  /\ left' = [left EXCEPT ![p] = @ \ {c}]
  /\ pc' = IF left[p] = {c} THEN [pc EXCEPT ![p] = "done"] ELSE pc
  /\ UNCHANGED <<exchange, unread, seen, overlap>>

(* The client goes away: the middleware is dropped with the handler it awaits, and the
   request is neither counted nor recorded.  Once the handler has ended nothing is awaited
   any more. *)
Drop(p) ==
  /\ pc[p] = "new"
  /\ pc' = [pc EXCEPT ![p] = "dropped"]
  /\ UNCHANGED <<counters, exchange, left, unread, seen, overlap>>

-----------------------------------------------------------------------------
Init ==
  /\ counters = [c \in Watched |-> 0]
  /\ pc = [p \in Requests |-> "new"]
  /\ exchange \in {e \in [Requests -> Exchanges] :
                      \A p \in Requests : e[p].op = "scrape" <=> p \in Scrapers}
  /\ left = [p \in Requests |-> {}]
  /\ unread = [p \in Requests |-> {}]
  /\ seen = [p \in Requests |-> [c \in Rendered |-> 0]]
  /\ overlap = [p \in Requests |-> {}]

Next ==
  \E p \in Requests :
    \/ Handle(p) \/ Scrape(p) \/ Render(p) \/ Respond(p) \/ Drop(p)
    \/ \E c \in Watched : Load(p, c) \/ Add(p, c)

Spec == Init /\ [][Next]_vars

-----------------------------------------------------------------------------
TypeOK ==
  /\ counters \in [Watched -> Nat]
  /\ \A c \in Watched \ {"sum"} : counters[c] <= Cardinality(Requests)
  /\ pc \in [Requests -> {"new", "load", "respond", "record", "done", "dropped"}]
  /\ exchange \in [Requests -> Exchange]
  /\ left \in [Requests -> SUBSET Watched]
  /\ unread \in [Requests -> SUBSET Rendered]
  /\ seen \in [Requests -> [Rendered -> Nat]]
  /\ overlap \in [Requests -> SUBSET Requests]

(* When no request is being recorded the counters agree: everything counted has a
   latency and an APDEX class, the satisfied are those of the 500 ms bucket, and an
   operation is counted for no client that has gone away. *)
CountersAgreeAtRest ==
  (\A p \in Requests : pc[p] # "record") =>
    /\ counters["total"] = counters["le_inf"]
    /\ counters["total"] = SumFunctionOnSet(counters, Classes \cap Watched)
    /\ counters["satisfied"] = counters["le_500"]
    /\ counters["hold"] <=
         counters["total"] + Cardinality({p \in Requests : pc[p] = "respond"})

(* A scrape is no snapshot, but what it shows is off by no more than the requests that
   were recorded meanwhile: the count against its +Inf bucket, a bucket against a wider
   one, the classes of the APDEX score against the total they are divided by. *)
ScrapeSkewBounded ==
  \A p \in Requests : exchange[p].op = "scrape" /\ pc[p] \in {"respond", "record", "done"}
                        /\ ~exchange[p].error =>
    LET s == seen[p]
        n == Cardinality(overlap[p]) IN
    /\ s["total"] - s["le_inf"] \in -n .. n
    /\ s["le_500"] <= s["le_inf"] + n
    /\ SumFunctionOnSet(s, Classes \cap Rendered) <= s["total"] + n
=============================================================================
