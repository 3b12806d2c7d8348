---------------------------- MODULE MetricsProofs ----------------------------
(***************************************************************************)
(* Proofs about Metrics for every finite number of requests and scrapes,   *)
(* every exchange, and every set of counters followed.                     *)
(***************************************************************************)
EXTENDS Metrics, SumTheorems, TLAPS

-----------------------------------------------------------------------------
(* What one request adds to: the total, +Inf and its one class; the 500 ms bucket if it is
   satisfied, and no counter of operations. *)
LEMMA AddedOnce ==
  ASSUME NEW e \in Exchange
  PROVE  /\ "total" \in Added(e) /\ "le_inf" \in Added(e)
         /\ "le_500" \in Added(e) <=> "satisfied" \in Added(e)
         /\ \E class \in Classes :
              class \in Added(e) /\ \A other \in Classes \ {class} : other \notin Added(e)
         /\ Added(e) \cap Operations = {}
<1>1. Millis(e) \in Nat
  BY DEF Millis, Exchange
<1>2. PICK m \in Nat : m = Millis(e)
  BY <1>1
<1>3. Buckets = {"le_5", "le_25", "le_50", "le_100", "le_250", "le_500", "le_1000", "le_2500"}
  BY DEF Buckets, UpTo
<1>4. UpTo["le_500"] = 500
  BY DEF UpTo
<1>5. Added(e) \subseteq {"total", "sum", ApdexClass(e), "le_inf", "errors"} \cup Buckets
      /\ {"total", "le_inf", ApdexClass(e)} \subseteq Added(e)
  BY DEF Added, BucketsOf
<1>6. "le_500" \in Added(e) <=> m <= 500
  BY <1>2, <1>3, <1>4 DEF Added, BucketsOf, ApdexClass
<1>7. ApdexClass(e) \in Classes /\ (ApdexClass(e) = "satisfied" <=> m <= 500)
  BY <1>2 DEF ApdexClass, Classes
<1>8. \A class \in Classes : class \in Added(e) => class = ApdexClass(e)
  BY <1>3, <1>5 DEF Classes
<1>9. "satisfied" \in Classes
  BY DEF Classes
<1>10. Added(e) \cap Operations = {}
  BY <1>3, <1>5, <1>7 DEF Operations, Classes
<1> QED
  BY <1>5, <1>6, <1>7, <1>8, <1>9, <1>10

-----------------------------------------------------------------------------
(* Types, the bound on the counters apart: it takes the books below. *)
Typed ==
  /\ counters \in [Watched -> Nat]
  /\ pc \in [Requests -> {"new", "load", "respond", "record", "done", "dropped"}]
  /\ exchange \in [Requests -> Exchange]
  /\ left \in [Requests -> SUBSET Watched]
  /\ unread \in [Requests -> SUBSET Rendered]
  /\ seen \in [Requests -> [Rendered -> Nat]]
  /\ overlap \in [Requests -> SUBSET Requests]

LEMMA InitTyped == Init => Typed
BY ExchangesAssumption DEF Init, Typed, Rendered

LEMMA NextTyped == Typed /\ [Next]_vars => Typed'
<1> SUFFICES ASSUME Typed, [Next]_vars PROVE Typed'
  OBVIOUS
<1>1. CASE UNCHANGED vars
  BY <1>1 DEF vars, Typed
<1>2. ASSUME NEW p \in Requests, Handle(p) PROVE Typed'
  <2>1. counters' \in [Watched -> Nat]
    BY <1>2 DEF Handle, Typed
  <2> QED
    BY <1>2, <2>1 DEF Handle, Typed
<1>3. ASSUME NEW p \in Requests, Scrape(p) PROVE Typed'
  <2>1. exchange[p] \in Exchange /\ [exchange[p] EXCEPT !.error = TRUE] \in Exchange
    BY DEF Typed, Exchange
  <2>2. exchange' \in [Requests -> Exchange]
    BY <1>3, <2>1 DEF Scrape, Typed
  <2>3. pc' \in [Requests -> {"new", "load", "respond", "record", "done", "dropped"}]
    BY <1>3 DEF Scrape, Typed
  <2>4. unread' \in [Requests -> SUBSET Rendered] /\ overlap' \in [Requests -> SUBSET Requests]
    BY <1>3 DEF Scrape, Typed
  <2> QED
    BY <1>3, <2>2, <2>3, <2>4 DEF Scrape, Typed
<1>4. ASSUME NEW p \in Requests, Render(p) PROVE Typed'
  BY <1>4 DEF Render, Typed
<1>5. ASSUME NEW p \in Requests, Respond(p) PROVE Typed'
  <2>1. left' \in [Requests -> SUBSET Watched]
    BY <1>5 DEF Respond, Typed
  <2>2. overlap' \in [Requests -> SUBSET Requests]
    BY <1>5 DEF Respond, Typed
  <2> QED
    BY <1>5, <2>1, <2>2 DEF Respond, Typed
<1>6. ASSUME NEW p \in Requests, Drop(p) PROVE Typed'
  BY <1>6 DEF Drop, Typed
<1>7. ASSUME NEW p \in Requests, NEW c \in Watched, Load(p, c) PROVE Typed'
  <2>1. c \in Rendered /\ counters[c] \in Nat
    BY <1>7 DEF Load, Typed
  <2>2. seen' \in [Requests -> [Rendered -> Nat]]
    BY <1>7, <2>1 DEF Load, Typed
  <2>3. unread' \in [Requests -> SUBSET Rendered]
    BY <1>7 DEF Load, Typed
  <2> QED
    BY <1>7, <2>2, <2>3 DEF Load, Typed
<1>8. ASSUME NEW p \in Requests, NEW c \in Watched, Add(p, c) PROVE Typed'
  <2>1. Increment(c, exchange[p]) \in Nat
    BY DEF Increment, Typed, Exchange
  <2>2. counters' \in [Watched -> Nat]
    BY <1>8, <2>1 DEF Add, Typed
  <2>3. left' \in [Requests -> SUBSET Watched]
    BY <1>8 DEF Add, Typed
  <2>4. pc' \in [Requests -> {"new", "load", "respond", "record", "done", "dropped"}]
    BY <1>8 DEF Add, Typed
  <2> QED
    BY <1>8, <2>2, <2>3, <2>4 DEF Add, Typed
<1> QED
  BY <1>1, <1>2, <1>3, <1>4, <1>5, <1>6, <1>7, <1>8 DEF Next

-----------------------------------------------------------------------------
(* The books: who has added to a counter, who is to add to it, and who has been counted by
   the handler that served the operation. *)
Begun == {"record", "done"}
Started(c)  == {q \in Requests : pc[q] \in Begun /\ c \in Added(exchange[q])}
Recorded(c) == {q \in Started(c) : c \notin left[q]}
Handled(c)  == {q \in Requests : /\ exchange[q].op = c /\ ~exchange[q].error
                                 /\ pc[q] \in {"respond"} \cup Begun}

Latencies == Watched \ (Operations \cup {"sum"})

Counts ==
  /\ \A c \in Latencies : counters[c] = Cardinality(Recorded(c))
  /\ \A c \in Operations \cap Watched : counters[c] = Cardinality(Handled(c))

Progress ==
  \A q \in Requests :
    /\ pc[q] = "load" => exchange[q].op = "scrape"
    /\ pc[q] = "record" => left[q] \subseteq Added(exchange[q])
    /\ pc[q] = "done" => left[q] = {}

BooksInv == Typed /\ Progress /\ Counts

LEMMA Finite ==
  ASSUME NEW c
  PROVE  /\ IsFiniteSet(Started(c)) /\ IsFiniteSet(Recorded(c)) /\ IsFiniteSet(Handled(c))
         /\ Cardinality(Started(c)) \in Nat /\ Cardinality(Recorded(c)) \in Nat
         /\ Cardinality(Handled(c)) \in Nat /\ Cardinality(Recorded(c)) <= Cardinality(Started(c))
         /\ Cardinality(Recorded(c)) <= Cardinality(Requests)
         /\ Cardinality(Handled(c)) <= Cardinality(Requests)
<1>1. /\ Started(c) \in SUBSET Requests /\ Recorded(c) \in SUBSET Started(c)
      /\ Recorded(c) \in SUBSET Requests /\ Handled(c) \in SUBSET Requests
  BY DEF Started, Recorded, Handled
<1>2. IsFiniteSet(Started(c)) /\ IsFiniteSet(Recorded(c)) /\ IsFiniteSet(Handled(c))
  BY <1>1, RequestsAssumption, FS_Subset
<1> QED
  BY <1>1, <1>2, RequestsAssumption, FS_Subset, FS_CardinalityType

(* A step that lets no request begin or end changes no book; nor does the beginning. *)
LEMMA BooksStay ==
  ASSUME Typed, NEW p \in Requests, \A q \in Requests \ {p} :
           pc'[q] = pc[q] /\ exchange'[q] = exchange[q] /\ left'[q] = left[q],
         exchange'[p].op = exchange[p].op
  PROVE  /\ \A c : pc[p] \notin Begun /\ pc'[p] \notin Begun =>
                     Recorded(c)' = Recorded(c) /\ Started(c)' = Started(c)
         /\ \A c : (pc[p] \notin {"respond"} \cup Begun /\ pc'[p] \notin {"respond"} \cup Begun)
                     \/ exchange[p].op # c
                     \/ (pc[p] \in {"respond"} \cup Begun /\ pc'[p] \in {"respond"} \cup Begun
                           /\ exchange'[p] = exchange[p]) =>
                     Handled(c)' = Handled(c)
<1>1. ASSUME NEW c, pc[p] \notin Begun, pc'[p] \notin Begun
      PROVE  Recorded(c)' = Recorded(c) /\ Started(c)' = Started(c)
  <2>1. Started(c)' = Started(c)
    BY <1>1 DEF Started
  <2>2. p \notin Started(c)
    BY <1>1 DEF Started
  <2> QED
    BY <2>1, <2>2 DEF Recorded, Started
<1>2. ASSUME NEW c,
             \/ pc[p] \notin {"respond"} \cup Begun /\ pc'[p] \notin {"respond"} \cup Begun
             \/ exchange[p].op # c
             \/ /\ pc[p] \in {"respond"} \cup Begun /\ pc'[p] \in {"respond"} \cup Begun
                /\ exchange'[p] = exchange[p]
      PROVE  Handled(c)' = Handled(c)
  <2>1. \A q \in Requests : q \in Handled(c)' <=> q \in Handled(c)
    BY <1>2 DEF Handled
  <2> QED
    BY <2>1 DEF Handled
<1> QED
  BY <1>1, <1>2

LEMMA NextBooks == BooksInv /\ [Next]_vars => BooksInv'
<1> SUFFICES ASSUME BooksInv, [Next]_vars PROVE BooksInv'
  OBVIOUS
<1>1. Typed /\ Progress /\ Counts /\ Typed'
  BY NextTyped DEF BooksInv
<1>2. CASE UNCHANGED vars
  BY <1>1, <1>2 DEF vars, BooksInv, Progress, Counts, Recorded, Started, Handled
<1>3. ASSUME NEW p \in Requests, Handle(p) PROVE BooksInv'
  <2>1. /\ pc[p] = "new" /\ pc'[p] = "respond" /\ exchange[p].op # "scrape"
        /\ UNCHANGED <<exchange, left>> /\ \A q \in Requests \ {p} : pc'[q] = pc[q]
    BY <1>1, <1>3 DEF Handle, Typed
  <2>2. Progress'
    BY <1>1, <2>1 DEF Progress
  <2>3. \A c : Recorded(c)' = Recorded(c)
    BY <1>1, <2>1, BooksStay DEF Begun
  <2>4. \A c \in Operations : exchange[p].op # c => Handled(c)' = Handled(c)
    BY <1>1, <2>1, BooksStay
  <2>5. CASE exchange[p].op \in Operations \cap Watched /\ ~exchange[p].error
    <3>1. PICK o \in Operations \cap Watched : o = exchange[p].op
      BY <2>5
    <3>2. counters'[o] = counters[o] + 1 /\ \A c \in Watched \ {o} : counters'[c] = counters[c]
      BY <1>1, <1>3, <2>5, <3>1 DEF Handle, Typed
    <3>3. Handled(o)' = Handled(o) \cup {p} /\ p \notin Handled(o)
      BY <2>1, <2>5, <3>1 DEF Handled, Begun
    <3>4. Cardinality(Handled(o) \cup {p}) = Cardinality(Handled(o)) + 1
      <4> DEFINE H == Handled(o)
      <4>1. IsFiniteSet(H) /\ p \notin H
        BY <3>3, Finite
      <4> HIDE DEF H
      <4>2. Cardinality(H \cup {p}) = Cardinality(H) + 1
        BY <4>1, FS_AddElement, Zenon
      <4> QED
        BY <4>2 DEF H
    <3>5. Counts'
      BY <1>1, <2>3, <2>4, <3>1, <3>2, <3>3, <3>4 DEF Counts, Latencies
    <3> QED
      BY <1>1, <2>2, <3>5 DEF BooksInv
  <2>6. CASE ~(exchange[p].op \in Operations \cap Watched /\ ~exchange[p].error)
    <3>1. counters' = counters
      BY <1>3, <2>6 DEF Handle
    <3>2. \A c \in Operations \cap Watched : Handled(c)' = Handled(c)
      <4>1. SUFFICES ASSUME NEW c \in Operations \cap Watched, exchange[p].op = c
                     PROVE  Handled(c)' = Handled(c)
        BY <2>4
      <4>2. exchange[p].error /\ exchange'[p].error
        BY <1>1, <2>1, <2>6, <4>1
      <4> QED
        BY <2>1, <4>2 DEF Handled
    <3>3. Counts'
      BY <1>1, <2>3, <3>1, <3>2 DEF Counts
    <3> QED
      BY <1>1, <2>2, <3>3 DEF BooksInv
  <2> QED
    BY <2>5, <2>6
<1>4. ASSUME NEW p \in Requests, Scrape(p) PROVE BooksInv'
  <2>1. /\ pc[p] = "new" /\ pc'[p] \in {"respond", "load"} /\ exchange[p].op = "scrape"
        /\ UNCHANGED <<left, counters>>
        /\ \A q \in Requests \ {p} : pc'[q] = pc[q]
    BY <1>1, <1>4 DEF Scrape, Typed
  <2>2. exchange'[p].op = "scrape" /\ \A q \in Requests \ {p} : exchange'[q] = exchange[q]
    BY <1>1, <1>4 DEF Scrape, Typed, Exchange
  <2>3. Progress'
    BY <1>1, <2>1, <2>2 DEF Progress
  <2>4. \A c : Recorded(c)' = Recorded(c)
    BY <1>1, <2>1, <2>2, BooksStay DEF Begun
  <2>5. \A c \in Operations : Handled(c)' = Handled(c)
    <3>1. \A c \in Operations : c # "scrape"
      BY DEF Operations
    <3> QED
      BY <1>1, <2>1, <2>2, <3>1, BooksStay
  <2>6. Counts'
    BY <1>1, <2>1, <2>4, <2>5 DEF Counts
  <2> QED
    BY <1>1, <2>3, <2>6 DEF BooksInv
<1>5. ASSUME NEW p \in Requests, Render(p) PROVE BooksInv'
  <2>1. /\ pc[p] = "load" /\ pc'[p] = "respond" /\ exchange[p].op = "scrape"
        /\ UNCHANGED <<left, counters, exchange>>
        /\ \A q \in Requests \ {p} : pc'[q] = pc[q]
    BY <1>1, <1>5 DEF Render, Typed, Progress
  <2>2. Progress'
    BY <1>1, <2>1 DEF Progress
  <2>3. \A c : Recorded(c)' = Recorded(c)
    BY <1>1, <2>1, BooksStay DEF Begun
  <2>4. \A c \in Operations : Handled(c)' = Handled(c)
    <3>1. \A c \in Operations : c # "scrape"
      BY DEF Operations
    <3> QED
      BY <1>1, <2>1, <3>1, BooksStay
  <2>5. Counts'
    BY <1>1, <2>1, <2>3, <2>4 DEF Counts
  <2> QED
    BY <1>1, <2>2, <2>5 DEF BooksInv
<1>6. ASSUME NEW p \in Requests, Respond(p) PROVE BooksInv'
  <2>1. /\ pc[p] = "respond" /\ pc'[p] = "record" /\ left'[p] = Added(exchange[p]) \cap Watched
        /\ UNCHANGED <<counters, exchange>>
        /\ \A q \in Requests \ {p} : pc'[q] = pc[q] /\ left'[q] = left[q]
    BY <1>1, <1>6 DEF Respond, Typed
  <2>2. Progress'
    BY <1>1, <2>1 DEF Progress
  <2>3. \A c \in Watched : Recorded(c)' = Recorded(c)
    <3>1. SUFFICES ASSUME NEW c \in Watched, NEW q \in Requests
                   PROVE  q \in Recorded(c)' <=> q \in Recorded(c)
      BY DEF Recorded, Started
    <3> QED
      BY <2>1 DEF Recorded, Started, Begun
  <2>4. \A c : Handled(c)' = Handled(c)
    BY <1>1, <2>1, BooksStay DEF Begun
  <2>5. Counts'
    BY <1>1, <2>1, <2>3, <2>4 DEF Counts, Latencies
  <2> QED
    BY <1>1, <2>2, <2>5 DEF BooksInv
<1>7. ASSUME NEW p \in Requests, Drop(p) PROVE BooksInv'
  <2>1. /\ pc[p] = "new" /\ pc'[p] = "dropped" /\ UNCHANGED <<counters, exchange, left>>
        /\ \A q \in Requests \ {p} : pc'[q] = pc[q]
    BY <1>1, <1>7 DEF Drop, Typed
  <2>2. Progress'
    BY <1>1, <2>1 DEF Progress
  <2>3. \A c : Recorded(c)' = Recorded(c) /\ Handled(c)' = Handled(c)
    BY <1>1, <2>1, BooksStay DEF Begun
  <2>4. Counts'
    BY <1>1, <2>1, <2>3 DEF Counts
  <2> QED
    BY <1>1, <2>2, <2>4 DEF BooksInv
<1>8. ASSUME NEW p \in Requests, NEW c \in Watched, Load(p, c) PROVE BooksInv'
  BY <1>1, <1>8 DEF Load, BooksInv, Progress, Counts, Recorded, Started, Handled
<1>9. ASSUME NEW p \in Requests, NEW c \in Watched, Add(p, c) PROVE BooksInv'
  <2>1. /\ pc[p] = "record" /\ pc'[p] \in Begun /\ c \in left[p] /\ c \in Added(exchange[p])
        /\ left'[p] = left[p] \ {c} /\ (pc'[p] = "done" => left[p] = {c})
        /\ exchange' = exchange
        /\ \A q \in Requests \ {p} : pc'[q] = pc[q] /\ left'[q] = left[q]
    BY <1>1, <1>9 DEF Add, Typed, Progress, Begun
  <2>2. Progress'
    BY <1>1, <2>1 DEF Progress, Begun
  <2>3. \A d : Handled(d)' = Handled(d)
    BY <1>1, <2>1, BooksStay DEF Begun
  <2>4. c \notin Operations
    BY <1>1, <2>1, AddedOnce DEF Typed
  <2>5. counters'[c] = counters[c] + Increment(c, exchange[p])
        /\ \A d \in Watched \ {c} : counters'[d] = counters[d]
    BY <1>1, <1>9 DEF Add, Typed
  <2>6. \A d \in Watched \ {c} : Recorded(d)' = Recorded(d)
    <3>1. SUFFICES ASSUME NEW d \in Watched \ {c}, NEW q \in Requests
                   PROVE  q \in Recorded(d)' <=> q \in Recorded(d)
      BY DEF Recorded, Started
    <3> QED
      BY <2>1 DEF Recorded, Started, Begun
  <2>7. Recorded(c)' = Recorded(c) \cup {p} /\ p \notin Recorded(c)
    <3>1. ASSUME NEW q \in Requests PROVE q \in Recorded(c)' <=> q \in Recorded(c) \cup {p}
      BY <2>1 DEF Recorded, Started, Begun
    <3> QED
      BY <2>1, <3>1 DEF Recorded, Started
  <2>8. Cardinality(Recorded(c) \cup {p}) = Cardinality(Recorded(c)) + 1
    <3> DEFINE R == Recorded(c)
    <3>1. IsFiniteSet(R) /\ p \notin R
      BY <2>7, Finite
    <3> HIDE DEF R
    <3>2. Cardinality(R \cup {p}) = Cardinality(R) + 1
      BY <3>1, FS_AddElement, Zenon
    <3> QED
      BY <3>2 DEF R
  <2>9. c # "sum" => Increment(c, exchange[p]) = 1
    BY DEF Increment
  <2>10. Counts'
    BY <1>1, <2>3, <2>4, <2>5, <2>6, <2>7, <2>8, <2>9 DEF Counts, Latencies
  <2> QED
    BY <1>1, <2>2, <2>10 DEF BooksInv
<1> QED
  BY <1>2, <1>3, <1>4, <1>5, <1>6, <1>7, <1>8, <1>9 DEF Next

LEMMA InitBooks == Init => BooksInv
<1> SUFFICES ASSUME Init PROVE BooksInv
  OBVIOUS
<1>1. Typed /\ Progress
  BY InitTyped DEF Init, Progress
<1>2. ASSUME NEW c \in Watched
      PROVE  counters[c] = 0 /\ Recorded(c) = {} /\ Handled(c) = {}
  BY DEF Init, Recorded, Started, Handled, Begun
<1>3. Cardinality({}) = 0
  BY FS_EmptySet
<1> QED
  BY <1>1, <1>2, <1>3 DEF BooksInv, Counts, Latencies

LEMMA BooksTyped == BooksInv => TypeOK
<1> SUFFICES ASSUME BooksInv, NEW c \in Watched \ {"sum"}
             PROVE  counters[c] <= Cardinality(Requests)
  BY DEF BooksInv, Typed, TypeOK
<1>1. c \in Latencies \/ c \in Operations \cap Watched
  BY DEF Latencies
<1> QED
  BY <1>1, Finite DEF BooksInv, Counts

(* No counter but the sum of the durations exceeds the number of requests: each adds to
   it at most once, though nothing orders what the threads add. *)
THEOREM TypeCorrect == Spec => []TypeOK
BY InitBooks, NextBooks, BooksTyped, PTL DEF Spec

-----------------------------------------------------------------------------
(* With nobody recording, whoever has begun to record a request has added everything. *)
LEMMA AtRest ==
  ASSUME BooksInv, \A p \in Requests : pc[p] # "record", NEW c
  PROVE  Recorded(c) = Started(c)
BY DEF BooksInv, Progress, Recorded, Started, Begun

(* The sum over some of the classes, as many terms as there are classes among them. *)
LEMMA ClassSum ==
  ASSUME NEW f, \A class \in Classes : f[class] \in Int
  PROVE  /\ SumFunctionOnSet(f, Classes) = f["satisfied"] + f["tolerating"] + f["frustrated"]
         /\ SumFunctionOnSet(f, Classes \ {"frustrated"}) = f["satisfied"] + f["tolerating"]
<1>1. f["satisfied"] \in Int /\ f["tolerating"] \in Int /\ f["frustrated"] \in Int
  BY DEF Classes
<1>2. SumFunctionOnSet(f, {}) = 0 /\ IsFiniteSet({})
  BY SumEmpty, FS_EmptySet
<1>3. SumFunctionOnSet(f, {} \cup {"satisfied"}) = f["satisfied"] + 0
      /\ IsFiniteSet({} \cup {"satisfied"})
  BY <1>1, <1>2, SumAdd, FS_AddElement
<1> DEFINE One == {} \cup {"satisfied"}
           Two == One \cup {"tolerating"}
<1>4. IsFiniteSet(Two)
  BY <1>3, FS_AddElement
<1>5. SumFunctionOnSet(f, Two) = f["tolerating"] + SumFunctionOnSet(f, One)
  <2>1. "tolerating" \notin One /\ IsFiniteSet(One)
        /\ \A y \in One \cup {"tolerating"} : f[y] \in Int
    BY <1>1, <1>3
  <2> HIDE DEF One
  <2> QED
    BY <2>1, SumAdd
<1>6. SumFunctionOnSet(f, Two \cup {"frustrated"}) = f["frustrated"] + SumFunctionOnSet(f, Two)
  <2>1. "frustrated" \notin Two /\ \A y \in Two \cup {"frustrated"} : f[y] \in Int
    BY <1>1
  <2> HIDE DEF Two
  <2> QED
    BY <1>4, <2>1, SumAdd
<1>7. Two = Classes \ {"frustrated"} /\ Two \cup {"frustrated"} = Classes
  BY DEF Classes
<1>8. SumFunctionOnSet(f, Two) = f["satisfied"] + f["tolerating"]
  BY <1>1, <1>3, <1>5
<1>9. SumFunctionOnSet(f, Classes \ {"frustrated"}) = f["satisfied"] + f["tolerating"]
  BY <1>7, <1>8
<1> HIDE DEF Two
<1>10. SumFunctionOnSet(f, Classes) = f["frustrated"] + SumFunctionOnSet(f, Two)
  BY <1>6, <1>7, Zenon
<1> QED
  BY <1>1, <1>8, <1>9, <1>10

(* Requests that began to be recorded are of one class each. *)
LEMMA OneClassEach ==
  ASSUME Typed
  PROVE  /\ Started("total") = Started("le_inf")
         /\ Started("satisfied") = Started("le_500")
         /\ Started("satisfied") \cup Started("tolerating") \cup Started("frustrated")
              = Started("total")
         /\ Started("satisfied") \cap Started("tolerating") = {}
         /\ (Started("satisfied") \cup Started("tolerating")) \cap Started("frustrated") = {}
<1>1. \A q \in Requests : exchange[q] \in Exchange
  BY DEF Typed
<1>2. ASSUME NEW q \in Requests
      PROVE  /\ "total" \in Added(exchange[q]) /\ "le_inf" \in Added(exchange[q])
             /\ "le_500" \in Added(exchange[q]) <=> "satisfied" \in Added(exchange[q])
             /\ \/ /\ "satisfied" \in Added(exchange[q]) /\ "tolerating" \notin Added(exchange[q])
                   /\ "frustrated" \notin Added(exchange[q])
                \/ /\ "satisfied" \notin Added(exchange[q]) /\ "tolerating" \in Added(exchange[q])
                   /\ "frustrated" \notin Added(exchange[q])
                \/ /\ "satisfied" \notin Added(exchange[q]) /\ "tolerating" \notin Added(exchange[q])
                   /\ "frustrated" \in Added(exchange[q])
  BY <1>1, AddedOnce DEF Classes
<1>3. Started("total") = Started("le_inf") /\ Started("satisfied") = Started("le_500")
  BY <1>2 DEF Started
<1>4. Started("satisfied") \cup Started("tolerating") \cup Started("frustrated")
        = Started("total")
  BY <1>2 DEF Started
<1>5. /\ Started("satisfied") \cap Started("tolerating") = {}
      /\ (Started("satisfied") \cup Started("tolerating")) \cap Started("frustrated") = {}
  BY <1>2 DEF Started
<1> QED
  BY <1>3, <1>4, <1>5

LEMMA DisjointUnion ==
  ASSUME NEW S, NEW T, IsFiniteSet(S), IsFiniteSet(T), S \cap T = {}
  PROVE  /\ IsFiniteSet(S \cup T) /\ Cardinality(S) \in Nat /\ Cardinality(T) \in Nat
         /\ Cardinality(S \cup T) = Cardinality(S) + Cardinality(T)
BY FS_Union, FS_EmptySet, FS_CardinalityType

LEMMA UnionBound ==
  ASSUME NEW S, NEW T, IsFiniteSet(S), IsFiniteSet(T)
  PROVE  IsFiniteSet(S \cup T) /\ Cardinality(S \cup T) <= Cardinality(S) + Cardinality(T)
<1>1. IsFiniteSet(S \cap T)
  BY FS_Intersection
<1>2. /\ Cardinality(S) \in Nat /\ Cardinality(T) \in Nat /\ Cardinality(S \cap T) \in Nat
  BY <1>1, FS_CardinalityType
<1>3. /\ IsFiniteSet(S \cup T)
      /\ Cardinality(S \cup T) = Cardinality(S) + Cardinality(T) - Cardinality(S \cap T)
  BY FS_Union
<1> QED
  BY <1>2, <1>3

LEMMA RestAgrees == BooksInv => CountersAgreeAtRest
<1> SUFFICES ASSUME BooksInv, \A p \in Requests : pc[p] # "record"
             PROVE  /\ counters["total"] = counters["le_inf"]
                    /\ counters["total"] = SumFunctionOnSet(counters, Classes \cap Watched)
                    /\ counters["satisfied"] = counters["le_500"]
                    /\ counters["hold"] <=
                         counters["total"] + Cardinality({p \in Requests : pc[p] = "respond"})
  BY DEF CountersAgreeAtRest
<1>1. Typed /\ Counts
  BY DEF BooksInv
<1>2. Classes \cup {"total", "le_500", "le_inf"} \subseteq Latencies
  BY WatchedAssumption DEF Latencies, Operations, Classes
<1>3. \A c \in Latencies : counters[c] = Cardinality(Started(c)) /\ counters[c] \in Nat
  BY <1>1, AtRest DEF Counts, Latencies, Typed
<1>4. counters["total"] = counters["le_inf"] /\ counters["satisfied"] = counters["le_500"]
  BY <1>1, <1>2, <1>3, OneClassEach DEF Classes
<1>5. counters["total"] = SumFunctionOnSet(counters, Classes \cap Watched)
  <2>1. Classes \cap Watched = Classes
    BY WatchedAssumption
  <2>2. \A class \in Classes : counters[class] \in Int
    BY <1>2, <1>3
  <2>3. SumFunctionOnSet(counters, Classes)
          = counters["satisfied"] + counters["tolerating"] + counters["frustrated"]
    BY <2>2, ClassSum
  <2> DEFINE S == Started("satisfied")
             T == Started("tolerating")
             F == Started("frustrated")
  <2>4. /\ IsFiniteSet(S) /\ IsFiniteSet(T) /\ IsFiniteSet(F)
        /\ S \cap T = {} /\ (S \cup T) \cap F = {} /\ (S \cup T) \cup F = Started("total")
    BY <1>1, Finite, OneClassEach
  <2>5. /\ counters["satisfied"] = Cardinality(S) /\ counters["tolerating"] = Cardinality(T)
        /\ counters["frustrated"] = Cardinality(F)
        /\ counters["total"] = Cardinality(Started("total"))
    BY <1>2, <1>3 DEF Classes
  <2> HIDE DEF S, T, F
  <2>6. Cardinality(S \cup T) = Cardinality(S) + Cardinality(T) /\ IsFiniteSet(S \cup T)
    BY <2>4, DisjointUnion
  <2>7. Cardinality((S \cup T) \cup F) = Cardinality(S \cup T) + Cardinality(F)
    BY <2>4, <2>6, DisjointUnion
  <2> QED
    BY <2>1, <2>3, <2>4, <2>5, <2>6, <2>7
<1>6. counters["hold"] <=
        counters["total"] + Cardinality({p \in Requests : pc[p] = "respond"})
  <2> DEFINE R == {p \in Requests : pc[p] = "respond"}
             S == Started("total")
             H == Handled("hold")
  <2>1. IsFiniteSet(R) /\ IsFiniteSet(S) /\ IsFiniteSet(H)
    BY RequestsAssumption, FS_Subset, Finite
  <2>2. H \in SUBSET (S \cup R) /\ S \cap R = {}
    <3>1. \A q \in Requests : "total" \in Added(exchange[q])
      BY <1>1, AddedOnce DEF Typed
    <3> QED
      BY <3>1 DEF Handled, Started, Begun
  <2>3. counters["hold"] = Cardinality(H) /\ counters["total"] = Cardinality(S)
    BY <1>1, <1>2, <1>3, WatchedAssumption DEF Counts, Operations
  <2> HIDE DEF R, S, H
  <2>4. Cardinality(S \cup R) = Cardinality(S) + Cardinality(R) /\ IsFiniteSet(S \cup R)
    BY <2>1, <2>2, DisjointUnion
  <2>5. Cardinality(H) <= Cardinality(S \cup R)
    BY <2>2, <2>4, FS_Subset
  <2>6. counters["hold"] <= counters["total"] + Cardinality(R)
    BY <2>3, <2>4, <2>5
  <2> QED
    BY <2>6 DEF R
<1> QED
  BY <1>4, <1>5, <1>6

(* When no request is being recorded the counters agree with each other, whichever threads
   added to them in whichever order, and no client that has gone away was counted. *)
THEOREM RestAgreement == Spec => []CountersAgreeAtRest
BY InitBooks, NextBooks, RestAgrees, PTL DEF Spec

-----------------------------------------------------------------------------
(* A scrape under way.  Whoever is recording overlaps it, so those who began and do not
   overlap had added everything before it began: they are in all it loads, and nobody is
   who has not begun. *)
Before(p, c) == {q \in Started(c) : q \notin overlap[p]}

Loading ==
  \A p \in Requests : pc[p] = "load" =>
    /\ \A q \in Requests : pc[q] = "record" => q \in overlap[p]
    /\ \A c \in (Rendered \cap Latencies) \ unread[p] :
         /\ Cardinality(Before(p, c)) <= seen[p][c]
         /\ seen[p][c] <= Cardinality(Started(c))

ScrapeInv == BooksInv /\ Loading /\ ScrapeSkewBounded

LEMMA BeforeFinite ==
  ASSUME NEW p, NEW c
  PROVE  /\ IsFiniteSet(Before(p, c)) /\ Cardinality(Before(p, c)) \in Nat
         /\ Before(p, c) \subseteq Started(c)
BY Finite, FS_Subset, FS_CardinalityType DEF Before

(* What a scrape has loaded when it has loaded all: the requests begun split into those
   before it and those that overlap it. *)
LEMMA LoadedSkew ==
  ASSUME BooksInv, Loading, NEW p \in Requests, pc[p] = "load", unread[p] = {}
  PROVE  LET s == seen[p]
             n == Cardinality(overlap[p]) IN
         /\ s["total"] - s["le_inf"] \in -n .. n
         /\ s["le_500"] <= s["le_inf"] + n
         /\ SumFunctionOnSet(s, Classes \cap Rendered) <= s["total"] + n
<1> DEFINE s == seen[p]
           n == Cardinality(overlap[p])
           All == Started("total")
           B == Before(p, "total")
           O == overlap[p]
<1>1. Typed
  BY DEF BooksInv
<1>2. \A c \in {"total", "le_inf", "le_500", "satisfied", "tolerating"} :
        c \in Rendered /\ c \in Latencies
  BY WatchedAssumption DEF Rendered, Latencies, Operations, Classes
<1>3. \A c \in {"total", "le_inf", "le_500", "satisfied", "tolerating"} :
        /\ Cardinality(Before(p, c)) <= s[c] /\ s[c] <= Cardinality(Started(c))
        /\ s[c] \in Nat /\ Cardinality(Before(p, c)) \in Nat /\ Cardinality(Started(c)) \in Nat
  BY <1>1, <1>2, Finite, BeforeFinite DEF Loading, Typed
<1>4. Before(p, "le_inf") = B /\ Started("le_inf") = All
  BY <1>1, OneClassEach DEF Before
<1>5. IsFiniteSet(O) /\ n \in Nat
  BY <1>1, RequestsAssumption, FS_Subset, FS_CardinalityType DEF Typed
<1>6. All \subseteq B \cup O
  BY DEF Before
<1>7. Cardinality(All) <= Cardinality(B) + n
  <2>1. IsFiniteSet(B)
    BY BeforeFinite
  <2> HIDE DEF B, O, All
  <2>2. IsFiniteSet(B \cup O) /\ Cardinality(B \cup O) <= Cardinality(B) + Cardinality(O)
    BY <1>5, <2>1, UnionBound
  <2>3. Cardinality(All) <= Cardinality(B \cup O)
    BY <1>6, <2>2, FS_Subset
  <2>4. Cardinality(All) <= Cardinality(B) + Cardinality(O)
    <3>1. IsFiniteSet(All)
      BY <1>6, <2>2, FS_Subset
    <3> QED
      BY <1>5, <2>1, <2>2, <2>3, <3>1, FS_CardinalityType
  <2> QED
    BY <2>4 DEF O
<1>8. Started("le_500") = Started("satisfied")
  BY <1>1, OneClassEach
<1>9. Cardinality(Started("satisfied")) + Cardinality(Started("tolerating")) <= Cardinality(All)
  <2> DEFINE S == Started("satisfied")
             T == Started("tolerating")
  <2>1. /\ IsFiniteSet(S) /\ IsFiniteSet(T) /\ IsFiniteSet(All)
        /\ S \cap T = {} /\ S \cup T \in SUBSET All
    BY <1>1, Finite, OneClassEach
  <2> HIDE DEF S, T, All
  <2>2. Cardinality(S \cup T) = Cardinality(S) + Cardinality(T) /\ IsFiniteSet(S \cup T)
    BY <2>1, DisjointUnion
  <2>3. Cardinality(S \cup T) <= Cardinality(All)
    BY <2>1, FS_Subset
  <2>4. Cardinality(S) + Cardinality(T) <= Cardinality(All)
    BY <2>2, <2>3
  <2> QED
    BY <2>4 DEF S, T
<1>10. SumFunctionOnSet(s, Classes \cap Rendered) = s["satisfied"] + s["tolerating"]
  <2>1. Classes \cap Rendered = Classes \ {"frustrated"}
    BY WatchedAssumption DEF Rendered
  <2> DEFINE f == [class \in Classes |-> IF class = "frustrated" THEN 0 ELSE s[class]]
  <2>2. \A class \in Classes : f[class] \in Int
    BY <1>3 DEF Classes
  <2>3. f["satisfied"] = s["satisfied"] /\ f["tolerating"] = s["tolerating"]
    BY DEF Classes
  <2>4. IsFiniteSet(Classes \ {"frustrated"})
    <3>1. Classes \ {"frustrated"} = ({} \cup {"satisfied"}) \cup {"tolerating"}
      BY DEF Classes
    <3>2. IsFiniteSet({} \cup {"satisfied"})
      BY FS_EmptySet, FS_AddElement
    <3> QED
      BY <3>1, <3>2, FS_AddElement
  <2>5. \A x \in Classes \ {"frustrated"} : s[x] = f[x]
    OBVIOUS
  <2> HIDE DEF f, s
  <2>6. SumFunctionOnSet(f, Classes \ {"frustrated"}) = f["satisfied"] + f["tolerating"]
    BY <2>2, ClassSum
  <2>7. SumFunctionOnSet(s, Classes \ {"frustrated"})
          = SumFunctionOnSet(f, Classes \ {"frustrated"})
    BY <2>4, <2>5, SumSame
  <2> QED
    BY <2>1, <2>3, <2>6, <2>7
<1>11. PICK b \in Nat, a \in Nat : b = Cardinality(B) /\ a = Cardinality(All)
  BY <1>3
<1>12. /\ b <= s["total"] /\ s["total"] <= a /\ b <= s["le_inf"] /\ s["le_inf"] <= a
       /\ s["le_500"] <= Cardinality(Started("satisfied"))
       /\ s["satisfied"] <= Cardinality(Started("satisfied"))
       /\ s["tolerating"] <= Cardinality(Started("tolerating"))
       /\ a <= b + n
       /\ Cardinality(Started("satisfied")) + Cardinality(Started("tolerating")) <= a
  BY <1>3, <1>4, <1>7, <1>8, <1>9, <1>11
<1>13. /\ s["total"] \in Nat /\ s["le_inf"] \in Nat /\ s["le_500"] \in Nat
       /\ s["satisfied"] \in Nat /\ s["tolerating"] \in Nat
       /\ Cardinality(Started("satisfied")) \in Nat
       /\ Cardinality(Started("tolerating")) \in Nat
  BY <1>3
<1> HIDE DEF s, n, All, B, O
<1>14. /\ s["total"] - s["le_inf"] <= n /\ s["le_inf"] - s["total"] <= n
       /\ s["le_500"] <= s["le_inf"] + n
       /\ s["satisfied"] + s["tolerating"] <= s["total"] + n
  BY <1>5, <1>11, <1>12, <1>13
<1>15. s["total"] - s["le_inf"] \in -n .. n
  BY <1>5, <1>13, <1>14
<1> QED
  BY <1>10, <1>14, <1>15 DEF s, n

LEMMA NextLoading == BooksInv /\ Loading /\ [Next]_vars => Loading'
<1> SUFFICES ASSUME BooksInv, Loading, [Next]_vars, NEW p \in Requests, pc'[p] = "load"
             PROVE  /\ \A q \in Requests : pc'[q] = "record" => q \in overlap'[p]
                    /\ \A c \in (Rendered \cap Latencies) \ unread'[p] :
                         /\ Cardinality(Before(p, c)') <= seen'[p][c]
                         /\ seen'[p][c] <= Cardinality(Started(c)')
  BY DEF Loading
<1>1. Typed /\ Progress /\ Counts /\ Typed'
  BY NextTyped DEF BooksInv
<1>2. ASSUME pc[p] = "load", \A c : Started(c)' = Started(c),
             overlap'[p] = overlap[p], unread'[p] = unread[p], seen'[p] = seen[p],
             \A q \in Requests : pc'[q] = "record" => pc[q] = "record"
      PROVE  /\ \A q \in Requests : pc'[q] = "record" => q \in overlap'[p]
             /\ \A c \in (Rendered \cap Latencies) \ unread'[p] :
                  /\ Cardinality(Before(p, c)') <= seen'[p][c]
                  /\ seen'[p][c] <= Cardinality(Started(c)')
  <2>1. \A c : Before(p, c)' = Before(p, c)
    BY <1>2 DEF Before
  <2> QED
    BY <1>2, <2>1 DEF Loading
<1>3. CASE UNCHANGED vars
  BY <1>2, <1>3 DEF vars, Started
<1>4. ASSUME NEW r \in Requests, Handle(r) \/ Render(r) \/ Drop(r)
      PROVE  /\ \A q \in Requests : pc'[q] = "record" => q \in overlap'[p]
             /\ \A c \in (Rendered \cap Latencies) \ unread'[p] :
                  /\ Cardinality(Before(p, c)') <= seen'[p][c]
                  /\ seen'[p][c] <= Cardinality(Started(c)')
  <2>1. /\ pc[r] \in {"new", "load"} /\ pc'[r] \in {"respond", "dropped"}
        /\ UNCHANGED <<exchange, left, unread, seen, overlap>>
        /\ \A q \in Requests \ {r} : pc'[q] = pc[q]
    BY <1>1, <1>4 DEF Handle, Render, Drop, Typed
  <2>2. pc[p] = "load" /\ \A q \in Requests : pc'[q] = "record" => pc[q] = "record"
    BY <2>1
  <2>3. \A c : Started(c)' = Started(c)
    BY <1>1, <2>1, BooksStay DEF Begun
  <2> QED
    BY <1>2, <2>1, <2>2, <2>3
<1>5. ASSUME NEW r \in Requests, Scrape(r)
      PROVE  /\ \A q \in Requests : pc'[q] = "record" => q \in overlap'[p]
             /\ \A c \in (Rendered \cap Latencies) \ unread'[p] :
                  /\ Cardinality(Before(p, c)') <= seen'[p][c]
                  /\ seen'[p][c] <= Cardinality(Started(c)')
  <2>1. /\ pc[r] = "new" /\ pc'[r] \in {"respond", "load"}
        /\ UNCHANGED <<left, seen>>
        /\ \A q \in Requests \ {r} : pc'[q] = pc[q]
    BY <1>1, <1>5 DEF Scrape, Typed
  <2>2. /\ exchange'[r].op = exchange[r].op
        /\ \A q \in Requests \ {r} : exchange'[q] = exchange[q]
    BY <1>1, <1>5 DEF Scrape, Typed, Exchange
  <2>3. \A c : Started(c)' = Started(c)
    BY <1>1, <2>1, <2>2, BooksStay DEF Begun
  <2>4. \A q \in Requests : pc'[q] = "record" => pc[q] = "record"
    BY <2>1
  <2>5. CASE r # p
    <3>1. overlap'[p] = overlap[p] /\ unread'[p] = unread[p] /\ pc[p] = "load"
      BY <1>1, <1>5, <2>1, <2>5 DEF Scrape, Typed
    <3> QED
      BY <1>2, <2>1, <2>3, <2>4, <3>1
  <2>6. CASE r = p
    <3>1. unread'[p] = Rendered /\ overlap'[p] = {q \in Requests : pc[q] = "record"}
      BY <1>1, <1>5, <2>1, <2>6 DEF Scrape, Typed
    <3> QED
      BY <2>4, <3>1
  <2> QED
    BY <2>5, <2>6
<1>6. ASSUME NEW r \in Requests, Respond(r)
      PROVE  /\ \A q \in Requests : pc'[q] = "record" => q \in overlap'[p]
             /\ \A c \in (Rendered \cap Latencies) \ unread'[p] :
                  /\ Cardinality(Before(p, c)') <= seen'[p][c]
                  /\ seen'[p][c] <= Cardinality(Started(c)')
  <2>1. /\ pc[r] = "respond" /\ pc'[r] = "record" /\ UNCHANGED <<exchange, unread, seen>>
        /\ \A q \in Requests \ {r} : pc'[q] = pc[q]
    BY <1>1, <1>6 DEF Respond, Typed
  <2>2. pc[p] = "load" /\ overlap'[p] = overlap[p] \cup {r}
    BY <1>6, <2>1 DEF Respond
  <2>3. \A c : Before(p, c)' = Before(p, c) /\ Started(c) \subseteq Started(c)'
    BY <2>1, <2>2 DEF Before, Started, Begun
  <2>4. ASSUME NEW c PROVE Cardinality(Started(c)) <= Cardinality(Started(c)')
    <3>1. IsFiniteSet(Started(c)')
      <4>1. Started(c)' \in SUBSET Requests
        BY DEF Started
      <4> QED
        BY <4>1, RequestsAssumption, FS_Subset
    <3> QED
      BY <2>3, <3>1, FS_Subset
  <2>5. ASSUME NEW c \in (Rendered \cap Latencies) \ unread'[p]
        PROVE  /\ Cardinality(Before(p, c)') <= seen'[p][c]
               /\ seen'[p][c] <= Cardinality(Started(c)')
    <3>1. /\ Cardinality(Before(p, c)) <= seen[p][c] /\ seen[p][c] <= Cardinality(Started(c))
          /\ seen[p][c] \in Nat /\ Cardinality(Started(c)) \in Nat
      BY <1>1, <2>1, <2>2, <2>5, Finite DEF Loading, Typed
    <3>2. Cardinality(Started(c)') \in Nat
      <4>1. Started(c)' \in SUBSET Requests
        BY DEF Started
      <4> QED
        BY <4>1, RequestsAssumption, FS_Subset, FS_CardinalityType
    <3>3. seen[p][c] <= Cardinality(Started(c)')
      BY <2>4, <3>1, <3>2
    <3> QED
      BY <2>1, <2>3, <3>1, <3>3
  <2>6. \A q \in Requests : pc'[q] = "record" => q \in overlap'[p]
    BY <2>1, <2>2 DEF Loading
  <2> QED
    BY <2>5, <2>6
<1>7. ASSUME NEW r \in Requests, NEW d \in Watched, Load(r, d)
      PROVE  /\ \A q \in Requests : pc'[q] = "record" => q \in overlap'[p]
             /\ \A c \in (Rendered \cap Latencies) \ unread'[p] :
                  /\ Cardinality(Before(p, c)') <= seen'[p][c]
                  /\ seen'[p][c] <= Cardinality(Started(c)')
  <2>1. UNCHANGED <<counters, pc, exchange, left, overlap>> /\ pc[p] = "load"
    BY <1>7 DEF Load
  <2>2. \A c : Started(c)' = Started(c) /\ Before(p, c)' = Before(p, c)
    BY <2>1 DEF Started, Before
  <2>3. CASE r # p
    <3>1. seen'[p] = seen[p] /\ unread'[p] = unread[p]
      BY <1>1, <1>7, <2>3 DEF Load, Typed
    <3> QED
      BY <1>2, <2>1, <2>2, <3>1
  <2>4. CASE r = p
    <3>1. /\ unread'[p] = unread[p] \ {d} /\ d \in unread[p] /\ d \in Rendered
          /\ seen'[p][d] = counters[d]
          /\ \A c \in Rendered \ {d} : seen'[p][c] = seen[p][c]
      BY <1>1, <1>7, <2>4 DEF Load, Typed
    <3>2. ASSUME NEW c \in (Rendered \cap Latencies) \ unread'[p]
          PROVE  /\ Cardinality(Before(p, c)) <= seen'[p][c]
                 /\ seen'[p][c] <= Cardinality(Started(c))
      <4>1. CASE c # d
        BY <2>1, <3>1, <3>2, <4>1 DEF Loading
      <4>2. CASE c = d
        <5>1. seen'[p][c] = Cardinality(Recorded(c))
          BY <1>1, <3>1, <3>2, <4>2 DEF Counts
        <5>2. Before(p, c) \in SUBSET Recorded(c)
          <6>1. SUFFICES ASSUME NEW q \in Before(p, c) PROVE q \in Recorded(c)
            OBVIOUS
          <6>2. q \in Requests /\ q \in Started(c) /\ q \notin overlap[p]
            BY DEF Before, Started
          <6>3. pc[q] = "done"
            BY <2>1, <6>2 DEF Loading, Started, Begun
          <6> QED
            BY <1>1, <6>2, <6>3 DEF Recorded, Progress
        <5>3. Cardinality(Before(p, c)) <= Cardinality(Recorded(c))
          BY <5>2, Finite, FS_Subset
        <5> QED
          BY <5>1, <5>3, Finite
      <4> QED
        BY <4>1, <4>2
    <3> QED
      BY <2>1, <2>2, <3>2 DEF Loading
  <2> QED
    BY <2>3, <2>4
<1>8. ASSUME NEW r \in Requests, NEW d \in Watched, Add(r, d)
      PROVE  /\ \A q \in Requests : pc'[q] = "record" => q \in overlap'[p]
             /\ \A c \in (Rendered \cap Latencies) \ unread'[p] :
                  /\ Cardinality(Before(p, c)') <= seen'[p][c]
                  /\ seen'[p][c] <= Cardinality(Started(c)')
  <2>1. /\ pc[r] = "record" /\ pc'[r] \in Begun /\ UNCHANGED <<exchange, unread, seen, overlap>>
        /\ \A q \in Requests \ {r} : pc'[q] = pc[q]
    BY <1>1, <1>8 DEF Add, Typed, Begun
  <2>2. \A c : Started(c)' = Started(c)
    BY <2>1 DEF Started, Begun
  <2>3. pc[p] = "load" /\ \A q \in Requests : pc'[q] = "record" => pc[q] = "record"
    BY <2>1 DEF Begun
  <2> QED
    BY <1>2, <2>1, <2>2, <2>3
<1> QED
  BY <1>3, <1>4, <1>5, <1>6, <1>7, <1>8 DEF Next

(* A scrape that is over shows what it had loaded, and nothing that happens later touches
   what it showed or whom it overlapped. *)
LEMMA NextSkew == ScrapeInv /\ [Next]_vars => ScrapeSkewBounded'
<1> SUFFICES ASSUME ScrapeInv, [Next]_vars, NEW p \in Requests,
                    exchange'[p].op = "scrape", pc'[p] \in {"respond", "record", "done"},
                    ~exchange'[p].error
             PROVE  LET s == seen'[p]
                        n == Cardinality(overlap'[p]) IN
                    /\ s["total"] - s["le_inf"] \in -n .. n
                    /\ s["le_500"] <= s["le_inf"] + n
                    /\ SumFunctionOnSet(s, Classes \cap Rendered) <= s["total"] + n
  BY DEF ScrapeSkewBounded, Rendered
<1>1. Typed
  BY DEF ScrapeInv, BooksInv
<1>2. \/ /\ pc[p] \in {"respond", "record", "done"} /\ exchange[p] = exchange'[p]
         /\ seen'[p] = seen[p] /\ overlap'[p] = overlap[p]
      \/ /\ pc[p] = "load" /\ unread[p] = {} /\ seen' = seen /\ overlap' = overlap
  <2>1. CASE UNCHANGED vars
    BY <2>1 DEF vars
  <2>2. ASSUME NEW r \in Requests, Handle(r) \/ Render(r) \/ Drop(r)
        PROVE  \/ /\ pc[p] \in {"respond", "record", "done"} /\ exchange[p] = exchange'[p]
                  /\ seen'[p] = seen[p] /\ overlap'[p] = overlap[p]
               \/ /\ pc[p] = "load" /\ unread[p] = {} /\ seen' = seen /\ overlap' = overlap
    BY <1>1, <2>2 DEF Handle, Render, Drop, Typed
  <2>3. ASSUME NEW r \in Requests, Scrape(r)
        PROVE  /\ pc[p] \in {"respond", "record", "done"} /\ exchange[p] = exchange'[p]
               /\ seen'[p] = seen[p] /\ overlap'[p] = overlap[p]
    <3>1. CASE r # p
      BY <1>1, <2>3, <3>1 DEF Scrape, Typed
    <3>2. CASE r = p
      <4>1. pc'[p] = "respond" => exchange'[p].error
        BY <1>1, <2>3, <3>2 DEF Scrape, Typed, Exchange
      <4>2. pc'[p] \in {"respond", "load"}
        BY <1>1, <2>3, <3>2 DEF Scrape, Typed
      <4> QED
        BY <4>1, <4>2
    <3> QED
      BY <3>1, <3>2
  <2>4. ASSUME NEW r \in Requests, Respond(r)
        PROVE  /\ pc[p] \in {"respond", "record", "done"} /\ exchange[p] = exchange'[p]
               /\ seen'[p] = seen[p] /\ overlap'[p] = overlap[p]
    BY <1>1, <2>4 DEF Respond, Typed
  <2>5. ASSUME NEW r \in Requests, NEW d \in Watched, Load(r, d)
        PROVE  /\ pc[p] \in {"respond", "record", "done"} /\ exchange[p] = exchange'[p]
               /\ seen'[p] = seen[p] /\ overlap'[p] = overlap[p]
    BY <1>1, <2>5 DEF Load, Typed
  <2>6. ASSUME NEW r \in Requests, NEW d \in Watched, Add(r, d)
        PROVE  /\ pc[p] \in {"respond", "record", "done"} /\ exchange[p] = exchange'[p]
               /\ seen'[p] = seen[p] /\ overlap'[p] = overlap[p]
    BY <1>1, <2>6 DEF Add, Typed
  <2> QED
    BY <2>1, <2>2, <2>3, <2>4, <2>5, <2>6 DEF Next
<1>3. CASE /\ pc[p] \in {"respond", "record", "done"} /\ exchange[p] = exchange'[p]
           /\ seen'[p] = seen[p] /\ overlap'[p] = overlap[p]
  BY <1>3 DEF ScrapeInv, ScrapeSkewBounded
<1>4. CASE /\ pc[p] = "load" /\ unread[p] = {} /\ seen' = seen /\ overlap' = overlap
  BY <1>4, LoadedSkew DEF ScrapeInv
<1> QED
  BY <1>2, <1>3, <1>4

LEMMA InitScrapes == Init => ScrapeInv
<1> SUFFICES ASSUME Init PROVE ScrapeInv
  OBVIOUS
<1>1. BooksInv
  BY InitBooks
<1>2. \A p \in Requests : pc[p] = "new"
  BY DEF Init
<1> QED
  BY <1>1, <1>2 DEF ScrapeInv, Loading, ScrapeSkewBounded

LEMMA NextScrapes == ScrapeInv /\ [Next]_vars => ScrapeInv'
BY NextBooks, NextLoading, NextSkew DEF ScrapeInv

(* A scrape is no snapshot, but it is off by no more than the requests recorded while it
   loaded, for any number of them and of scrapes at once. *)
THEOREM ScrapeSkew == Spec => []ScrapeSkewBounded
<1>1. ScrapeInv => ScrapeSkewBounded
  BY DEF ScrapeInv
<1> QED
  BY <1>1, InitScrapes, NextScrapes, PTL DEF Spec
=============================================================================
