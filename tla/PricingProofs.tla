---------------------------- MODULE PricingProofs ---------------------------
(***************************************************************************)
(* Whatever the knobs and however many checkouts share the cache: every    *)
(* fiat invoice ends by the time QuoteEnds says, and a slow answer costs   *)
(* the cache at most one timeout.                                          *)
(***************************************************************************)
EXTENDS PricingProperties, InvoiceTableProofs

-----------------------------------------------------------------------------
(* Types.                                                                  *)

\* A request that waits passed the checks, and one that waits for the source
\* is priced in a fiat currency (create_invoice).
Accepted(r) ==
    /\ r.at \in {"fetching", "quoted"} => r.body \in Body /\ r.body.mode # "unknown"
    /\ r.at = "fetching" => r.body.pay = "fiat"
    /\ r.at = "quoted" => /\ r.body.pay \in {"grin", "fiat"}
                          /\ r.body.pay = "fiat" => r.rate # NULL

TypeInv == WellFormed /\ \A i \in Invoice : Accepted(checkout[i])

LEMMA NullIsNone ==
    /\ NULL \notin Times
    /\ NULL \notin Nat
  BY TableAssumption, PricingAssumption DEF TableAssumption, PricingAssumption, Valid, Times

LEMMA IdleTyped ==
    Idle \in CheckoutRecord /\ Accepted(Idle) /\ Idle.at = "new"
  <1>1. 0 \in Times
    BY PricingAssumption DEF PricingAssumption, Valid, Times
  <1> QED BY <1>1 DEF Idle, CheckoutRecord, Accepted, Steps

LEMMA DoneTyped ==
    ASSUME NEW b \in Body, NEW code \in Answers
    PROVE  Done(b, code) \in CheckoutRecord /\ Accepted(Done(b, code))
  <1>1. Idle \in CheckoutRecord
    BY IdleTyped
  <1> QED BY <1>1 DEF Done, Idle, CheckoutRecord, Accepted, Steps

LEMMA BodyFields ==
    ASSUME NEW b \in Body
    PROVE  /\ b.pay \in {"grin", "fiat", "neither"} /\ b.grin \in Amount
           /\ b.currency \in Currency /\ b.mode \in Mode \cup {NULL, "unknown"}
           /\ b.ttl \in Nat \cup {NULL}
  <1>1. b \in Requests
    BY PricingAssumption DEF PricingAssumption, Valid
  <1> QED BY <1>1 DEF Requests

LEMMA QuotedTyped ==
    ASSUME WellFormed, NEW i \in Invoice, NEW b \in Body, NEW rate \in Times \cup {NULL},
           b.mode # "unknown", (b.pay = "fiat" /\ rate # NULL) \/ b.pay = "grin",
           Quoted(i, b, rate), NEW j \in Invoice
    PROVE  /\ checkout' \in [Invoice -> CheckoutRecord]
           /\ j # i => checkout'[j] = checkout[j]
           /\ Accepted(checkout'[i])
           /\ checkout'[i].at \in {"quoted", "answered"}
           /\ checkout'[i].body = b
           /\ checkout'[i].at = "quoted" =>
                checkout'[i].rate = rate /\ checkout'[i].quoted = now
           /\ checkout'[i].answer # "502"
  <1> DEFINE q == [Idle EXCEPT !.at = "quoted", !.body = b, !.rate = rate, !.quoted = now]
             new == IF b.pay = "fiat" /\ b.fiat = "overflows" THEN Done(b, "400") ELSE q
  <1>1. checkout \in [Invoice -> CheckoutRecord] /\ now \in Times
    BY DEF WellFormed
  <1>2. q \in CheckoutRecord /\ Accepted(q) /\ q.at = "quoted" /\ q.body = b
        /\ q.rate = rate /\ q.quoted = now /\ q.answer = NULL
    BY <1>1, IdleTyped DEF Idle, CheckoutRecord, Accepted, Steps
  <1>3. Done(b, "400").at = "answered" /\ Done(b, "400").body = b /\ Done(b, "400").answer = "400"
    BY DEF Done, Idle
  <1>4. Done(b, "400") \in CheckoutRecord /\ Accepted(Done(b, "400"))
    BY DoneTyped DEF Answers
  <1>5. NULL # "502"
    BY PricingAssumption DEF PricingAssumption, Valid, Answers
  <1>6. checkout' = [checkout EXCEPT ![i] = new]
    BY DEF Quoted
  <1>7. new \in CheckoutRecord
    BY <1>2, <1>4
  <1>8. checkout' \in [Invoice -> CheckoutRecord] /\ checkout'[i] = new
        /\ (j # i => checkout'[j] = checkout[j])
    BY <1>1, <1>6, <1>7
  <1>9. CASE b.pay = "fiat" /\ b.fiat = "overflows"
    BY <1>3, <1>4, <1>8, <1>9
  <1>10. CASE ~(b.pay = "fiat" /\ b.fiat = "overflows")
    BY <1>2, <1>5, <1>8, <1>10
  <1> QED BY <1>9, <1>10

LEMMA ParamsTyped ==
    ASSUME TypeInv, NEW i \in Invoice, checkout[i].at = "quoted"
    PROVE  Params(checkout[i]) \in NewInvoice
  <1> DEFINE r == checkout[i]
  <1>1. r \in CheckoutRecord /\ Accepted(r)
    BY DEF TypeInv, WellFormed
  <1>2. r.body \in Body /\ r.body.mode # "unknown" /\ r.rate \in Times \cup {NULL}
    BY <1>1 DEF Accepted, CheckoutRecord
  <1>3. r.body.mode \in Mode \cup {NULL} /\ r.body.grin \in Amount /\ r.body.ttl \in Nat \cup {NULL}
    BY <1>2, BodyFields
  <1>4. Times \subseteq Amount /\ QUOTE_TTL \in Nat
    BY PricingAssumption DEF PricingAssumption, Valid, Times
  <1>5. Expiry(r.body) \in Nat \cup {NULL}
    BY <1>3, <1>4 DEF Expiry
  <1> QED BY <1>2, <1>3, <1>4, <1>5 DEF Params, NewInvoice

\* The row create inserts, and the table with it.
NewRow(i) == Created(Params(checkout[i]), DefaultMode, now)

LEMMA NewRowTyped ==
    ASSUME TypeInv, NEW i \in Invoice, checkout[i].at = "quoted"
    PROVE  /\ NewRow(i) \in Row
           /\ [tab EXCEPT ![i] = NewRow(i)] \in [Invoice -> Row]
           /\ ExpireIfDue([tab EXCEPT ![i] = NewRow(i)], i, now) \in [Invoice -> Row]
  <1>1. tab \in [Invoice -> Row] /\ now \in Nat /\ DefaultMode \in Mode
    BY PricingAssumption DEF PricingAssumption, Valid, TypeInv, WellFormed, Times
  <1>2. NewRow(i) \in Row
    BY <1>1, ParamsTyped, CreatedTyped DEF NewRow
  <1>3. [tab EXCEPT ![i] = NewRow(i)] \in [Invoice -> Row]
    BY <1>1, <1>2
  <1> QED BY <1>1, <1>2, <1>3, RowUpdatesTyped

\* No request touches another's record.
LEMMA AnsweredTyped ==
    ASSUME TypeInv, NEW i \in Invoice, NEW code \in Answers, checkout[i].body \in Body,
           Answered(i, code)
    PROVE  /\ checkout' \in [Invoice -> CheckoutRecord]
           /\ checkout'[i] = Done(checkout[i].body, code)
           /\ \A j \in Invoice : j # i => checkout'[j] = checkout[j]
           /\ \A j \in Invoice : Accepted(checkout'[j])
  <1>1. checkout \in [Invoice -> CheckoutRecord] /\ \A j \in Invoice : Accepted(checkout[j])
    BY DEF TypeInv, WellFormed
  <1>2. Done(checkout[i].body, code) \in CheckoutRecord /\ Accepted(Done(checkout[i].body, code))
    BY DoneTyped
  <1> QED BY <1>1, <1>2 DEF Answered

LEMMA PutTyped ==
    ASSUME WellFormed, NEW c \in Currency, NEW start \in Times
    PROVE  Put(c, start) \in [Currency -> [rate : Times, fetched : Times, held : BOOLEAN]]
  BY DEF WellFormed, Put

LEMMA UncachedTyped ==
    Uncached \in [rate : Times, fetched : Times, held : BOOLEAN]
  BY PricingAssumption DEF PricingAssumption, Valid, Uncached, Times

\* A request that is not refused is a good one (create_invoice, Oracle::quote).
LEMMA NotRefused ==
    ASSUME NEW b \in Body
    PROVE  /\ Refusal(b) \in Answers \cup {"none"}
           /\ Refusal(b) = "none" => b.mode # "unknown" /\ b.pay \in {"grin", "fiat"}
  BY BodyFields DEF Refusal, Answers

LEMMA RequestTyped ==
    ASSUME TypeInv, NEW i \in Invoice, NEW b \in Body, Request(i, b)
    PROVE  /\ checkout' \in [Invoice -> CheckoutRecord]
           /\ \A j \in Invoice : j # i => checkout'[j] = checkout[j]
           /\ Accepted(checkout'[i])
  <1>1. checkout \in [Invoice -> CheckoutRecord] /\ WellFormed /\ now \in Times
    BY DEF TypeInv, WellFormed
  <1>2. CASE Refusal(b) # "none"
    <2>1. checkout' = [checkout EXCEPT ![i] = Done(b, Refusal(b))]
      BY <1>2 DEF Request
    <2>2. Done(b, Refusal(b)) \in CheckoutRecord /\ Accepted(Done(b, Refusal(b)))
      BY <1>2, NotRefused, DoneTyped
    <2> QED BY <1>1, <2>1, <2>2
  <1>3. CASE Refusal(b) = "none" /\ b.pay = "grin"
    <2>1. Quoted(i, b, NULL)
      BY <1>3 DEF Request
    <2> QED BY <1>1, <1>3, <2>1, NotRefused, QuotedTyped
  <1>4. CASE Refusal(b) = "none" /\ b.pay # "grin" /\ Hit(b.currency, now)
    <2>1. Quoted(i, b, cache[b.currency].rate)
      BY <1>4 DEF Request
    <2>2. cache[b.currency].rate \in Times /\ cache[b.currency].rate # NULL
      BY <1>1, BodyFields, NullIsNone DEF WellFormed
    <2> QED BY <1>1, <1>4, <2>1, <2>2, NotRefused, QuotedTyped
  <1>5. CASE Refusal(b) = "none" /\ b.pay # "grin" /\ ~Hit(b.currency, now)
    <2> DEFINE f == [Idle EXCEPT !.at = "fetching", !.body = b, !.start = now]
    <2>1. checkout' = [checkout EXCEPT ![i] = f]
      BY <1>5 DEF Request
    <2>2. f \in CheckoutRecord
      BY <1>1, IdleTyped DEF Idle, CheckoutRecord, Steps
    <2>3. f.at = "fetching" /\ f.body = b
      BY DEF Idle
    <2>4. Accepted(f)
      BY <1>5, <2>3, NotRefused DEF Accepted
    <2> QED BY <1>1, <2>1, <2>2, <2>4
  <1> QED BY <1>2, <1>3, <1>4, <1>5

LEMMA FetchingFacts ==
    ASSUME TypeInv, NEW i \in Invoice, checkout[i].at = "fetching"
    PROVE  /\ checkout[i].body \in Body /\ checkout[i].body.mode # "unknown"
           /\ checkout[i].body.pay = "fiat" /\ checkout[i].body.currency \in Currency
           /\ checkout[i].start \in Times
  <1>1. checkout[i] \in CheckoutRecord /\ Accepted(checkout[i])
    BY DEF TypeInv, WellFormed
  <1> QED BY <1>1, BodyFields DEF CheckoutRecord, Accepted

LEMMA TypeInit == Init => TypeInv
  <1> SUFFICES ASSUME Init PROVE TypeInv
    OBVIOUS
  <1>1. 0 \in Times /\ 0 \in 0..MaxFaults
    BY PricingAssumption DEF PricingAssumption, Valid, Times
  <1>2. AbsentRow \in Row
    BY DEF AbsentRow, Row
  <1> QED BY <1>1, <1>2, IdleTyped, UncachedTyped DEF Init, TypeInv, WellFormed

LEMMA TypeStep == TypeInv /\ [Next]_vars => TypeInv'
  <1> SUFFICES ASSUME TypeInv, [Next]_vars PROVE TypeInv'
    OBVIOUS
  <1> DEFINE CheckoutsTyped ==
        /\ checkout \in [Invoice -> CheckoutRecord]
        /\ \A j \in Invoice : Accepted(checkout[j])
  <1>1. /\ now \in Times /\ faults \in 0..MaxFaults /\ tab \in [Invoice -> Row]
        /\ cache \in [Currency -> [rate : Times, fetched : Times, held : BOOLEAN]]
        /\ newest \in [Currency -> Times \cup {NULL}]
        /\ CheckoutsTyped
    BY DEF TypeInv, WellFormed
  <1>2. ASSUME NEW i \in Invoice, NEW b \in Body, Request(i, b) PROVE TypeInv'
    <2>1. CheckoutsTyped'
      BY <1>1, <1>2, RequestTyped
    <2>2. UNCHANGED <<now, cache, tab, newest, faults>>
      BY <1>2 DEF Request
    <2> QED BY <1>1, <2>1, <2>2 DEF TypeInv, WellFormed
  <1>3. ASSUME NEW i \in Invoice, SourceAnswers(i) PROVE TypeInv'
    <2> DEFINE c == checkout[i].body.currency
    <2>1. checkout[i].at = "fetching" /\ cache' = Put(c, checkout[i].start)
          /\ Quoted(i, checkout[i].body, now) /\ UNCHANGED <<now, tab, faults>>
      BY <1>3 DEF SourceAnswers
    <2>2. c \in Currency /\ checkout[i].start \in Times /\ WellFormed
      BY <2>1, FetchingFacts DEF TypeInv
    <2>3. CheckoutsTyped'
      BY <1>1, <2>1, <2>2, FetchingFacts, NullIsNone, QuotedTyped
    <2>4. cache' \in [Currency -> [rate : Times, fetched : Times, held : BOOLEAN]]
      BY <2>1, <2>2, PutTyped
    <2>5. newest' \in [Currency -> Times \cup {NULL}]
      BY <1>1, <1>3, <2>2 DEF SourceAnswers
    <2> QED BY <1>1, <2>1, <2>3, <2>4, <2>5 DEF TypeInv, WellFormed
  <1>4. ASSUME NEW i \in Invoice, FetchFails(i) PROVE TypeInv'
    <2> DEFINE c == checkout[i].body.currency
    <2>1. checkout[i].at = "fetching" /\ UNCHANGED <<now, cache, tab, newest, faults>>
      BY <1>4 DEF FetchFails
    <2>2. c \in Currency /\ WellFormed
      BY <2>1, FetchingFacts DEF TypeInv
    <2>3. CASE Fallback(c, checkout[i].start)
      <3>1. Quoted(i, checkout[i].body, cache[c].rate)
        BY <1>4, <2>3 DEF FetchFails
      <3>2. cache[c].rate \in Times /\ cache[c].rate # NULL
        BY <1>1, <2>2, NullIsNone
      <3>3. CheckoutsTyped'
        BY <1>1, <2>1, <2>2, <3>1, <3>2, FetchingFacts, QuotedTyped
      <3> QED BY <1>1, <2>1, <3>3 DEF TypeInv, WellFormed
    <2>4. CASE ~Fallback(c, checkout[i].start)
      <3>1. Answered(i, "502")
        BY <1>4, <2>4 DEF FetchFails
      <3>2. CheckoutsTyped'
        BY <2>1, <3>1, FetchingFacts, AnsweredTyped DEF Answers
      <3> QED BY <1>1, <2>1, <3>2 DEF TypeInv, WellFormed
    <2> QED BY <2>3, <2>4
  <1>5. ASSUME NEW i \in Invoice, checkout[i].at = "quoted" PROVE checkout[i].body \in Body
    BY <1>1, <1>5 DEF Accepted
  <1>6. ASSUME NEW i \in Invoice, Insert(i) PROVE TypeInv'
    <2>1. checkout[i].at = "quoted" /\ Answered(i, "200") /\ UNCHANGED <<now, cache, newest, faults>>
      BY <1>6 DEF Insert
    <2>2. CheckoutsTyped'
      BY <2>1, <1>5, AnsweredTyped DEF Answers
    <2>3. tab' \in [Invoice -> Row]
      BY <1>6, <2>1, NewRowTyped DEF Insert, NewRow
    <2> QED BY <1>1, <2>1, <2>2, <2>3 DEF TypeInv, WellFormed
  <1>7. ASSUME NEW i \in Invoice, InsertFails(i) PROVE TypeInv'
    <2>1. checkout[i].at = "quoted" /\ Answered(i, "500") /\ UNCHANGED <<now, cache, newest>>
      BY <1>7 DEF InsertFails
    <2>2. CheckoutsTyped'
      BY <2>1, <1>5, AnsweredTyped DEF Answers
    <2>3. tab' \in [Invoice -> Row]
      BY <1>1, <1>7, <2>1, NewRowTyped DEF InsertFails, NewRow
    <2>4. faults' \in 0..MaxFaults
      BY <1>1, <1>7, PricingAssumption DEF InsertFails, PricingAssumption, Valid
    <2> QED BY <1>1, <2>1, <2>2, <2>3, <2>4 DEF TypeInv, WellFormed
  <1>8. CASE Restart
    <2> DEFINE lost(j) == [Idle EXCEPT !.at = "lost", !.body = checkout[j].body]
    <2>1. \A j \in Invoice : lost(j) \in CheckoutRecord /\ Accepted(lost(j))
      BY <1>1, IdleTyped DEF Idle, CheckoutRecord, Accepted, Steps
    <2>2. CheckoutsTyped'
      BY <1>1, <1>8, <2>1 DEF Restart
    <2>3. faults < MaxFaults /\ faults' = faults + 1 /\ MaxFaults \in Nat
      BY <1>8, PricingAssumption DEF Restart, PricingAssumption, Valid
    <2>5. faults' \in 0..MaxFaults
      BY <1>1, <2>3
    <2>4. /\ cache' \in [Currency -> [rate : Times, fetched : Times, held : BOOLEAN]]
          /\ newest' \in [Currency -> Times \cup {NULL}] /\ UNCHANGED <<now, tab>>
      BY <1>8, UncachedTyped DEF Restart
    <2> QED BY <1>1, <2>2, <2>4, <2>5 DEF TypeInv, WellFormed
  <1>9. CASE Tick
    <2>1. now' \in Times
      BY <1>1, <1>9, PricingAssumption DEF Tick, PricingAssumption, Valid, Times
    <2>2. UNCHANGED <<cache, tab, checkout, newest, faults>>
      BY <1>9 DEF Tick
    <2> QED BY <1>1, <2>1, <2>2 DEF TypeInv, WellFormed
  <1>10. CASE UNCHANGED vars
    BY <1>1, <1>10 DEF vars, TypeInv, WellFormed
  <1> QED BY <1>2, <1>3, <1>4, <1>6, <1>7, <1>8, <1>9, <1>10 DEF Next

-----------------------------------------------------------------------------
(* Ages.                                                                   *)

\* No request waits past its deadline, and a quote is of a recent rate.
InTime(r) ==
    /\ r.at = "fetching" => r.start <= now /\ now <= r.start + FETCH_TIMEOUT
    /\ r.at = "quoted" =>
         /\ r.quoted <= now /\ now <= r.quoted + DB_WAIT
         /\ r.body.pay = "fiat" => r.rate <= r.quoted /\ r.quoted <= r.rate + MaxAge

\* A slow answer takes the entry back by no more than one timeout.
NewestKept == \A c \in Currency :
    /\ cache[c].held <=> newest[c] # NULL
    /\ cache[c].held => /\ newest[c] <= now
                        /\ newest[c] <= cache[c].fetched + FETCH_TIMEOUT

\* A row is there only once its request is answered.
RowAnswered == \A i \in Invoice : tab[i].status # "absent" => checkout[i].at = "answered"

\* The end of a fiat row is set with the row and not moved.
EndsInTime == \A i \in Invoice : FiatRow(i) =>
    /\ tab[i].expected # NULL /\ tab[i].expiry # NULL
    /\ tab[i].expiry <= LatestEnd(i)

PricingInv ==
    /\ TypeInv
    /\ CacheDated
    /\ \A i \in Invoice : InTime(checkout[i])
    /\ NewestKept
    /\ RowAnswered
    /\ EndsInTime

LEMMA Knobs ==
    /\ FETCH_TIMEOUT \in Nat /\ DB_WAIT \in Nat /\ QUOTE_TTL \in Nat /\ MaxAge \in Nat
    /\ CACHE_TTL \in Nat /\ STALE_MAX \in Nat
    /\ CACHE_TTL <= MaxAge
    /\ STALE_MAX # 0 => STALE_MAX + FETCH_TIMEOUT <= MaxAge
    /\ \A t \in Times : t \in Nat
  BY PricingAssumption DEF PricingAssumption, Valid, MaxAge, Larger, Times

\* What Quoted leaves behind is in time when its rate is.
LEMMA QuotedInTime ==
    ASSUME TypeInv, NEW i \in Invoice, NEW b \in Body, NEW rate \in Times \cup {NULL},
           b.mode # "unknown", (b.pay = "fiat" /\ rate # NULL) \/ b.pay = "grin",
           b.pay = "fiat" => rate <= now /\ now <= rate + MaxAge,
           Quoted(i, b, rate)
    PROVE  InTime(checkout'[i])
  <1>1. WellFormed /\ now \in Nat
    BY Knobs DEF TypeInv, WellFormed
  <1>2. /\ checkout'[i].at \in {"quoted", "answered"}
        /\ checkout'[i].body = b
        /\ checkout'[i].at = "quoted" => checkout'[i].rate = rate /\ checkout'[i].quoted = now
    BY <1>1, QuotedTyped
  <1>3. now <= now + DB_WAIT
    BY <1>1, Knobs
  <1> QED BY <1>1, <1>2, <1>3 DEF InTime

LEMMA HitInTime ==
    ASSUME TypeInv, CacheDated, NEW c \in Currency, Hit(c, now)
    PROVE  cache[c].rate <= now /\ now <= cache[c].rate + MaxAge
  <1>1. cache[c].rate \in Nat /\ cache[c].fetched \in Nat /\ now \in Nat
    BY Knobs DEF TypeInv, WellFormed
  <1>2. now <= cache[c].fetched + CACHE_TTL /\ cache[c].held
    BY DEF Hit, IsFresh
  <1>3. cache[c].fetched <= cache[c].rate /\ cache[c].rate <= now
    BY <1>2 DEF CacheDated
  <1> QED BY <1>1, <1>2, <1>3, Knobs

LEMMA FallbackInTime ==
    ASSUME TypeInv, CacheDated, NEW i \in Invoice, checkout[i].at = "fetching",
           InTime(checkout[i]), NEW c \in Currency, Fallback(c, checkout[i].start)
    PROVE  cache[c].rate <= now /\ now <= cache[c].rate + MaxAge
  <1>1. /\ cache[c].rate \in Nat /\ cache[c].fetched \in Nat /\ now \in Nat
        /\ checkout[i].start \in Nat
    BY FetchingFacts, Knobs DEF TypeInv, WellFormed
  <1>2. checkout[i].start <= cache[c].fetched + STALE_MAX /\ cache[c].held /\ STALE_MAX # 0
    BY DEF Fallback, IsFresh
  <1>3. cache[c].fetched <= cache[c].rate /\ cache[c].rate <= now
    BY <1>2 DEF CacheDated
  <1>4. now <= checkout[i].start + FETCH_TIMEOUT
    BY DEF InTime
  <1> QED BY <1>1, <1>2, <1>3, <1>4, Knobs

\* The row of a quote in time (price_if_fiat's clamp and create's INSERT).
LEMMA NewRowInTime ==
    ASSUME TypeInv, NEW i \in Invoice, checkout[i].at = "quoted",
           checkout[i].body.pay = "fiat", InTime(checkout[i])
    PROVE  /\ NewRow(i).expected # NULL /\ NewRow(i).expiry # NULL
           /\ NewRow(i).expiry <= NewRow(i).expected + MaxAge + DB_WAIT + QUOTE_TTL
  <1> DEFINE r == checkout[i]
  <1>1. r \in CheckoutRecord /\ Accepted(r) /\ now \in Nat
    BY Knobs DEF TypeInv, WellFormed
  <1>2. r.rate # NULL /\ r.body \in Body
    BY <1>1 DEF Accepted
  <1>3. r.rate \in Nat /\ r.quoted \in Nat
    BY <1>1, <1>2, Knobs DEF CheckoutRecord
  <1>4. r.quoted <= r.rate + MaxAge /\ now <= r.quoted + DB_WAIT
    BY DEF InTime
  <1>5. Expiry(r.body) \in Nat /\ Expiry(r.body) <= QUOTE_TTL
    BY <1>2, BodyFields, Knobs DEF Expiry
  <1>6. Expiry(r.body) # NULL /\ now + Expiry(r.body) \in Nat
    BY <1>1, <1>5, NullIsNone
  <1>7. NewRow(i).expected = r.rate
    BY DEF NewRow, Created, Params
  <1>8. Params(r).ttl = Expiry(r.body)
    BY DEF Params
  <1>9. NewRow(i).expiry = now + Expiry(r.body)
    BY <1>6, <1>8 DEF NewRow, Created
  <1>10. now + Expiry(r.body) <= r.rate + MaxAge + DB_WAIT + QUOTE_TTL
    BY <1>1, <1>3, <1>4, <1>5, Knobs
  <1> QED BY <1>2, <1>6, <1>7, <1>9, <1>10, NullIsNone

\* Lazy expiry moves neither the amount nor the end of a row.
LEMMA ExpireKeeps ==
    ASSUME NEW t \in [Invoice -> Row], NEW i \in Invoice, NEW j \in Invoice
    PROVE  /\ ExpireIfDue(t, i, now)[j].expected = t[j].expected
           /\ ExpireIfDue(t, i, now)[j].expiry = t[j].expiry
           /\ ExpireIfDue(t, i, now)[j].status = "absent" <=> t[j].status = "absent"
  <1>1. t[j] \in Row
    OBVIOUS
  <1>2. CASE j = i /\ t[i].status = "open" /\ PastExpiry(t, i, now)
    <2>1. ExpireIfDue(t, i, now)[j] = [t[i] EXCEPT !.status = "expired"]
      BY <1>2 DEF ExpireIfDue
    <2> QED BY <1>1, <1>2, <2>1 DEF Row
  <1>3. CASE ~(j = i /\ t[i].status = "open" /\ PastExpiry(t, i, now))
    <2>1. ExpireIfDue(t, i, now)[j] = t[j]
      BY <1>3 DEF ExpireIfDue
    <2> QED BY <2>1
  <1> QED BY <1>2, <1>3

\* A step that changes no row, and no request that has been answered, leaves
\* the rows as they were.
LEMMA RowsKept ==
    ASSUME PricingInv, UNCHANGED tab,
           \A j \in Invoice : checkout[j].at = "answered" => checkout'[j] = checkout[j]
    PROVE  RowAnswered' /\ EndsInTime'
  <1>1. ASSUME NEW j \in Invoice, tab[j].status # "absent"
        PROVE  checkout'[j] = checkout[j] /\ checkout[j].at = "answered"
    BY <1>1 DEF PricingInv, RowAnswered
  <1>2. RowAnswered'
    BY <1>1 DEF RowAnswered
  <1>3. EndsInTime'
    BY <1>1 DEF PricingInv, EndsInTime, FiatRow, LatestEnd
  <1> QED BY <1>2, <1>3

\* The two ways a row gets in: create's INSERT, read back or not.
LEMMA RowsInserted ==
    ASSUME PricingInv, NEW i \in Invoice, NEW code \in Answers, checkout[i].at = "quoted",
           Answered(i, code),
           \/ tab' = [tab EXCEPT ![i] = NewRow(i)]
           \/ tab' = ExpireIfDue([tab EXCEPT ![i] = NewRow(i)], i, now)
    PROVE  RowAnswered' /\ EndsInTime'
  <1> DEFINE new == [tab EXCEPT ![i] = NewRow(i)]
  <1>1. TypeInv /\ InTime(checkout[i]) /\ tab \in [Invoice -> Row]
    BY DEF PricingInv, TypeInv, WellFormed
  <1>2. new \in [Invoice -> Row]
    BY <1>1, NewRowTyped
  <1>3. \A j \in Invoice : /\ tab'[j].expected = new[j].expected
                           /\ tab'[j].expiry = new[j].expiry
                           /\ tab'[j].status = "absent" <=> new[j].status = "absent"
    <2>1. CASE tab' = new
      BY <2>1
    <2>2. CASE tab' = ExpireIfDue(new, i, now)
      <3> HIDE DEF new
      <3> QED BY <1>2, <2>2, ExpireKeeps
    <2> QED BY <2>1, <2>2 DEF NewRow
  <1>4. checkout[i].body \in Body
    BY <1>1 DEF TypeInv, Accepted
  <1>5. /\ checkout'[i].at = "answered" /\ checkout'[i].body = checkout[i].body
        /\ \A j \in Invoice : j # i => checkout'[j] = checkout[j]
    BY <1>1, <1>4, AnsweredTyped DEF Done, Idle
  <1>6. RowAnswered'
    BY <1>1, <1>3, <1>5 DEF PricingInv, RowAnswered
  <1>7. new[i] = NewRow(i) /\ \A j \in Invoice : j # i => new[j] = tab[j]
    BY <1>1
  <1>8. ASSUME NEW j \in Invoice, FiatRow(j)'
        PROVE  /\ tab'[j].expected # NULL /\ tab'[j].expiry # NULL
               /\ tab'[j].expiry <= tab'[j].expected + MaxAge + DB_WAIT + QUOTE_TTL
    <2>1. CASE j = i
      <3>1. checkout[i].body.pay = "fiat"
        BY <1>5, <1>8, <2>1 DEF FiatRow
      <3>2. /\ NewRow(i).expected # NULL /\ NewRow(i).expiry # NULL
            /\ NewRow(i).expiry <= NewRow(i).expected + MaxAge + DB_WAIT + QUOTE_TTL
        BY <1>1, <3>1, NewRowInTime
      <3> QED BY <1>3, <1>7, <2>1, <3>2
    <2>2. CASE j # i
      <3>1. FiatRow(j)
        BY <1>3, <1>5, <1>7, <1>8, <2>2 DEF FiatRow
      <3> QED BY <1>3, <1>7, <2>2, <3>1 DEF PricingInv, EndsInTime, LatestEnd
    <2> QED BY <2>1, <2>2
  <1>9. EndsInTime'
    BY <1>8 DEF EndsInTime, LatestEnd
  <1> QED BY <1>6, <1>9

\* A step without Tick that leaves the cache alone keeps what is said of it.
LEMMA CacheKept ==
    ASSUME PricingInv, UNCHANGED <<now, cache, newest>>
    PROVE  CacheDated' /\ NewestKept'
  BY DEF PricingInv, CacheDated, NewestKept

\* Only the request that moves can leave its time.
LEMMA OthersInTime ==
    ASSUME PricingInv, NEW i \in Invoice, UNCHANGED now, InTime(checkout'[i]),
           \A j \in Invoice : j # i => checkout'[j] = checkout[j]
    PROVE  \A j \in Invoice : InTime(checkout[j])'
  BY DEF PricingInv, InTime, MaxAge, Larger

\* cache_put of a slow answer: a timeout at most behind the newest.
LEMMA PutKeeps ==
    ASSUME PricingInv, NEW i \in Invoice, SourceAnswers(i)
    PROVE  CacheDated' /\ NewestKept'
  <1> DEFINE r == checkout[i]
             c == r.body.currency
  <1>1. /\ r.at = "fetching" /\ cache' = Put(c, r.start) /\ now' = now
        /\ newest' = [newest EXCEPT ![c] = IF @ = NULL \/ @ < r.start THEN r.start ELSE @]
    BY DEF SourceAnswers
  <1>2. TypeInv /\ c \in Currency /\ r.start \in Times
    BY <1>1, FetchingFacts DEF PricingInv
  <1>3. r.start <= now /\ now <= r.start + FETCH_TIMEOUT
    BY <1>1 DEF PricingInv, InTime
  <1>4. /\ now \in Nat /\ r.start \in Nat /\ r.start # NULL
        /\ cache \in [Currency -> [rate : Times, fetched : Times, held : BOOLEAN]]
        /\ newest \in [Currency -> Times \cup {NULL}]
    BY <1>2, Knobs, NullIsNone DEF TypeInv, WellFormed
  <1>5. /\ cache'[c].rate = now /\ cache'[c].fetched = r.start /\ cache'[c].held
        /\ \A d \in Currency : d # c => cache'[d] = cache[d] /\ newest'[d] = newest[d]
    BY <1>1, <1>2, <1>4 DEF Put
  <1>6. CacheDated'
    BY <1>1, <1>3, <1>4, <1>5 DEF PricingInv, CacheDated
  <1>7. newest[c] = NULL \/ (newest[c] \in Nat /\ newest[c] <= now)
    <2>1. newest[c] # NULL => newest[c] <= now
      BY <1>2 DEF PricingInv, NewestKept
    <2> QED BY <1>2, <1>4, <2>1, Knobs
  <1>8. newest'[c] # NULL /\ newest'[c] <= now /\ newest'[c] <= r.start + FETCH_TIMEOUT
    <2>1. newest'[c] = IF newest[c] = NULL \/ newest[c] < r.start THEN r.start ELSE newest[c]
      BY <1>1, <1>2, <1>4
    <2>2. CASE newest[c] = NULL \/ newest[c] < r.start
      BY <1>3, <1>4, <2>1, <2>2, Knobs
    <2>3. CASE ~(newest[c] = NULL \/ newest[c] < r.start)
      BY <1>3, <1>4, <1>7, <2>1, <2>3, Knobs
    <2> QED BY <2>2, <2>3
  <1>9. NewestKept'
    BY <1>1, <1>5, <1>8 DEF PricingInv, NewestKept
  <1> QED BY <1>6, <1>9

LEMMA PricingStep == PricingInv /\ [Next]_vars => PricingInv'
  <1> SUFFICES ASSUME PricingInv, [Next]_vars PROVE PricingInv'
    OBVIOUS
  <1>1. TypeInv /\ TypeInv' /\ WellFormed /\ CacheDated
    BY TypeStep DEF PricingInv, TypeInv
  <1>2. ASSUME NEW i \in Invoice, NEW b \in Body, Request(i, b) PROVE PricingInv'
    <2>1. checkout[i].at = "new" /\ UNCHANGED <<now, cache, tab, newest, faults>>
      BY <1>2 DEF Request
    <2>2. \A j \in Invoice : j # i => checkout'[j] = checkout[j]
      BY <1>1, <1>2, RequestTyped
    <2>3. InTime(checkout'[i])
      <3>1. checkout \in [Invoice -> CheckoutRecord] /\ now \in Nat
        BY <1>1, Knobs DEF WellFormed
      <3>2. CASE Refusal(b) # "none"
        <4>1. checkout'[i] = Done(b, Refusal(b))
          BY <1>2, <3>1, <3>2 DEF Request
        <4> QED BY <4>1 DEF Done, Idle, InTime
      <3>3. CASE Refusal(b) = "none" /\ b.pay = "grin"
        <4>1. Quoted(i, b, NULL)
          BY <1>2, <3>3 DEF Request
        <4> QED BY <1>1, <3>3, <4>1, NotRefused, QuotedInTime
      <3>4. CASE Refusal(b) = "none" /\ b.pay # "grin" /\ Hit(b.currency, now)
        <4>1. Quoted(i, b, cache[b.currency].rate)
          BY <1>2, <3>4 DEF Request
        <4>2. cache[b.currency].rate \in Times /\ cache[b.currency].rate # NULL
              /\ b.currency \in Currency
          BY <1>1, BodyFields, NullIsNone DEF WellFormed
        <4> QED BY <1>1, <3>4, <4>1, <4>2, NotRefused, HitInTime, QuotedInTime
      <3>5. CASE Refusal(b) = "none" /\ b.pay # "grin" /\ ~Hit(b.currency, now)
        <4>1. checkout'[i] = [Idle EXCEPT !.at = "fetching", !.body = b, !.start = now]
          BY <1>2, <3>1, <3>5 DEF Request
        <4> QED BY <3>1, <4>1, Knobs DEF Idle, InTime
      <3> QED BY <3>2, <3>3, <3>4, <3>5
    <2> QED BY <1>1, <2>1, <2>2, <2>3, CacheKept, OthersInTime, RowsKept DEF PricingInv
  <1>3. ASSUME NEW i \in Invoice, SourceAnswers(i) PROVE PricingInv'
    <2>1. checkout[i].at = "fetching" /\ Quoted(i, checkout[i].body, now)
          /\ UNCHANGED <<now, tab, faults>>
      BY <1>3 DEF SourceAnswers
    <2>2. now \in Times /\ now \in Nat /\ now # NULL
      BY <1>1, Knobs, NullIsNone DEF WellFormed
    <2>3. now <= now + MaxAge
      BY <2>2, Knobs
    <2>4. InTime(checkout'[i])
      BY <1>1, <2>1, <2>2, <2>3, FetchingFacts, QuotedInTime
    <2>5. \A j \in Invoice : j # i => checkout'[j] = checkout[j]
      BY <1>1, <2>1, <2>2, FetchingFacts, QuotedTyped
    <2> QED BY <1>1, <1>3, <2>1, <2>4, <2>5, PutKeeps, OthersInTime, RowsKept DEF PricingInv
  <1>4. ASSUME NEW i \in Invoice, FetchFails(i) PROVE PricingInv'
    <2> DEFINE c == checkout[i].body.currency
    <2>1. checkout[i].at = "fetching" /\ UNCHANGED <<now, cache, tab, newest, faults>>
      BY <1>4 DEF FetchFails
    <2>2. c \in Currency /\ checkout[i].body \in Body /\ InTime(checkout[i])
      BY <1>1, <2>1, FetchingFacts DEF PricingInv
    <2>3. InTime(checkout'[i]) /\ \A j \in Invoice : j # i => checkout'[j] = checkout[j]
      <3>1. CASE Fallback(c, checkout[i].start)
        <4>1. Quoted(i, checkout[i].body, cache[c].rate)
          BY <1>4, <3>1 DEF FetchFails
        <4>2. cache[c].rate \in Times /\ cache[c].rate # NULL
          BY <1>1, <2>2, NullIsNone DEF WellFormed
        <4>3. cache[c].rate <= now /\ now <= cache[c].rate + MaxAge
          BY <1>1, <2>1, <2>2, <3>1, FallbackInTime
        <4>4. InTime(checkout'[i])
          BY <1>1, <2>1, <4>1, <4>2, <4>3, FetchingFacts, QuotedInTime
        <4>5. \A j \in Invoice : j # i => checkout'[j] = checkout[j]
          BY <1>1, <2>1, <4>1, <4>2, FetchingFacts, QuotedTyped
        <4> QED BY <4>4, <4>5
      <3>2. CASE ~Fallback(c, checkout[i].start)
        <4>1. Answered(i, "502")
          BY <1>4, <3>2 DEF FetchFails
        <4>2. checkout'[i].at = "answered" /\ \A j \in Invoice : j # i => checkout'[j] = checkout[j]
          BY <1>1, <2>2, <4>1, AnsweredTyped DEF Answers, Done, Idle
        <4> QED BY <4>2 DEF InTime
      <3> QED BY <3>1, <3>2
    <2> QED BY <1>1, <2>1, <2>3, CacheKept, OthersInTime, RowsKept DEF PricingInv
  <1>5. ASSUME NEW i \in Invoice, NEW code \in Answers, checkout[i].at = "quoted", Answered(i, code)
        PROVE  InTime(checkout'[i]) /\ \A j \in Invoice : j # i => checkout'[j] = checkout[j]
    <2>1. checkout[i].body \in Body
      BY <1>1, <1>5 DEF TypeInv, Accepted
    <2>2. checkout'[i].at = "answered" /\ \A j \in Invoice : j # i => checkout'[j] = checkout[j]
      BY <1>1, <1>5, <2>1, AnsweredTyped DEF Done, Idle
    <2> QED BY <2>2 DEF InTime
  <1>6. ASSUME NEW i \in Invoice, Insert(i) PROVE PricingInv'
    <2>1. checkout[i].at = "quoted" /\ Answered(i, "200") /\ UNCHANGED <<now, cache, newest, faults>>
          /\ tab' = ExpireIfDue([tab EXCEPT ![i] = NewRow(i)], i, now)
      BY <1>6 DEF Insert, NewRow
    <2>2. "200" \in Answers
      BY DEF Answers
    <2>3. RowAnswered' /\ EndsInTime'
      BY <2>1, <2>2, RowsInserted
    <2> QED BY <1>1, <1>5, <2>1, <2>2, <2>3, CacheKept, OthersInTime DEF PricingInv
  <1>7. ASSUME NEW i \in Invoice, InsertFails(i) PROVE PricingInv'
    <2>1. checkout[i].at = "quoted" /\ Answered(i, "500") /\ UNCHANGED <<now, cache, newest>>
          /\ tab' \in {tab, [tab EXCEPT ![i] = NewRow(i)]}
      BY <1>7 DEF InsertFails, NewRow
    <2>2. "500" \in Answers
      BY DEF Answers
    <2>3. InTime(checkout'[i]) /\ \A j \in Invoice : j # i => checkout'[j] = checkout[j]
      BY <1>5, <2>1, <2>2
    <2>4. RowAnswered' /\ EndsInTime'
      <3>1. CASE tab' = tab
        BY <2>1, <2>3, <3>1, RowsKept
      <3>2. CASE tab' = [tab EXCEPT ![i] = NewRow(i)]
        BY <2>1, <2>2, <3>2, RowsInserted
      <3> QED BY <2>1, <3>1, <3>2
    <2> QED BY <1>1, <2>1, <2>3, <2>4, CacheKept, OthersInTime DEF PricingInv
  <1>8. CASE Restart
    <2>1. /\ cache' = [c \in Currency |-> Uncached] /\ newest' = [c \in Currency |-> NULL]
          /\ UNCHANGED <<now, tab>>
      BY <1>8 DEF Restart
    <2>2. CacheDated' /\ NewestKept'
      BY <2>1 DEF Uncached, CacheDated, NewestKept
    <2>3. \A j \in Invoice : checkout'[j] = checkout[j] \/ checkout'[j].at = "lost"
      BY <1>8 DEF Restart, Idle
    <2>4. \A j \in Invoice : checkout[j].at = "answered" => checkout'[j] = checkout[j]
      BY <1>8 DEF Restart
    <2>5. \A j \in Invoice : InTime(checkout[j])'
      BY <2>1, <2>3 DEF PricingInv, InTime, MaxAge, Larger
    <2> QED BY <1>1, <2>1, <2>2, <2>4, <2>5, RowsKept DEF PricingInv
  <1>9. CASE Tick
    <2>1. /\ now' = now + 1 /\ UNCHANGED <<cache, tab, checkout, newest, faults>>
          /\ \A j \in Invoice : MayWait(checkout[j])
      BY <1>9 DEF Tick
    <2>2. now \in Nat /\ checkout \in [Invoice -> CheckoutRecord]
          /\ cache \in [Currency -> [rate : Times, fetched : Times, held : BOOLEAN]]
          /\ newest \in [Currency -> Times \cup {NULL}]
      BY <1>1, Knobs DEF WellFormed
    <2>3. CacheDated'
      <3> SUFFICES ASSUME NEW c \in Currency, cache[c].held
                   PROVE  cache[c].fetched <= cache[c].rate /\ cache[c].rate <= now + 1
        BY <2>1 DEF CacheDated
      <3>1. cache[c].rate \in Nat
        BY <2>2, Knobs
      <3> QED BY <2>2, <3>1 DEF PricingInv, CacheDated
    <2>4. NewestKept'
      <3> SUFFICES ASSUME NEW c \in Currency
                   PROVE  /\ cache[c].held <=> newest[c] # NULL
                          /\ cache[c].held => /\ newest[c] <= now + 1
                                              /\ newest[c] <= cache[c].fetched + FETCH_TIMEOUT
        BY <2>1 DEF NewestKept
      <3>1. newest[c] # NULL => newest[c] \in Nat
        BY <2>2, Knobs
      <3> QED BY <2>2, <3>1 DEF PricingInv, NewestKept
    <2>5. ASSUME NEW j \in Invoice PROVE InTime(checkout[j])'
      <3>1. InTime(checkout[j]) /\ MayWait(checkout[j])
        BY <2>1 DEF PricingInv
      <3>2. checkout[j].start \in Nat /\ checkout[j].quoted \in Nat
        BY <2>2, Knobs DEF CheckoutRecord
      <3> QED BY <2>1, <2>2, <3>1, <3>2, Knobs DEF InTime, MayWait, MaxAge, Larger
    <2> QED BY <1>1, <2>1, <2>3, <2>4, <2>5, RowsKept DEF PricingInv
  <1>10. CASE UNCHANGED vars
    <2>1. UNCHANGED <<now, cache, tab, checkout, newest>>
      BY <1>10 DEF vars
    <2>2. \A j \in Invoice : InTime(checkout[j])'
      BY <2>1 DEF PricingInv, InTime, MaxAge, Larger
    <2> QED BY <1>1, <2>1, <2>2, CacheKept, RowsKept DEF PricingInv
  <1> QED BY <1>2, <1>3, <1>4, <1>6, <1>7, <1>8, <1>9, <1>10 DEF Next

LEMMA PricingInit == Init => PricingInv
  <1> SUFFICES ASSUME Init PROVE PricingInv
    OBVIOUS
  <1>1. TypeInv
    BY TypeInit
  <1>2. CacheDated /\ NewestKept
    BY DEF Init, Uncached, CacheDated, NewestKept
  <1>3. \A i \in Invoice : InTime(checkout[i])
    BY DEF Init, Idle, InTime
  <1>4. \A i \in Invoice : tab[i].status = "absent"
    BY DEF Init, AbsentRow
  <1> QED BY <1>1, <1>2, <1>3, <1>4 DEF PricingInv, RowAnswered, EndsInTime, FiatRow

-----------------------------------------------------------------------------
(* What the operator may count on.                                         *)

\* The requests and the table stay well formed with as many checkouts in flight
\* as there are, and no cache entry is dated after the rate it holds, nor that
\* after the clock (rates.rs, invoices.rs).
THEOREM PricingTyped == Spec => []TypeOK
  <1>1. PricingInv => TypeOK
    BY DEF PricingInv, TypeInv, TypeOK
  <1> QED BY PricingInit, PricingStep, <1>1, PTL DEF Spec

\* No fiat invoice is unpriced; its end is written within a lock's length, a
\* database wait and the oldest age of a rate after that rate, and a read past
\* that does not show it open (rates.rs, price_if_fiat, expire_if_due_id).
THEOREM LockIsBounded == Spec => []QuoteEnds
  <1>1. ASSUME PricingInv, NEW i \in Invoice, FiatRow(i), ShownOpen(i)
        PROVE  now < LatestEnd(i)
    <2>1. tab \in [Invoice -> Row] /\ now \in Nat
      BY <1>1, Knobs DEF PricingInv, TypeInv, WellFormed
    <2>2. tab[i].expected # NULL /\ tab[i].expiry # NULL /\ tab[i].expiry <= LatestEnd(i)
      BY <1>1 DEF PricingInv, EndsInTime
    <2>3. tab[i].expected \in Nat /\ tab[i].expiry \in Nat /\ LatestEnd(i) \in Nat
      <3>1. tab[i] \in Row
        BY <2>1
      <3>2. tab[i].expected \in Nat /\ tab[i].expiry \in Nat
        BY <2>2, <3>1, TableAssumption DEF Row, TableAssumption
      <3> QED BY <3>2, Knobs DEF LatestEnd
    <2>4. ~PastExpiry(tab, i, now)
      <3> SUFFICES ASSUME PastExpiry(tab, i, now) PROVE FALSE
        OBVIOUS
      <3>1. [tab EXCEPT ![i].status = "expired"][i].status = "expired"
        BY <2>1 DEF Row
      <3> QED BY <1>1, <3>1 DEF ShownOpen, ExpireIfDue
    <2> QED BY <2>1, <2>2, <2>3, <2>4 DEF PastExpiry
  <1>2. PricingInv => QuoteEnds
    BY <1>1 DEF PricingInv, EndsInTime, QuoteEnds
  <1> QED BY PricingInit, PricingStep, <1>2, PTL DEF Spec

\* In a state of PricingInv, a young enough newest rate is a fresh one.
LEMMA NewestIsFresh ==
    ASSUME PricingInv, NEW c \in Currency, NEW start \in Times, NEW ttl \in Nat,
           ttl # 0, newest[c] # NULL, ~(start + FETCH_TIMEOUT > newest[c] + ttl)
    PROVE  cache[c].held /\ IsFresh(cache[c], start, ttl)
  <1>1. /\ cache[c].held
        /\ newest[c] <= cache[c].fetched + FETCH_TIMEOUT
    BY DEF PricingInv, NewestKept
  <1>2. cache[c].fetched \in Nat /\ newest[c] \in Nat /\ start \in Nat
    BY Knobs DEF PricingInv, TypeInv, WellFormed
  <1>3. start <= cache[c].fetched + ttl
    BY <1>1, <1>2, Knobs
  <1> QED BY <1>1, <1>3 DEF IsFresh

\* While the youngest rate it has cached is within CACHE_TTL, the process asks
\* the source again only where a slower answer has overwritten that rate with
\* one asked for earlier, by at most a timeout, and past CACHE_TTL (rate_for,
\* cache_put); whatever CACHE_TTL and the timeout are.
THEOREM CacheIsUsed == Spec => RateIsReused
  <1> DEFINE OK == \A i \in Invoice : StartsFetch(i) =>
                      LET c == checkout'[i].body.currency IN
                      \/ CACHE_TTL = 0
                      \/ newest[c] = NULL
                      \/ now > newest[c] + CACHE_TTL
                      \/ Overwritten(c)
  <1>1. PricingInv /\ [Next]_vars => [OK]_vars
    <2> SUFFICES ASSUME PricingInv, Next, NEW i \in Invoice, StartsFetch(i)
                 PROVE  LET c == checkout'[i].body.currency IN
                        \/ CACHE_TTL = 0
                        \/ newest[c] = NULL
                        \/ now > newest[c] + CACHE_TTL
                        \/ Overwritten(c)
      OBVIOUS
    <2>1. checkout \in [Invoice -> CheckoutRecord] /\ TypeInv /\ WellFormed /\ now \in Times
      BY DEF PricingInv, TypeInv, WellFormed
    <2>2. checkout[i].at = "new" /\ checkout'[i].at = "fetching"
      BY DEF StartsFetch
    <2>3. PICK b \in Body : Request(i, b)
      <3>1. ASSUME NEW j \in Invoice, NEW b \in Body, Request(j, b), j # i PROVE FALSE
        BY <2>1, <2>2, <3>1, RequestTyped
      <3>2. ASSUME NEW j \in Invoice, checkout[j].at # "new", Quoted(j, checkout[j].body, now)
                PROVE FALSE
        BY <2>1, <2>2, <3>2 DEF Quoted
      <3>3. ASSUME NEW j \in Invoice, NEW rate, checkout[j].at # "new",
                   Quoted(j, checkout[j].body, rate) PROVE FALSE
        BY <2>1, <2>2, <3>3 DEF Quoted
      <3>4. ASSUME NEW j \in Invoice, NEW code, checkout[j].at # "new", Answered(j, code)
            PROVE FALSE
        BY <2>1, <2>2, <3>4 DEF Answered
      <3>5. ASSUME UNCHANGED checkout PROVE FALSE
        BY <2>2, <3>5
      <3>6. ASSUME Restart PROVE FALSE
        BY <2>2, <3>6 DEF Restart, Idle
      <3> QED BY <3>1, <3>2, <3>3, <3>4, <3>5, <3>6
              DEF Next, SourceAnswers, FetchFails, Insert, InsertFails, Tick
    <2>4. b.pay # "grin" /\ ~Hit(b.currency, now) /\ checkout'[i].body = b
      <3>1. Refusal(b) = "none"
        BY <2>1, <2>2, <2>3 DEF Request, Done, Idle
      <3>2. ASSUME NEW rate, Quoted(i, b, rate) PROVE FALSE
        BY <2>1, <2>2, <3>2 DEF Quoted, Done, Idle
      <3> QED BY <2>1, <2>3, <3>1, <3>2 DEF Request, Idle
    <2>5. b.currency \in Currency
      BY BodyFields
    <2> DEFINE c == b.currency
    <2>6. SUFFICES ASSUME CACHE_TTL # 0, newest[c] # NULL, ~(now > newest[c] + CACHE_TTL)
                   PROVE  Overwritten(c)
      BY <2>4
    <2>7. cache[c].held /\ newest[c] <= cache[c].fetched + FETCH_TIMEOUT
      BY <2>5, <2>6 DEF PricingInv, NewestKept
    <2>8. ~(now <= cache[c].fetched + CACHE_TTL)
      BY <2>4, <2>6, <2>7 DEF Hit, IsFresh
    <2>9. /\ cache[c].fetched \in Nat /\ newest[c] \in Nat /\ now \in Nat
          /\ FETCH_TIMEOUT \in Nat /\ CACHE_TTL \in Nat
      BY <2>1, <2>5, <2>6, Knobs DEF WellFormed
    <2> QED BY <2>6, <2>7, <2>8, <2>9 DEF Overwritten
  <1> QED BY PricingInit, PricingStep, <1>1, PTL DEF Spec, RateIsReused

\* A checkout is refused for the source only when no rate young enough to fall
\* back on was left (rate_for, GP_RATE_STALE_MAX).
THEOREM FallbackIsUsed == Spec => FallbackHolds
  <1> DEFINE OK == \A i \in Invoice : Refused(i) =>
                      LET c == checkout[i].body.currency IN
                      \/ STALE_MAX = 0
                      \/ newest[c] = NULL
                      \/ checkout[i].start + FETCH_TIMEOUT > newest[c] + STALE_MAX
  <1>1. PricingInv /\ [Next]_vars => [OK]_vars
    <2> SUFFICES ASSUME PricingInv, Next, NEW i \in Invoice, Refused(i),
                        STALE_MAX # 0, newest[checkout[i].body.currency] # NULL
                 PROVE  checkout[i].start + FETCH_TIMEOUT
                          > newest[checkout[i].body.currency] + STALE_MAX
      OBVIOUS
    <2> DEFINE c == checkout[i].body.currency
    <2>1. checkout \in [Invoice -> CheckoutRecord] /\ TypeInv /\ WellFormed /\ now \in Times
      BY DEF PricingInv, TypeInv, WellFormed
    <2>2. checkout[i].at = "fetching" /\ checkout'[i].at = "answered"
          /\ checkout'[i].answer = "502"
      BY DEF Refused
    <2>3. /\ c \in Currency /\ checkout[i].start \in Times /\ checkout[i].body \in Body
          /\ checkout[i].body.mode # "unknown" /\ checkout[i].body.pay = "fiat"
      BY <2>1, <2>2, FetchingFacts
    <2>4. ASSUME NEW rate \in Times, rate # NULL, Quoted(i, checkout[i].body, rate) PROVE FALSE
      BY <2>1, <2>2, <2>3, <2>4, QuotedTyped
    <2>5. ASSUME NEW j \in Invoice, j # i, NEW b, NEW rate, Quoted(j, b, rate) PROVE FALSE
      BY <2>1, <2>2, <2>5 DEF Quoted
    <2>6. ASSUME NEW j \in Invoice, j # i, NEW code, Answered(j, code) PROVE FALSE
      BY <2>1, <2>2, <2>6 DEF Answered
    <2>7. ASSUME NEW j \in Invoice, NEW b \in Body, Request(j, b) PROVE FALSE
      <3>1. j # i
        BY <2>2, <2>7 DEF Request
      <3> QED BY <2>1, <2>2, <2>7, <3>1, RequestTyped
    <2>8. ~SourceAnswers(i)
      BY <2>1, <2>4, NullIsNone DEF SourceAnswers
    <2>9. ~Insert(i) /\ ~InsertFails(i)
      BY <2>2 DEF Insert, InsertFails
    <2>10. ASSUME UNCHANGED checkout PROVE FALSE
      BY <2>2, <2>10
    <2>11. ~Restart
      BY <2>1, <2>2 DEF Restart, Idle
    <2>12. FetchFails(i)
      BY <2>5, <2>6, <2>7, <2>8, <2>9, <2>10, <2>11
         DEF Next, SourceAnswers, FetchFails, Insert, InsertFails, Tick
    <2>13. ~Fallback(c, checkout[i].start)
      <3>1. cache[c].rate \in Times /\ cache[c].rate # NULL
        BY <2>1, <2>3, NullIsNone DEF WellFormed
      <3> QED BY <2>4, <2>12, <3>1 DEF FetchFails
    <2>14. ~(cache[c].held /\ IsFresh(cache[c], checkout[i].start, STALE_MAX))
      BY <2>13 DEF Fallback
    <2> QED BY <2>3, <2>14, NewestIsFresh, Knobs
  <1> QED BY PricingInit, PricingStep, <1>1, PTL DEF Spec, FallbackHolds

=============================================================================
