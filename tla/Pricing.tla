------------------------------- MODULE Pricing ------------------------------
(***************************************************************************)
(* POST /invoice from the request to the row: the checks of the handler    *)
(* (gp-server::invoices), the price of a fiat amount (gp-core::rates) and  *)
(* the INSERT of gp-core::invoice.  Any number of checkouts run at once on *)
(* one rate cache; between a request and its row lie two waits, the price  *)
(* source's answer and the database's connection.                          *)
(*                                                                         *)
(* The source prices GRIN by the second, so a rate is named by the second  *)
(* its answer came in, and an amount priced by it by the same number: two  *)
(* amounts are equal exactly when one rate priced both.                    *)
(***************************************************************************)
EXTENDS InvoiceTable

CONSTANTS
    Currency,       \* currencies a store may name
    Enabled,        \* GP_RATE_CURRENCIES
    Body,           \* the requests a store may send
    IngestOn,       \* the server identity is loaded
    DefaultMode,    \* GP_MATCH_MODE
    CACHE_TTL,      \* GP_RATE_CACHE_TTL
    STALE_MAX,      \* GP_RATE_STALE_MAX, 0 is off
    QUOTE_TTL,      \* GP_QUOTE_TTL
    FETCH_TIMEOUT,  \* the oracle client's timeout on one GET
    DB_WAIT,        \* the longest wait for the one database connection
    MaxNow,         \* bound: the clock stops here, requests a timeout before
    MaxFaults       \* bound: database errors and restarts

VARIABLES
    now,      \* the clock, in seconds
    cache,    \* Oracle.cache: the rate of each currency, or Uncached
    tab,      \* the invoice table
    checkout, \* the request that would create each invoice, and its answer
    newest,   \* history: the latest start of a fetch whose answer was cached
    faults

vars == <<now, cache, tab, checkout, newest, faults>>

\* CreateInvoiceBody: `pay` says which of amount_grin, amount_fiat + currency,
\* or neither is there, `fiat` how the decimal string reads, `mode` may be a
\* word that names no mode, `ttl` is expiry_secs with 0 for "not positive".
Requests == [authorized : BOOLEAN,
             pay        : {"grin", "fiat", "neither"},
             grin       : Amount,
             fiat       : {"decimal", "malformed", "overflows"},
             currency   : Currency,
             mode       : Mode \cup {NULL, "unknown"},
             ttl        : Nat \cup {NULL}]

\* The status codes of POST /invoice.
Answers == {"200", "400", "401", "500", "502", "503"}

\* Config::validate, of the settings that matter here.
Valid == /\ Enabled # {}
         /\ CACHE_TTL \in Nat /\ STALE_MAX \in Nat
         /\ QUOTE_TTL \in Nat \ {0}

ASSUME PricingAssumption ==
    /\ NULL \notin Body /\ NULL \notin Answers \cup {"unknown"}
    /\ Body \subseteq Requests
    /\ Enabled \subseteq Currency
    /\ 0..MaxNow \subseteq Amount
    /\ IngestOn \in BOOLEAN
    /\ DefaultMode \in Mode
    /\ Valid
    /\ FETCH_TIMEOUT \in Nat /\ DB_WAIT \in Nat
    /\ MaxNow \in Nat /\ MaxFaults \in Nat

-----------------------------------------------------------------------------
(* The rate cache.                                                         *)

Uncached == [rate |-> 0, fetched |-> 0, held |-> FALSE]
CachedRate == [rate : Nat, fetched : Nat, held : BOOLEAN]

\* is_fresh, on the age at the moment the request asked; an entry younger than
\* the request has age zero (saturating_duration_since).
IsFresh(entry, start, ttl) == ttl # 0 /\ start <= entry.fetched + ttl

Hit(c, start) == cache[c].held /\ IsFresh(cache[c], start, CACHE_TTL)

\* Mutant: a stale entry is served whatever its age.
FallbackWhateverAge(c, start) == cache[c].held
\* Mutant: the fallback uses the bound of a fresh hit.
FallbackAsFresh(c, start) == cache[c].held /\ IsFresh(cache[c], start, CACHE_TTL)

\* The stale entry a failed fetch falls back on.
Fallback(c, start) == cache[c].held /\ IsFresh(cache[c], start, STALE_MAX)

\* Mutant: the entry is dated one timeout ahead of the request.
PutAhead(c, start) == [cache EXCEPT ![c] =
    [rate |-> now, fetched |-> now + FETCH_TIMEOUT + 1, held |-> TRUE]]

\* cache_put: the answer that comes last stays, with its own request's start.
Put(c, start) ==
    [cache EXCEPT ![c] = [rate |-> now, fetched |-> start, held |-> TRUE]]

-----------------------------------------------------------------------------
(* One request.  `at` is where its handler stands:                         *)
(*   "new" -> "fetching" -> "quoted" -> "answered", or "lost" in a restart  *)

Idle == [at |-> "new", body |-> NULL, start |-> 0, rate |-> NULL,
         quoted |-> 0, answer |-> NULL]

Steps == {"new", "fetching", "quoted", "answered", "lost"}

Init ==
    /\ now = 0
    /\ cache = [c \in Currency |-> Uncached]
    /\ tab = [i \in Invoice |-> AbsentRow]
    /\ checkout = [i \in Invoice |-> Idle]
    /\ newest = [c \in Currency |-> NULL]
    /\ faults = 0

\* What the handler answers before it asks anyone, or "none": the order of the
\* checks of create_invoice and then of Oracle::quote.
Refusal(b) ==
    IF ~b.authorized THEN "401"
    ELSE IF ~IngestOn THEN "503"
    ELSE IF b.pay = "neither" \/ b.mode = "unknown" THEN "400"
    ELSE IF b.pay = "fiat" /\ (b.currency \notin Enabled \/ b.fiat = "malformed")
         THEN "400" ELSE "none"

Done(b, code) == [Idle EXCEPT !.at = "answered", !.body = b, !.answer = code]

Answered(i, code) == checkout' = [checkout EXCEPT ![i] = Done(@.body, code)]

\* rate_error_response and fiat_to_nanogrin: an amount no rate can hold is the
\* caller's error, found only once there is a rate.
Quoted(i, b, rate) ==
    checkout' = [checkout EXCEPT ![i] =
        IF b.pay = "fiat" /\ b.fiat = "overflows" THEN Done(b, "400")
        ELSE [Idle EXCEPT !.at = "quoted", !.body = b, !.rate = rate, !.quoted = now]]

\* create_invoice up to its first wait.
Request(i, b) ==
    /\ checkout[i].at = "new"
    /\ now + FETCH_TIMEOUT <= MaxNow
    /\ IF Refusal(b) # "none"
       THEN checkout' = [checkout EXCEPT ![i] = Done(b, Refusal(b))]
       ELSE IF b.pay = "grin" THEN Quoted(i, b, NULL)
       ELSE IF Hit(b.currency, now) THEN Quoted(i, b, cache[b.currency].rate)
       ELSE checkout' = [checkout EXCEPT ![i] =
                [Idle EXCEPT !.at = "fetching", !.body = b, !.start = now]]
    /\ UNCHANGED <<now, cache, tab, newest, faults>>

\* The source answers with a price: cached under the request's own start.
SourceAnswers(i) ==
    LET r == checkout[i]  c == r.body.currency IN
    /\ r.at = "fetching"
    /\ cache' = Put(c, r.start)
    /\ newest' = [newest EXCEPT ![c] = IF @ = NULL \/ @ < r.start THEN r.start ELSE @]
    /\ Quoted(i, r.body, now)
    /\ UNCHANGED <<now, tab, faults>>

\* fetch fails: no client, no connection, an HTTP error, a body that names no
\* positive price, or the timeout.  The cache is read again.
FetchFails(i) ==
    LET r == checkout[i]  c == r.body.currency IN
    /\ r.at = "fetching"
    /\ IF Fallback(c, r.start) THEN Quoted(i, r.body, cache[c].rate)
       ELSE Answered(i, "502")
    /\ UNCHANGED <<now, cache, tab, newest, faults>>

\* price_if_fiat: a shorter positive expiry is kept, all others become the lock.
Expiry(b) ==
    IF b.pay = "grin" \/ (b.ttl # NULL /\ b.ttl > 0 /\ b.ttl < QUOTE_TTL)
    THEN b.ttl ELSE QUOTE_TTL

Params(r) == [mode     |-> r.body.mode,
              expected |-> IF r.body.pay = "grin" THEN r.body.grin ELSE r.rate,
              ref      |-> NULL,
              ttl      |-> Expiry(r.body)]

\* invoice::create: INSERT, then read back through get, which expires a row
\* that is due at once.
Insert(i) ==
    LET new == [tab EXCEPT ![i] = Created(Params(checkout[i]), DefaultMode, now)] IN
    /\ checkout[i].at = "quoted"
    /\ tab' = ExpireIfDue(new, i, now)
    /\ Answered(i, "200")
    /\ UNCHANGED <<now, cache, newest, faults>>

\* The INSERT fails or times out on the connection, or the read-back does and
\* the row stays behind an answer that denies it.
InsertFails(i) ==
    /\ checkout[i].at = "quoted"
    /\ faults < MaxFaults
    /\ faults' = faults + 1
    /\ tab' \in {tab, [tab EXCEPT ![i] = Created(Params(checkout[i]), DefaultMode, now)]}
    /\ Answered(i, "500")
    /\ UNCHANGED <<now, cache, newest>>

-----------------------------------------------------------------------------
(* The service and the clock.                                              *)

\* Requests in flight are lost; the cache was memory.
Restart ==
    /\ faults < MaxFaults
    /\ faults' = faults + 1
    /\ cache' = [c \in Currency |-> Uncached]
    /\ newest' = [c \in Currency |-> NULL]
    /\ checkout' = [i \in Invoice |->
           IF checkout[i].at \in {"fetching", "quoted"}
           THEN [Idle EXCEPT !.at = "lost", !.body = checkout[i].body] ELSE checkout[i]]
    /\ UNCHANGED <<now, tab>>

\* The client gives a GET up after FETCH_TIMEOUT, the pool an acquire after
\* DB_WAIT: no request waits past its deadline.
MayWait(r) ==
    /\ r.at = "fetching" => now < r.start + FETCH_TIMEOUT
    /\ r.at = "quoted" => now < r.quoted + DB_WAIT

Tick ==
    /\ now < MaxNow
    /\ \A i \in Invoice : MayWait(checkout[i])
    /\ now' = now + 1
    /\ UNCHANGED <<cache, tab, checkout, newest, faults>>

Next ==
    \/ \E i \in Invoice, b \in Body : Request(i, b)
    \/ \E i \in Invoice : SourceAnswers(i)
    \/ \E i \in Invoice : FetchFails(i)
    \/ \E i \in Invoice : Insert(i)
    \/ \E i \in Invoice : InsertFails(i)
    \/ Restart
    \/ Tick

Spec == Init /\ [][Next]_vars

(***************************************************************************)
(* Time passes, a GET whose time is up fails, and a handler's own step is  *)
(* taken; nothing is assumed of the price source.                          *)
(***************************************************************************)
\* Mutant: the client has no timeout.
NeverTimesOut(i) == FALSE /\ FetchFails(i)

\* The client's timeout on a GET (FETCH_TIMEOUT, from_config).
TimedOut(i) == now >= checkout[i].start + FETCH_TIMEOUT /\ FetchFails(i)

FairSpec ==
    /\ Spec
    /\ WF_vars(Tick)
    /\ WF_vars(\E i \in Invoice : TimedOut(i) \/ Insert(i))

=============================================================================
