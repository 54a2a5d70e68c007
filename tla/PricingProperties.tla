------------------------- MODULE PricingProperties --------------------------
(***************************************************************************)
(* What a store and its operator rely on between a fiat price and the      *)
(* invoice that asks for it in GRIN.                                       *)
(***************************************************************************)
EXTENDS Pricing

\* The cache, the table and the requests stay well formed.
Times == 0..MaxNow

CheckoutRecord ==
    [at : Steps, body : Body \cup {NULL}, start : Times, rate : Times \cup {NULL}, 
     quoted : Times, answer : Answers \cup {NULL}]

WellFormed ==
    /\ now \in Times
    /\ cache \in [Currency -> [rate : Times, fetched : Times, held : BOOLEAN]]
    /\ tab \in [Invoice -> Row]
    /\ checkout \in [Invoice -> CheckoutRecord]
    /\ newest \in [Currency -> Times \cup {NULL}]
    /\ faults \in 0..MaxFaults

\* A cached rate is as young as its entry says or younger, and none is of a
\* second to come (Put dates it by the request that fetched it).
CacheDated == \A c \in Currency :
    cache[c].held => cache[c].fetched <= cache[c].rate /\ cache[c].rate <= now

TypeOK == WellFormed /\ CacheDated

\* How old a rate may be when an amount is priced by it: a hit is served at
\* once, a stale entry only after its own fetch has failed.
Larger(m, n) == IF m < n THEN n ELSE m
MaxAge == Larger(CACHE_TTL, IF STALE_MAX = 0 THEN 0 ELSE STALE_MAX + FETCH_TIMEOUT)

\* A fiat invoice is never "silently created" unpriced (RateError, rates.rs),
\* and never without an end (price_if_fiat, invoices.rs).  The end that is
\* written is a lock's length after a row made at most one database wait after
\* a price that was at most MaxAge old, whatever requests, timeouts and
\* restarts came between; and whoever reads the invoice later than that is not
\* shown an open one.  Nothing is said of a payment: Matching takes an open row
\* past its end that nobody has read.
FiatRow(i) == tab[i].status # "absent" /\ checkout[i].body.pay = "fiat"
LatestEnd(i) == tab[i].expected + MaxAge + DB_WAIT + QUOTE_TTL

\* What GET /invoice and the pay page show of the row (get, get_by_token).
ShownOpen(i) == ExpireIfDue(tab, i, now)[i].status = "open"

QuoteEnds ==
    \A i \in Invoice : FiatRow(i) =>
        /\ tab[i].expected # NULL /\ tab[i].expiry # NULL
        /\ tab[i].expiry <= LatestEnd(i)
        /\ ShownOpen(i) => now < LatestEnd(i)

\* "a fetched rate is reused for the TTL so concurrent checkouts do not hammer
\* the source" (rates.rs): while the youngest rate this process has cached is
\* within CACHE_TTL, a request goes to the source in one case only: a slower
\* answer, asked for before it by at most one timeout, has overwritten it, and
\* that one is past CACHE_TTL.
StartsFetch(i) == checkout[i].at = "new" /\ checkout'[i].at = "fetching"

Overwritten(c) ==
    /\ cache[c].fetched < newest[c] /\ newest[c] <= cache[c].fetched + FETCH_TIMEOUT
    /\ now > cache[c].fetched + CACHE_TTL

RateIsReused ==
    [][\A i \in Invoice : StartsFetch(i) =>
         LET c == checkout'[i].body.currency IN
         \/ CACHE_TTL = 0
         \/ newest[c] = NULL
         \/ now > newest[c] + CACHE_TTL
         \/ Overwritten(c)]_vars

\* "if a live fetch fails but the last cached rate is within this bound, serve
\* it" (rates.rs): a checkout is refused for the source only if the youngest
\* rate this process has cached was beyond STALE_MAX less one timeout.
Refused(i) ==
    /\ checkout[i].at = "fetching"
    /\ checkout'[i].at = "answered" /\ checkout'[i].answer = "502"

FallbackHolds ==
    [][\A i \in Invoice : Refused(i) =>
         LET c == checkout[i].body.currency IN
         \/ STALE_MAX = 0
         \/ newest[c] = NULL
         \/ checkout[i].start + FETCH_TIMEOUT > newest[c] + STALE_MAX]_vars

\* A store that asks is answered, or its connection ends in a restart, even
\* when the price source never answers (FETCH_TIMEOUT, rates.rs).
CheckoutIsAnswered ==
    \A i \in Invoice :
        checkout[i].at \in {"fetching", "quoted"} ~> checkout[i].at \in {"answered", "lost"}

=============================================================================
