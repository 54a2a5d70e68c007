SPECIFICATION FairSpec
CONSTANTS
    i1 = i1
    i2 = i2
    i3 = i3
    usd = usd
    chf = chf
    Invoice = {i1, i2, i3}
    Slate = {}
    Amount <- Amounts
    Ref = {}
    Master = Master
    NULL = NULL
    Currency = {usd, chf}
    Enabled = {usd}
    Body <- Bodies
    IngestOn = TRUE
    DefaultMode = "amount"
    CACHE_TTL = 2
    STALE_MAX = 3
    QUOTE_TTL = 2
    FETCH_TIMEOUT = 1
    DB_WAIT = 0
    MaxNow = 5
    MaxFaults = 1
INVARIANTS
    TypeOK
    QuoteEnds
PROPERTIES
    FallbackHolds
    CheckoutIsAnswered
CHECK_DEADLOCK FALSE
