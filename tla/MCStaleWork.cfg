SPECIFICATION LiveSpec
CONSTANTS
    i1 = i1
    i2 = i2
    sA = sA
    sB = sB
    ref = ref
    Invoice = {i1}
    Slate = {sA, sB}
    Amount = {1, 2}
    Ref = {ref}
    Master = Master
    NULL = NULL
    AmountOf <- Exact
    Offers <- DerivedOffers
    NostrLoop = nostr
    HttpWorkers = {http}
    DefaultMode = "derived"
    Required = 1
    FaultKinds = {}
    MaxFaults = 0
    MaxTime = 0
    MaxBlocksPerPass = 1
PROPERTY PaidEventuallyConfirmed
