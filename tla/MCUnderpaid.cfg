SPECIFICATION Spec
CONSTANTS
    i1 = i1
    i2 = i2
    sA = sA
    sB = sB
    ref = ref
    Invoice = {i1}
    Slate = {sA, sB}
    Amount = {1, 2}
    Ref = {ref}
    Master = Master
    NULL = NULL
    AmountOf <- Exact
    Offers <- RacedOffers
    NostrLoop = nostr
    HttpWorkers = {}
    DefaultMode = "derived"
    Required = 1
    FaultKinds = {"crash"}
    MaxFaults = 1
    MaxTime = 0
    MaxBlocksPerPass = 1
INVARIANT RejectedNeverReplied
