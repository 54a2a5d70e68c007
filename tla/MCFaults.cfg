SPECIFICATION Spec
CONSTANTS
    i1 = i1
    i2 = i2
    sA = sA
    sB = sB
    ref = ref
    Invoice = {i1}
    Slate = {sA, sB}
    Amount = {1, 2}
    Ref = {ref}
    Master = Master
    NULL = NULL
    AmountOf <- Exact
    Offers <- RacedOffers
    NostrLoop = nostr
    HttpWorkers = {http}
    DefaultMode = "derived"
    Required = 2
    FaultKinds = {"crash","db","wallet","relay","node","reorg"}
    MaxFaults = 1
    MaxTime = 0
    MaxBlocksPerPass = 1
SYMMETRY SlateSymmetry
INVARIANTS
    TypeOK
    PaidExactly
    ConfirmedHasDepth
    SingleWriter
PROPERTIES
    ImplementsLifecycle
