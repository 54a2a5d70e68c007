SPECIFICATION Spec
CONSTANTS
    i1 = i1
    i2 = i2
    sA = sA
    sB = sB
    ref = ref
    Invoice = {i1, i2}
    Slate = {sA, sB}
    Amount = {1, 2}
    Ref = {}
    Master = Master
    NULL = NULL
    AmountOf <- OneShort
    Offers <- MixedOffers
    NostrLoop = nostr
    HttpWorkers = {http}
    DefaultMode = "amount"
    Required = 1
    FaultKinds = {"relay"}
    MaxFaults = 1
    MaxTime = 1
    MaxBlocksPerPass = 1
SYMMETRY InvoiceSymmetry
INVARIANTS
    RejectedNeverReplied
    ReceivedIsRecorded
    NotifiedBeforeReply
    PaidHasRow
