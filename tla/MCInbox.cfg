SPECIFICATION FairSpec
CONSTANTS
    u1 = u1
    i1 = i1
    wOne = wOne
    wTwo = wTwo
    payer = payer
    rOne = rOne
    sOne = sOne
    User = {u1}
    Charge = {i1}
    Request = {admin}
    Master = Master
    NULL = NULL
    Overlap = 1
    AutoRotate = TRUE
    FaultKinds = {"db", "relay", "receive", "crash"}
    MaxFaults = 1
    MaxEpoch = 1
    Wrap = {wOne, wTwo}
    Sender = {payer}
    Rumor = {rOne}
    Slate = {sOne}
    Content <- Resent
    Unsound = {}
    SenderCap = 1
    GlobalCap = 1
INVARIANTS
    TypeOK
    MarkedIsSettled
    ShownIsWatched
PROPERTIES
    JustRotatedLands
    CoveredIsRead
    SubscriptionFollows
