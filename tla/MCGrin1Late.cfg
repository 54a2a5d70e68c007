SPECIFICATION LiveSpec
CONSTANTS
    Invoice = {i1}
    Slate = {s1, plain}
    Issuable = {s1}
    Amount = {1}
    Ref = {}
    Master = Master
    NULL = NULL
    Offers <- Expiring
    DefaultMode = "amount"
    Worker = {w1, w2}
    FaultKinds = {}
    MaxFaults = 0
    MaxTime = 1
PROPERTY LateI2Fails
CHECK_DEADLOCK FALSE
