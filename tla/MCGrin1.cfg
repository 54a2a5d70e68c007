SPECIFICATION LiveSpec
CONSTANTS
    Invoice = {i1}
    Slate = {s1, plain}
    Issuable = {s1}
    Amount = {1}
    Ref = {}
    Master = Master
    NULL = NULL
    Offers <- Mixed
    DefaultMode = "amount"
    Worker = {w1, w2}
    FaultKinds = {"node", "db", "crash"}
    MaxFaults = 2
    MaxTime = 1
INVARIANTS TypeOK PostedOnce PaidByPosted
PROPERTIES SweptIsCancelled ImplementsLifecycle PostedIsRecorded OverdueCloses
CHECK_DEADLOCK FALSE
