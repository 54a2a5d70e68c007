SPECIFICATION LiveSpec
CONSTANTS
    Invoice = {i1}
    NULL = NULL
    Event <- Events
    Batch = 1
    MaxAttempts = 2
    Base = 1
    Cap = 1
    MaxLag = 0
    Shop = {"woocommerce", "medusa"}
    Jobs = {"expire"}
    FaultKinds = {"checkout", "net", "php", "db", "crash"}
    MaxFaults = 1
INVARIANTS TypeOK PostsBounded CompletedOnlyIfConfirmed AckedIsApplied
PROPERTY EnqueuedSettles
CHECK_DEADLOCK FALSE
