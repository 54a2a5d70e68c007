\* The webhook is missed and the poll comes after the confirmation.
SPECIFICATION Spec
CONSTANTS
    Invoice = {i1}
    NULL = NULL
    Event <- Events
    Batch = 1
    MaxAttempts = 1
    Base = 1
    Cap = 1
    MaxLag = 0
    Shop = {"medusa"}
    Jobs = {"expire"}
    FaultKinds = {"net"}
    MaxFaults = 0
INVARIANT PollIsFallback
CHECK_DEADLOCK FALSE
