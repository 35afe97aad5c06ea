\* An order retried, with faults and a cancel.
SPECIFICATION FairSpec
CONSTANTS
    None = None
    c1 = c1  c2 = c2  c3 = c3
    i1 = i1  i2 = i2
    k1 = k1  k2 = k2
    Calls = {c1, c2}
    Ids = {i1}
    Keys = {k1}
    IdOf <- MCRetryId
    KeyOf <- MCOneKey
    MaxUsd = 2
    AdapterSteps = {"submit", "validated", "latency", "match", "filled", "partial", "resting"}
    LeaseCovers = TRUE
    MayThrow = TRUE
    MayCrash = TRUE
    CancellableIds = {i1}
INVARIANTS
    AtMostOneSubmission
    ExecutedWithinApproval
PROPERTIES
    LifecycleForward
    ImplementsLedger
    OrderSettles
    FillReachesPosition
\* Every call may be over and no order left to cancel.
CHECK_DEADLOCK FALSE
