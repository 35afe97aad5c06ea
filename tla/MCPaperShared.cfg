\* A retried order and another order of the same position, with faults.
SPECIFICATION Spec
CONSTANTS
    None = None
    c1 = c1  c2 = c2  c3 = c3
    i1 = i1  i2 = i2
    k1 = k1  k2 = k2
    Calls = {c1, c2, c3}
    Ids = {i1, i2}
    Keys = {k1}
    IdOf <- MCRetryId
    KeyOf <- MCOneKey
    MaxUsd = 1
    AdapterSteps = {"submit", "validated", "latency", "match", "filled", "partial", "resting"}
    LeaseCovers = FALSE
    MayThrow = TRUE
    MayCrash = FALSE
    CancellableIds = {}
INVARIANT PositionInv
\* Every call may be over and no order left to cancel.
CHECK_DEADLOCK FALSE
