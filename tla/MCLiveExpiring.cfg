\* The same in one process, with locks that expire under a running submission.
SPECIFICATION FairSpec
CONSTANTS
    None = None
    c1 = c1  c2 = c2  c3 = c3
    i1 = i1  i2 = i2
    k1 = k1
    p1 = p1  p2 = p2
    Calls = {c1, c2}
    Ids = {i1}
    Keys = {k1}
    IdOf <- MCIdOf
    KeyOf <- MCKeyOf
    ProcOf <- MCOneProc
    MaxUsd = 1
    AdapterSteps = {"submit", "post", "awaiting", "lookup"}
    LeaseCovers = FALSE
    MayThrow = TRUE
    MayCrash = TRUE
    CancellableIds = {i1}
    CanLookup = TRUE
    MayTimeout = TRUE
PROPERTY AcceptedIsRecorded
\* Every request may be answered and no order left to cancel.
CHECK_DEADLOCK FALSE
