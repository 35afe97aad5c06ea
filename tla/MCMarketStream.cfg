\* A restart, two events and lost answers around one market; or prices,
\* countdowns and a request on two connections.
SPECIFICATION MCSpec
CONSTANTS
    m1 = m1
    None = None
    Markets = {m1}
    Tokens = {m1}
    MaxEvents = 2
    MayFail = TRUE
    MaxSockets = 2
    MaxBooks = 1
    MaxTrades = 1
    MaxRestarts = 1
    stream = stream  api = api
    s1 = s1  a1 = a1  a2 = a2
    Processes = {stream, api}
    Readers = {s1, a1, a2}
    ReaderOf <- MCReaderOf
    Block = 1
    MaxAge = 1
    ActiveMarkets = 2
    Trips = 2
    MaxAway = 1
    LinkMayFail = TRUE
SYMMETRY Interchangeable
INVARIANTS
    TrackedFollowsRows
    FeedFollowsTracked
    StreamInv
    PriceInv
    FilledOnRecentPrice
\* What is published is bounded, and a market may never be discovered.
CHECK_DEADLOCK FALSE
