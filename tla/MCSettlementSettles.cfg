\* One worker, which is tried again after any failure, and one position.
SPECIFICATION FairSpec
CONSTANTS
    None = None
    m1 = m1
    p1 = p1  p2 = p2
    w1 = w1  w2 = w2
    Markets = {m1}
    Positions = {p1}
    Workers = {w1}
    MarketOf <- MCOneMarket
    SideOf <- MCSideOf
    MaxShares = 1
    Price = 1
    One = 3
    MaxScans = 2
    ActiveIfClosed = {TRUE, FALSE}
    MayFail = TRUE
PROPERTIES
    SettlesAtLast
    ImplementsEvents
