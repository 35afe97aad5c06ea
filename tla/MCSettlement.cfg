\* Two workers, the scanner and late fills, with failures anywhere.
SPECIFICATION Spec
CONSTANTS
    None = None
    m1 = m1
    p1 = p1  p2 = p2
    w1 = w1  w2 = w2
    Markets = {m1}
    Positions = {p1}
    Workers = {w1, w2}
    MarketOf <- MCOneMarket
    SideOf <- MCSideOf
    MaxShares = 2
    Price = 1
    One = 3
    MaxScans = 2
    ActiveIfClosed = {TRUE}
    MayFail = TRUE
SYMMETRY WorkerSymmetry
INVARIANTS
    SettlementInv
    NothingPaidTwice
    SettledExactly
