\* Two paper requests and a live one of one user run concurrently.
SPECIFICATION Spec
CONSTANTS
    Unread = Unread
    r1 = r1  r2 = r2  r3 = r3
    k1 = k1  k2 = k2  k3 = k3
    One = 20
    Kilo = 1000
    MaxTrade = 10
    MaxPosition = 5
    MaxDailyLoss = 9
    MinEdge = 1
    MinConfidence = 12
    MinLiquidity = 20
    MaxSlippage = 2
    MinTime = 30
    MaxOpenPositions = 2
    EnableLive = TRUE
    Requests = {r1, r2, r3}
    Keys = {k1, k2, k3}
    KeyOf <- MCKeyOf
    SizeOf <- MCSizeOf
    ModeOf <- LiveModeOf
    PriceOf <- MCPriceOf
    Readings <- MCReadings
    Waits = {0, 4000}
    HeldBefore <- MCHeldBefore
    Balance = 3
INVARIANTS
    ApprovedWithinLimits
    ApprovedIsAllowed
    ExposureWithinLimits
\* Every request may be decided and every position settled.
CHECK_DEADLOCK FALSE
