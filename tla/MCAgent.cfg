\* Analyses with two turns of the model, each tried twice, and faults anywhere;
\* fetches of three pages of one entry, each tried twice; and backtests of two
\* markets of two to four ticks, with every answer of the agent at every cycle.
SPECIFICATION MCSpec
CONSTANTS
    None = None
    NoCursor = NoCursor
    NoAsset = NoAsset
    r1 = r1  r2 = r2
    e1 = e1  e2 = e2  e3 = e3  e4 = e4  e5 = e5
    Requests = {r1}
    MaxAttempts = 2
    MaxTools = 2
    MaxTurns = 2
    MayFail = TRUE
    MayCrash = TRUE
    Entries = {e1, e2, e3, e4, e5}
    RawOf <- MCRawOf
    FirstListings <- MCFirstListings
    MaxListed = 3
    PageSize = 1
    MaxPages = 3
    ListAttempts = 2
    EnabledAssets = {"BTC", "ETH"}
    One = 20
    Kilo = 1000
    MaxTrade = 10
    MaxPosition = 12
    MaxDailyLoss = 9
    MinEdge = 1
    MinConfidence = 12
    MinLiquidity = 1
    MaxSlippage = 5
    MinTime = 1
    MaxOpenPositions = 3
    EnableLive = FALSE
    RecentWindow = 1
    RecentLimit = 1
    ReturnWindows <- MCWindows
    MomentumWindow = 1
    VolumeWindow = 1
    ProbabilityWindows <- MCWindows
    MarketLife = 6
    RefreshInterval = 2
    Input <- MCInput
    Market <- MCMarket
    RowsOf <- MCRowsOf
    Answers <- MCAnswers
    Quants = {3, 12}
    InitialBalance = 20
    Latency = 2
    FeeRatio = 5
    Day = 3
INVARIANTS
    TradesAreAnswers
    SignalInv
    DiscoveryInv
    NoLookAhead
    PortfolioAddsUp
    ResultIsTrue
PROPERTY RetriesEnd
\* Every request may be answered, and a backtest ends.
CHECK_DEADLOCK FALSE
