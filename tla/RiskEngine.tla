------------------------------ MODULE RiskEngine -------------------------------
(***************************************************************************)
(* RiskEngine.evaluate and calculateOrderSize of packages/risk, and the    *)
(* slippage simulation of packages/types: the function that every order    *)
(* has to pass.                                                            *)
(*                                                                         *)
(* Numbers are fixed-point: a ratio, a probability or a price is an integer*)
(* of which One stands for 1.0, an amount is a whole number of a small unit*)
(* of USD.  The source computes with doubles; here a product is rounded    *)
(* down.  A level offers an amount in USD at a price.                      *)
(***************************************************************************)
EXTENDS Integers, FiniteSetsExt

CONSTANTS
    One,                \* 1.0, a multiple of 10
    Kilo,               \* 1000 USD
    MaxTrade,           \* RiskConfig.maxTradeUsd
    MaxPosition,        \* .maxPositionUsd
    MaxDailyLoss,       \* .maxDailyLossUsd
    MinEdge,            \* .minimumEdge
    MinConfidence,      \* .minimumConfidence
    MinLiquidity,       \* .minimumLiquidityUsd
    MaxSlippage,        \* .maximumSlippage
    MinTime,            \* .minimumTimeRemainingSeconds
    MaxOpenPositions,   \* .maxOpenPositions
    EnableLive          \* .enableLiveTrading

(* RiskConfigSchema, which the constructor parses.                          *)
ASSUME RiskConfigAssumption ==
    /\ One \in Nat \ {0} /\ One % 10 = 0 /\ Kilo \in Nat \ {0}
    /\ {MaxTrade, MaxPosition, MaxDailyLoss, MaxOpenPositions} \subseteq Nat \ {0}
    /\ {MinEdge, MinConfidence, MaxSlippage} \subseteq 0..One
    /\ {MinLiquidity, MinTime} \subseteq Nat
    /\ EnableLive \in BOOLEAN

Levels == [price : 1..One, usd : Nat]
Books  == SUBSET Levels

Signals    == [valid : BOOLEAN, action : {"BUY_YES", "BUY_NO", "PASS"},
               confidence : 0..One, edge : (-One)..One, maxEntryPrice : 0..One]
Markets    == [active : BOOLEAN, closed : BOOLEAN, timeRemaining : Int, dataAge : Nat,
               feedAge : Nat, exchangeHealthy : BOOLEAN, liquidity : Nat, bestAsk : 0..One]
Portfolios == [count : Nat, usd : Nat, pnlToday : Int]
Accounts   == [funded : BOOLEAN, verified : BOOLEAN, optedIn : BOOLEAN]
Healths    == [riskEngine : BOOLEAN, signer : BOOLEAN, database : BOOLEAN, redis : BOOLEAN,
               clock : BOOLEAN, killSwitch : BOOLEAN, strategy : BOOLEAN]

(* RiskEvaluationInput.  A bestAsk of 0 stands for null.                    *)
Inputs == [signal : Signals, market : Markets, portfolio : Portfolios, account : Accounts,
           health : Healths, mode : {"PAPER", "LIVE"}, asks : Books]

(* The best levels of summarizeOrderBookSide.  0 stands for null.           *)
Prices(levels) == {l.price : l \in levels}
BestBid(bids)  == IF bids = {} THEN 0 ELSE Max(Prices(bids))
BestAsk(asks)  == IF asks = {} THEN 0 ELSE Min(Prices(asks))

-----------------------------------------------------------------------------
(* Order sizing.                                                            *)
Least(a, b)    == IF a <= b THEN a ELSE b
AtLeastZero(x) == IF x >= 0 THEN x ELSE 0
Magnitude(x)   == IF x >= 0 THEN x ELSE -x

(* scaleAdjustment(num / den): from one half, at 0, to 1.0, at den.         *)
Scale(num, den) ==
    One \div 2 + ((One \div 2) * Least(AtLeastZero(num), den)) \div den

ConfidenceAdjustment(confidence) ==
    IF MinConfidence >= One THEN One
    ELSE Scale(confidence - MinConfidence, One - MinConfidence)

EdgeSaturation == (3 * One) \div 10

EdgeAdjustment(edge) ==
    IF MinEdge >= EdgeSaturation THEN One
    ELSE Scale(Magnitude(edge) - MinEdge, EdgeSaturation - MinEdge)

LiquidityAdjustment(liquidity) ==
    IF MinLiquidity = 0 THEN Scale(liquidity, Kilo)
    ELSE Scale(liquidity - MinLiquidity, 4 * MinLiquidity)

Times(x, ratio) == (x * ratio) \div One

RawSize(in) ==
    Times(Times(Times((4 * MaxTrade) \div 10, ConfidenceAdjustment(in.signal.confidence)),
                EdgeAdjustment(in.signal.edge)),
          LiquidityAdjustment(in.market.liquidity))

PositionHeadroom(in)  == AtLeastZero(MaxPosition - in.portfolio.usd)
LossToday(in)         == AtLeastZero(-in.portfolio.pnlToday)
DailyLossHeadroom(in) == AtLeastZero(MaxDailyLoss - LossToday(in))

OrderSize(in) ==
    AtLeastZero(Least(Least(RawSize(in), MaxTrade),
                      Least(PositionHeadroom(in), DailyLossHeadroom(in))))

-----------------------------------------------------------------------------
(* simulateMarketBuySlippage: the levels are taken in order of price, so the*)
(* worst price is the least one up to which the book holds the whole size.  *)
Depth(asks, price) == MapThenSumSet(LAMBDA l : l.usd, {l \in asks : l.price <= price})

Covering(asks, usd) == {l.price : l \in {m \in asks : Depth(asks, m.price) >= usd}}

WorstPrice(asks, usd) ==
    CHOOSE p \in Covering(asks, usd) : \A q \in Covering(asks, usd) : p <= q

NeverSlips(in) == in.mode \notin {"PAPER", "LIVE"}     \* wrong: the tail of the book is ignored

(* (worstPrice - bestAsk) / bestAsk > maximumSlippage                       *)
Slips(in) ==
    /\ Covering(in.asks, OrderSize(in)) # {}
    /\ (WorstPrice(in.asks, OrderSize(in)) - in.market.bestAsk) * One
          > MaxSlippage * in.market.bestAsk

-----------------------------------------------------------------------------
(* evaluate: the checks in their order, each with what makes it fail.       *)
MARKET_DATA_STALE_THRESHOLD_MS     == 5000
UNDERLYING_FEED_STALE_THRESHOLD_MS == 2000

(* RiskRejectionCodeSchema.                                                 *)
RejectionCodes ==
    {"MARKET_NOT_ACTIVE", "MARKET_EXPIRED", "MARKET_DATA_STALE", "UNDERLYING_FEED_STALE",
     "EXCHANGE_UNAVAILABLE", "ACCOUNT_NOT_FUNDED", "POSITION_LIMIT_EXCEEDED",
     "DAILY_LOSS_LIMIT_REACHED", "TRADE_SIZE_EXCEEDS_LIMIT", "INSUFFICIENT_EDGE",
     "INSUFFICIENT_CONFIDENCE", "INSUFFICIENT_LIQUIDITY", "EXCESSIVE_SLIPPAGE",
     "INSUFFICIENT_TIME_REMAINING", "STRATEGY_DISABLED", "KILL_SWITCH_ENGAGED",
     "SIGNAL_IS_PASS", "INVALID_SIGNAL", "LIVE_TRADING_DISABLED"}

Check(fails, code) == [fails |-> fails, code |-> code]

TradeSizeExceedsLimit(size)              == size > MaxTrade
PositionUsdExceedsLimit(size, portfolio) == portfolio.usd + size > MaxPosition

Checks(in) ==
    LET market == in.market  health == in.health  account == in.account
        portfolio == in.portfolio  live == in.mode = "LIVE"  size == OrderSize(in)
    IN <<
    Check(~in.signal.valid, "INVALID_SIGNAL"),
    Check(in.signal.action = "PASS", "SIGNAL_IS_PASS"),
    Check(~market.active \/ market.closed, "MARKET_NOT_ACTIVE"),
    Check(market.timeRemaining <= 0, "MARKET_EXPIRED"),
    Check(market.dataAge > MARKET_DATA_STALE_THRESHOLD_MS, "MARKET_DATA_STALE"),
    Check(market.feedAge > UNDERLYING_FEED_STALE_THRESHOLD_MS, "UNDERLYING_FEED_STALE"),
    Check(~market.exchangeHealthy, "EXCHANGE_UNAVAILABLE"),
    Check(~(health.riskEngine /\ health.database /\ health.redis /\ health.clock),
          "EXCHANGE_UNAVAILABLE"),
    Check(health.killSwitch, "KILL_SWITCH_ENGAGED"),
    Check(~health.strategy, "STRATEGY_DISABLED"),
    Check(live /\ ~EnableLive, "LIVE_TRADING_DISABLED"),
    Check(live /\ ~account.funded, "ACCOUNT_NOT_FUNDED"),
    Check(live /\ ~account.verified, "ACCOUNT_NOT_FUNDED"),
    Check(live /\ ~account.optedIn, "LIVE_TRADING_DISABLED"),
    Check(market.timeRemaining < MinTime, "INSUFFICIENT_TIME_REMAINING"),
    Check(in.signal.confidence < MinConfidence, "INSUFFICIENT_CONFIDENCE"),
    Check(Magnitude(in.signal.edge) < MinEdge, "INSUFFICIENT_EDGE"),
    Check(market.liquidity < MinLiquidity, "INSUFFICIENT_LIQUIDITY"),
    Check(portfolio.count >= MaxOpenPositions, "POSITION_LIMIT_EXCEEDED"),
    Check(PositionUsdExceedsLimit(size, portfolio), "POSITION_LIMIT_EXCEEDED"),
    Check(-portfolio.pnlToday >= MaxDailyLoss, "DAILY_LOSS_LIMIT_REACHED"),
    Check(size <= 0, "POSITION_LIMIT_EXCEEDED"),
    Check(TradeSizeExceedsLimit(size), "TRADE_SIZE_EXCEEDS_LIMIT"),
    Check(Covering(in.asks, size) = {}, "INSUFFICIENT_LIQUIDITY"),
    Check(market.bestAsk = 0, "INSUFFICIENT_LIQUIDITY"),
    Check(Slips(in), "EXCESSIVE_SLIPPAGE") >>

Failed(checks)    == {n \in 1..26 : checks[n].fails}
FirstCode(checks) ==
    LET failed == Failed(checks)
    IN  checks[CHOOSE n \in failed : \A m \in failed : n <= m].code

Evaluate(in) ==
    LET checks == Checks(in)
        size   == OrderSize(in)
    IN  IF Failed(checks) # {}
        THEN [approved |-> FALSE, code |-> FirstCode(checks), maxSize |-> 0, maxPrice |-> 0]
        ELSE [approved |-> TRUE, code |-> "NONE", maxSize |-> size,
              maxPrice |-> Least(in.signal.maxEntryPrice, WorstPrice(in.asks, size))]

-----------------------------------------------------------------------------
(* isHaltRequired: every reason, where evaluate stops at the first.  Nothing*)
(* in the repository calls it.                                              *)
HaltReasons(health) ==
    {f \in {"riskEngine", "signer", "database", "redis", "clock", "strategy"} : ~health[f]}
        \cup {f \in {"killSwitch"} : health[f]}

(* tradingRestrictionForTimeRemaining: what may be done so many seconds     *)
(* before a market ends.                                                    *)
TradingRestriction(seconds) ==
    CASE seconds <= 0          -> "STOPPED"
      [] seconds \in 1..5      -> "CANCEL_RESTING_ORDERS"
      [] seconds \in 6..20     -> "ENTRY_DISABLED"
      [] seconds \in 21..60    -> "RESTRICTED_ENTRY"
      [] OTHER                 -> "NORMAL"

EntryAllowed(seconds) == TradingRestriction(seconds) \in {"NORMAL", "RESTRICTED_ENTRY"}

-----------------------------------------------------------------------------
(***************************************************************************)
(* What an approval means: the size is positive and within the trade limit,*)
(* the headroom of the position limit and what is left of the daily loss   *)
(* limit; the book holds it at prices within the slippage limit; and the   *)
(* price is no more than the signal's.                                     *)
(***************************************************************************)
WithinLimits(in, decision) ==
    /\ decision.maxSize \in 1..MaxTrade
    /\ in.portfolio.usd + decision.maxSize <= MaxPosition
    /\ in.portfolio.count < MaxOpenPositions
    /\ LossToday(in) + decision.maxSize <= MaxDailyLoss
    /\ decision.maxPrice <= in.signal.maxEntryPrice
    /\ \E l \in in.asks :
          /\ Depth(in.asks, l.price) >= decision.maxSize
          /\ decision.maxPrice <= l.price
          /\ (l.price - in.market.bestAsk) * One <= MaxSlippage * in.market.bestAsk
=============================================================================
