------------------------------ MODULE Backtester -------------------------------
(***************************************************************************)
(* runBacktest of services/backtester: the ticks of all markets are        *)
(* replayed in the order of time; each is a cycle of features, trigger,    *)
(* agent, risk engine and simulated fill, against a portfolio in memory.   *)
(* MarketIds are numbers, the order of their ids.  A share pays one unit of  *)
(* USD; a position is kept as shares and cost, its average price being the *)
(* quotient of the two.                                                    *)
(***************************************************************************)
EXTENDS Replay, Features, BacktestMetrics

CONSTANTS
    Input,          \* input.markets: the markets in the order of the input
    Market,         \* [Input -> [endTime, strike]]
    RowsOf,         \* [Input -> what the database may hold of the market]
    Answers,        \* what the agent may answer
    Quants,         \* what the quantitative model may say
    InitialBalance, \* initialBalanceUsd
    Latency,        \* fillSimulation.latencyMs
    FeeRatio,       \* fillSimulation.feeBps, as a ratio
    Day             \* the length of a day

MarketIds == 1..Len(Input)

(* Rows of a market, in the order the database returns them, and its outcome.*)
Histories ==
    [ticks  : Seq([t : Nat, yesMid : Int, noMid : Int, volume : Int]),
     rows   : SUBSET [t : Nat, side : Sides, price : 1..One, usd : Nat],
     prices : Seq([t : Nat, price : Int]), trades : Seq([t : Nat, side : Sides]),
     outcome : Sides]

(* The database's columns, and what getValidatedSignal lets through.        *)
ASSUME BacktestAssumption ==
    /\ Input \in Seq(MarketIds)
    /\ \A m \in MarketIds : \E k \in DOMAIN Input : Input[k] = m
    /\ Market \in [MarketIds -> [endTime : Nat, strike : Nat]]
    /\ \A m \in MarketIds : \A stored \in RowsOf[m] :
          stored \in Histories /\ IsFiniteSet(stored.rows)
    /\ Answers \subseteq [valid : BOOLEAN, action : {"BUY_YES", "BUY_NO", "PASS"},
                          confidence : 0..One, edge : (-One)..One, maxEntryPrice : 0..One,
                          fairProbability : 0..One]
    /\ InitialBalance \in Int /\ Latency \in Nat /\ FeeRatio \in 0..One /\ Day \in Nat \ {0}

VARIABLES
    engines,        \* per market, its BacktestReplayEngine
    queue,          \* the cycles to come, each a tick of a market
    tail,           \* markets still to be looked at when the queue is empty
    previous,       \* per market, previousTrigger
    lastTriggered,  \* per market, lastTriggeredAt, or -1
    positions,      \* per market and side
    cash, daily,    \* dailyRealizedPnl
    trades, resolved, counts,
    report,         \* what runBacktest returned
    asked           \* (history) the last context the agent was asked with

backtestVars == <<engines, queue, tail, previous, lastTriggered, positions, cash, daily,
                  trades, resolved, counts, report, asked>>

NoPosition == [size |-> 0, cost |-> 0, fills |-> <<>>, since |-> -1, predicted |-> 0]

BacktestTypeOK ==
    /\ MarketIds = DOMAIN engines
    /\ \A c \in queue : c.market \in MarketIds /\ c.t \in Nat
    /\ Range(tail) \subseteq MarketIds /\ resolved \subseteq MarketIds
    /\ lastTriggered \in [MarketIds -> Nat \cup {-1}]
    /\ \A m \in MarketIds, s \in Sides :
          /\ {positions[m][s].size, positions[m][s].cost} \subseteq Nat
          /\ positions[m][s].size = 0 => positions[m][s] = NoPosition
    /\ cash \in Int /\ \A d \in DOMAIN daily : daily[d] \in Int
    /\ counts.approvals + counts.rejections <= counts.triggered
    /\ counts.triggered <= counts.generated

-----------------------------------------------------------------------------
(* taggedTimestamps: a cycle for every tick of every market; in the order of*)
(* time, of one instant in that of the ids, and of a market as it has them. *)
CyclesOf(m, loaded) ==
    {[market |-> m, index |-> k, t |-> Timestamps(loaded[m])[k]] :
        k \in DOMAIN Timestamps(loaded[m])}

AllCycles(loaded) == UNION {CyclesOf(m, loaded) : m \in MarketIds}

Before(c, d) ==
    \/ c.t < d.t
    \/ c.t = d.t /\ c.market < d.market
    \/ c.t = d.t /\ c.market = d.market /\ c.index < d.index

BacktestInit ==
    /\ \E stored \in [MarketIds -> UNION {RowsOf[m] : m \in MarketIds}] :
          /\ \A m \in MarketIds : stored[m] \in RowsOf[m]
          /\ engines = [m \in MarketIds |-> Engine(LoadDataset(Market[m], stored[m], One \div 2))]
    /\ queue = AllCycles(engines) /\ tail = Input
    /\ previous = [m \in MarketIds |-> Never] /\ lastTriggered = [m \in MarketIds |-> -1]
    /\ positions = [m \in MarketIds |-> [s \in Sides |-> NoPosition]]
    /\ cash = InitialBalance /\ daily = [d \in {} |-> 0]
    /\ trades = <<>> /\ resolved = {}
    /\ counts = [generated |-> 0, triggered |-> 0, approvals |-> 0, rejections |-> 0]
    /\ report = <<>> /\ asked = <<>>

-----------------------------------------------------------------------------
Open == {p \in MarketIds \X Sides : positions[p[1]][p[2]].size > 0}

CostOf(m) == positions[m]["YES"].cost + positions[m]["NO"].cost

OpenPositionsUsd == SumFunction([m \in MarketIds |-> CostOf(m)])

DayOf(t) == t \div Day

RealizedToday(t) == IF DayOf(t) \in DOMAIN daily THEN daily[DayOf(t)] ELSE 0

AddRealizedPnlToday(t, delta) ==
    daily' = [d \in DOMAIN daily \cup {DayOf(t)} |->
                IF d = DayOf(t) THEN RealizedToday(t) + delta ELSE daily[d]]

UsdOf(fills)  == SumFunction([k \in DOMAIN fills |-> fills[k].usd])
FeesOf(fills) == SumFunction([k \in DOMAIN fills |-> fills[k].fee])

ExitPrice(m, s) == IF engines[m].outcome = s THEN 1 ELSE 0

PnlOf(m, s) == positions[m][s].size * ExitPrice(m, s) - positions[m][s].cost

(* What resolveMarket records of the position of a side.                    *)
TradeOf(m, s, at) ==
    LET pos == positions[m][s]
    IN  [market |-> m, side |-> s, usd |-> UsdOf(pos.fills), shares |-> pos.size,
         fees |-> FeesOf(pos.fills), exit |-> ExitPrice(m, s), pnl |-> PnlOf(m, s),
         win |-> PnlOf(m, s) > 0, predicted |-> pos.predicted, t |-> at]

Closing(m, s, at) == IF positions[m][s].size > 0 THEN <<TradeOf(m, s, at)>> ELSE <<>>

PaysAnyway(m, s) == positions[m][s].size  \* wrong: the side that lost is paid too

Payout(m, s) == positions[m][s].size * ExitPrice(m, s)

Deleted(pos) == NoPosition

ResolveMarket(m, at) ==
    /\ resolved' = resolved \cup {m}
    /\ trades' = trades \o Closing(m, "YES", at) \o Closing(m, "NO", at)
    /\ cash' = cash + Payout(m, "YES") + Payout(m, "NO")
    /\ IF \E s \in Sides : positions[m][s].size > 0
       THEN AddRealizedPnlToday(at, PnlOf(m, "YES") + PnlOf(m, "NO"))
       ELSE UNCHANGED daily
    /\ positions' = [positions EXCEPT ![m] = [s \in Sides |-> Deleted(@[s])]]

-----------------------------------------------------------------------------
(* simulateFill: what the asks hold within the slippage of the limit, walked*)
(* from the best price.                                                     *)
PriceCeiling(limit) == limit * (One + MaxSlippage)

Fillable(asks, limit) == {l \in asks : l.price * One <= PriceCeiling(limit)}

Cheaper(asks, l) ==
    {k \in asks : k.price < l.price \/ (k.price = l.price /\ k.usd < l.usd)}

Taken(asks, usd, l) == Clamp(usd - SumUsd(Cheaper(asks, l)), 0, l.usd)

SimulateFill(asks, size, limit) ==
    LET usd == Least(size, SumUsd(Fillable(asks, limit)))
    IN  [usd |-> usd, fee |-> Times(usd, FeeRatio),
         shares |-> SumFunction([l \in asks |-> (Taken(asks, usd, l) * One) \div l.price])]

(* The book when the order is there; if it has dried up, that of the decision.*)
DelayedFill(m, side, now, asks, size, limit) ==
    LET book    == SnapshotAt(engines[m], now + Latency).orderBook
        delayed == SimulateFill(book.asks[side], size, limit)
    IN  IF delayed.usd > 0 THEN delayed ELSE SimulateFill(asks, size, limit)

(* applyOpeningFill, and what the first fill of a position fixes.           *)
Opened(pos, fill, now, predicted) ==
    [size |-> pos.size + fill.shares, cost |-> pos.cost + fill.usd,
     fills |-> Append(pos.fills, [usd |-> fill.usd, fee |-> fill.fee, t |-> now + Latency]),
     since |-> IF pos = NoPosition THEN now ELSE pos.since,
     predicted |-> IF pos = NoPosition THEN predicted ELSE pos.predicted]

-----------------------------------------------------------------------------
Context(m, now, quant) ==
    LET snapshot == SnapshotAt(engines[m], now)
        features == CalculateFeatures(snapshot, engines[m].market)
    IN  [market |-> m, snapshot |-> snapshot, features |-> features,
         quant |-> Predict(features, quant), positions |-> positions[m]]

TriggerSnapshot(context) ==
    [t |-> context.snapshot.now,
     price |-> IF context.snapshot.priceHistory = <<>> THEN 0
               ELSE Last(context.snapshot.priceHistory).value,
     probability |-> context.features.probability, quant |-> context.quant.probabilityYes,
     imbalance |-> context.features.imbalance]

SideOf(signal) == IF signal.action = "BUY_YES" THEN "YES" ELSE "NO"

(* What the risk engine is asked, of the simulated portfolio.               *)
RiskInput(context, signal) ==
    LET book == context.snapshot.orderBook
        now  == context.snapshot.now
    IN  [signal    |-> signal,
         market    |-> [active |-> TRUE, closed |-> FALSE,
                        timeRemaining |-> context.features.timeToExpiry, dataAge |-> 0,
                        feedAge |-> 0, exchangeHealthy |-> TRUE,
                        liquidity |-> DepthUsd(book.bids["YES"], book.asks["YES"])
                                        + DepthUsd(book.bids["NO"], book.asks["NO"]),
                        bestAsk |-> BestAsk(book.asks[SideOf(signal)])],
         portfolio |-> [count |-> Cardinality(Open), usd |-> OpenPositionsUsd,
                        pnlToday |-> RealizedToday(now)],
         account   |-> [funded |-> TRUE, verified |-> TRUE, optedIn |-> FALSE],
         health    |-> [riskEngine |-> TRUE, signer |-> TRUE, database |-> TRUE, redis |-> TRUE,
                        clock |-> TRUE, killSwitch |-> FALSE, strategy |-> TRUE],
         mode      |-> "PAPER",
         asks      |-> book.asks[SideOf(signal)]]

Fill(m, now, signal, decision, asks) ==
    LET side  == SideOf(signal)
        fill  == DelayedFill(m, side, now, asks, decision.maxSize, decision.maxPrice)
        predicted == IF side = "YES" THEN signal.fairProbability ELSE One - signal.fairProbability
    IN  /\ cash' = cash - fill.usd - fill.fee
        /\ positions' = [positions EXCEPT ![m][side] =
                            Opened(@, fill, now, predicted)]

(* A signal that is not PASS: refused, approved and not fillable, or filled.*)
Act(m, context, signal) ==
    LET in        == RiskInput(context, signal)
        decision  == Evaluate(in)
        immediate == SimulateFill(in.asks, decision.maxSize, decision.maxPrice)
    IN  IF ~decision.approved
        THEN /\ counts' = [counts EXCEPT !.generated = @ + 1, !.triggered = @ + 1,
                                         !.rejections = @ + 1]
             /\ UNCHANGED <<cash, positions>>
        ELSE /\ counts' = [counts EXCEPT !.generated = @ + 1, !.triggered = @ + 1,
                                         !.approvals = @ + 1]
             /\ IF immediate.usd > 0 THEN Fill(m, context.snapshot.now, signal, decision, in.asks)
                ELSE UNCHANGED <<cash, positions>>

-----------------------------------------------------------------------------
(* A market that is resolved has no more cycles.                            *)
Skip(m, now) ==
    /\ m \in resolved
    /\ UNCHANGED <<previous, lastTriggered, positions, cash, daily, trades, resolved, counts, asked>>

Expire(m, now) ==
    /\ m \notin resolved /\ engines[m].market.endTime <= now
    /\ ResolveMarket(m, now)
    /\ UNCHANGED <<previous, lastTriggered, counts, asked>>

Replayed(m, now) == m \notin resolved /\ engines[m].market.endTime > now

Untriggered(m, now, quant) ==
    LET snapshot == TriggerSnapshot(Context(m, now, quant))
    IN  /\ Replayed(m, now)
        /\ ~ShouldTriggerAnalysis(previous[m], snapshot, lastTriggered[m])
        /\ previous' = [previous EXCEPT ![m] = snapshot]
        /\ counts' = [counts EXCEPT !.generated = @ + 1]
        /\ UNCHANGED <<lastTriggered, positions, cash, daily, trades, resolved, asked>>

(* getValidatedSignal: a port that throws, or does not parse, is a PASS.     *)
Passes(answer) == ~answer.valid \/ answer.action = "PASS"

AskAgent(m, now, quant, answer) ==
    LET context  == Context(m, now, quant)
        snapshot == TriggerSnapshot(context)
    IN  /\ Replayed(m, now)
        /\ ShouldTriggerAnalysis(previous[m], snapshot, lastTriggered[m])
        /\ previous' = [previous EXCEPT ![m] = snapshot]
        /\ lastTriggered' = [lastTriggered EXCEPT ![m] = now]
        /\ asked' = <<context>>
        /\ IF Passes(answer)
           THEN /\ counts' = [counts EXCEPT !.generated = @ + 1, !.triggered = @ + 1]
                /\ UNCHANGED <<cash, positions>>
           ELSE Act(m, context, answer)
        /\ UNCHANGED <<daily, trades, resolved>>

Visit(m, now) ==
    \/ Skip(m, now)
    \/ Expire(m, now)
    \/ \E quant \in Quants : Untriggered(m, now, quant)
    \/ \E quant \in Quants, answer \in Answers : AskAgent(m, now, quant, answer)

Cycle ==
    \E c \in queue :
        /\ \A d \in queue \ {c} : Before(c, d)
        /\ queue' = queue \ {c} /\ UNCHANGED <<engines, tail, report>>
        /\ Visit(c.market, c.t)

(* The data of a market may end before the market does.                     *)
Truncated ==
    /\ queue = {} /\ tail # <<>>
    /\ tail' = Tail(tail)
    /\ LET m == Head(tail)
       IN  IF m \in resolved \/ engines[m].ticks = <<>>
           THEN UNCHANGED <<positions, cash, daily, trades, resolved>>
           ELSE ResolveMarket(m, LastTimestamp(engines[m]))
    /\ UNCHANGED <<engines, queue, previous, lastTriggered, counts, report, asked>>

Report ==
    /\ queue = {} /\ tail = <<>> /\ report = <<>>
    /\ report' = <<[metrics |-> ComputeBacktestMetrics(trades),
                    calibration |-> ComputeCalibration(trades, One),
                    finalBalance |-> cash, finalEquity |-> cash + OpenPositionsUsd]>>
    /\ UNCHANGED <<engines, queue, tail, previous, lastTriggered, positions, cash, daily,
                   trades, resolved, counts, asked>>

BacktestNext == Cycle \/ Truncated \/ Report

BacktestSpec == BacktestInit /\ [][BacktestNext]_backtestVars

-----------------------------------------------------------------------------
(* No look-ahead (replay-engine.ts:10-32): what the agent is asked with is  *)
(* what it would be if the history ended at that instant.                   *)
Until(engine, now) ==
    LET past(items) == SubSeq(items, 1, Cardinality({k \in DOMAIN items : items[k].t <= now}))
    IN  [engine EXCEPT !.ticks = past(@), !.books = past(@), !.trades = past(@), !.prices = past(@)]

SeesOnlyThePast ==
    \A k \in DOMAIN asked :
        LET now  == asked[k].snapshot.now
            past == Until(engines[asked[k].market], now)
        IN  /\ asked[k].snapshot = SnapshotAt(past, now)
            /\ \A b \in Range(past.books) : asked[k].snapshot.orderBook.t >= b.t
            /\ Len(asked[k].snapshot.priceHistory) = Len(past.prices)
            /\ Len(asked[k].snapshot.volumeHistory) = Len(past.ticks)

(* The same of the portfolio: no position of the context was filled after   *)
(* the decision (backtest-runner.ts:423-432 on the book of now + latency).  *)
(* It holds of histories whose ticks are a latency apart.                   *)
FillsArePast ==
    \A k \in DOMAIN asked : \A s \in Sides :
        \A f \in Range(asked[k].positions[s].fills) : f.t <= asked[k].snapshot.now

TicksApart ==
    \A m \in MarketIds : \A j, k \in DOMAIN engines[m].ticks :
        j < k => engines[m].ticks[j].t + Latency <= engines[m].ticks[k].t

FillsArePastIfApart == TicksApart => FillsArePast

OpenFees(m) == FeesOf(positions[m]["YES"].fills) + FeesOf(positions[m]["NO"].fills)

FeesOfTrades(list) == SumFunction([k \in DOMAIN list |-> list[k].fees])

(* The balance can be told from the trades: what was put in, less what is   *)
(* still open and its fees, and for every trade its result and its fees.    *)
LedgerBalances ==
    cash + OpenPositionsUsd + SumFunction([m \in MarketIds |-> OpenFees(m)])
        = InitialBalance + SumFunction(Deltas(trades)) - FeesOfTrades(trades)

(* Whatever the simulation of a fill does after the approval, the open      *)
(* positions are within the limits they were approved under.                *)
OpenWithinLimits ==
    /\ OpenPositionsUsd <= MaxPosition
    /\ Cardinality(Open) <= MaxOpenPositions

(* types.ts:78-88: at the end nothing is left unrealized, every trade was   *)
(* resolved once and with the outcome of its market, and not before its     *)
(* market had ended if its data go that far.                                *)
AllRealized ==
    report # <<>> =>
        /\ Open = {} /\ report[1].finalEquity = report[1].finalBalance
        /\ \A j, k \in DOMAIN trades :
              j # k => <<trades[j].market, trades[j].side>> # <<trades[k].market, trades[k].side>>
        /\ \A k \in DOMAIN trades :
              LET e == engines[trades[k].market]
              IN  /\ trades[k].exit = IF e.outcome = trades[k].side THEN 1 ELSE 0
                  /\ trades[k].t < e.market.endTime => trades[k].t = LastTimestamp(e)

(* The drawdown of the result is the deepest fall of the accumulated P&L,   *)
(* from its start or a later instant, of the trades in the order in which   *)
(* they were resolved: not that of the list, whose end is in the order of   *)
(* the input.                                                               *)
DrawdownIsDeepest ==
    report # <<>> =>
        LET pnl     == Deltas(Chronological(trades))
            upTo(k) == SumFunction(SubSeq(pnl, 1, k))
            deepest == {upTo(p[1]) - upTo(p[2]) :
                          p \in {q \in (0..Len(pnl)) \X (0..Len(pnl)) : q[1] <= q[2]}}
        IN  report[1].metrics.maxDrawdown = Max(deepest)

(* Every trade is in the bucket of its prediction or among the excluded,    *)
(* and a sample counts as won exactly if its side paid, but for shares that *)
(* were bought at 1.0 and gained nothing (metrics.ts:64-67).                *)
CalibrationIsHonest ==
    report # <<>> =>
        LET calibration == report[1].calibration
            InBucket(b) == {k \in DOMAIN trades :
                              /\ 20 * trades[k].predicted >= (10 + b) * One
                              /\ b < 6 => 20 * trades[k].predicted < (11 + b) * One}
        IN  /\ calibration.totalSamples + calibration.excludedSamples = Len(trades)
            /\ \A b \in 0..6 :
                  /\ calibration.buckets[b].samples = Cardinality(InBucket(b))
                  /\ calibration.buckets[b].won
                        = Cardinality({k \in InBucket(b) :
                                          trades[k].exit = 1 /\ trades[k].usd < trades[k].shares})

(* No look-ahead, neither in what the agent is shown of the market nor in   *)
(* the positions it is shown.                                               *)
NoLookAhead == SeesOnlyThePast /\ FillsArePastIfApart

(* The simulated portfolio adds up and is within its limits after any       *)
(* number of fills and resolutions, and is empty at the end.                *)
PortfolioAddsUp == BacktestTypeOK /\ LedgerBalances /\ OpenWithinLimits /\ AllRealized

(* Drawdown and calibration of the result are those of its trades.          *)
ResultIsTrue == DrawdownIsDeepest /\ CalibrationIsHonest
=============================================================================
