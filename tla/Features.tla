------------------------------- MODULE Features --------------------------------
(***************************************************************************)
(* services/feature-engine and the trigger of services/signal-engine: what *)
(* is computed of a market at an instant, and whether it is worth a call of*)
(* the agent.  Numbers are the fixed-point numbers of RiskEngine; a time is*)
(* a number of the unit of Replay.                                         *)
(* The volatility and the sigmoid are numbers of the quantitative model,   *)
(* and left out: any probability may come out of it.                       *)
(***************************************************************************)
EXTENDS RiskEngine

CONSTANTS
    ReturnWindows,          \* PRICE_RETURN_WINDOWS_SECONDS
    MomentumWindow,         \* the window of priceReturn30s
    VolumeWindow,           \* VOLUME_DELTA_WINDOW_SECONDS
    ProbabilityWindows,     \* PROBABILITY_CHANGE_WINDOWS_SECONDS
    MarketLife,             \* REFERENCE_MARKET_DURATION_SECONDS
    RefreshInterval         \* PERIODIC_REFRESH_INTERVAL_SECONDS

ASSUME FeaturesAssumption ==
    /\ MarketLife \in Nat \ {0} /\ RefreshInterval \in Nat \ {0}
    /\ ReturnWindows \subseteq Nat /\ MomentumWindow \in ReturnWindows
    /\ ProbabilityWindows \subseteq Nat /\ VolumeWindow \in Nat

Undefined == -1000000       \* no such sample

Clamp(x, lo, hi) == IF x < lo THEN lo ELSE IF x > hi THEN hi ELSE x
SumUsd(levels)   == SumFunction([l \in levels |-> l.usd])

(* The last sample at or before the instant; of equals, the first.          *)
SampleAtOrBefore(history, target) ==
    LET past == {k \in DOMAIN history : history[k].t <= target}
        Newest(k) == \A j \in past : history[j].t < history[k].t
                                     \/ (history[j].t = history[k].t /\ k <= j)
    IN  IF past = {} THEN Undefined ELSE history[CHOOSE k \in past : Newest(k)].value

RelativeReturn(current, past) ==
    IF current = Undefined \/ past \in {Undefined, 0} THEN 0
    ELSE ((current - past) * One) \div past

AbsoluteDelta(current, past) ==
    IF Undefined \in {current, past} THEN 0 ELSE current - past

DepthUsd(bids, asks) == SumUsd(bids) + SumUsd(asks)

Imbalance(bids, asks) ==
    IF DepthUsd(bids, asks) = 0 THEN 0
    ELSE ((SumUsd(bids) - SumUsd(asks)) * One) \div DepthUsd(bids, asks)

(* The midpoint of the book, else the last known one, else one half.        *)
MarketProbability(bids, asks, history, now) ==
    IF bids # {} /\ asks # {} THEN (BestBid(bids) + BestAsk(asks)) \div 2
    ELSE IF SampleAtOrBefore(history, now) # Undefined THEN SampleAtOrBefore(history, now)
    ELSE One \div 2

CalculateFeatures(snapshot, market) ==
    LET now         == snapshot.now
        bids        == snapshot.orderBook.bids["YES"]
        asks        == snapshot.orderBook.asks["YES"]
        price       == SampleAtOrBefore(snapshot.priceHistory, now)
        probability == MarketProbability(bids, asks, snapshot.probabilityHistory, now)
        Past(history, window) == SampleAtOrBefore(history, now - window)
    IN  [priceReturn   |-> [w \in ReturnWindows |->
                              RelativeReturn(price, Past(snapshot.priceHistory, w))],
         distance      |-> IF market.strike = 0 THEN 0 ELSE RelativeReturn(price, market.strike),
         volumeDelta   |-> AbsoluteDelta(SampleAtOrBefore(snapshot.volumeHistory, now),
                                         Past(snapshot.volumeHistory, VolumeWindow)),
         imbalance     |-> Imbalance(bids, asks),
         probability   |-> probability,
         probabilityChange |-> [w \in ProbabilityWindows |->
                              AbsoluteDelta(probability, Past(snapshot.probabilityHistory, w))],
         timeToExpiry  |-> Clamp(market.endTime - now, 0, market.endTime)]

-----------------------------------------------------------------------------
(* LogisticQuantModel.predict: the confidence.                              *)
TimeConfidence(timeToExpiry) ==
    LET floor == One \div 5
    IN  IF timeToExpiry <= 0 THEN floor
        ELSE Clamp(One - (Magnitude(2 * timeToExpiry - MarketLife) * One) \div (2 * MarketLife),
                   floor, One)

(* Momentum and order flow that disagree, neither of them negligible.       *)
ConflictPenalty(momentum, imbalance) ==
    LET negligible == Magnitude(momentum) * 2000 < One \/ Magnitude(imbalance) * 20 < One
    IN  IF ~negligible /\ (momentum < 0) # (imbalance < 0) THEN (6 * One) \div 10 ELSE One

Predict(features, probabilityYes) ==
    [probabilityYes |-> probabilityYes,
     confidence |-> (13 * TimeConfidence(features.timeToExpiry)
                        * ConflictPenalty(features.priceReturn[MomentumWindow], features.imbalance))
                    \div (20 * One)]

-----------------------------------------------------------------------------
(* shouldTriggerAnalysis.  Never stands for a null snapshot or instant; the *)
(* thresholds are 0.001, 0.05 and 0.25.                                     *)
Never == [t |-> -1]

PriceMoves(previous, current) ==
    /\ previous.price > 0
    /\ Magnitude(current.price - previous.price) * 1000 >= previous.price

Diverges(current) == Magnitude(current.probability - current.quant) * 20 >= One

BookShifts(previous, current) == Magnitude(current.imbalance - previous.imbalance) * 4 >= One

ShouldTriggerAnalysis(previous, current, lastTriggeredAt) ==
    previous # Never /\ lastTriggeredAt >= 0 =>
        \/ PriceMoves(previous, current)
        \/ Diverges(current)
        \/ BookShifts(previous, current)
        \/ current.t - lastTriggeredAt >= RefreshInterval
=============================================================================
