---------------------------- MODULE BacktestMetrics ----------------------------
(***************************************************************************)
(* metrics.ts and calibration.ts of services/backtester: what a backtest   *)
(* says of its trades.  The ratios (win rate, Sharpe, profit factor) are   *)
(* quotients of these numbers, and left out.                               *)
(***************************************************************************)
EXTENDS Replay, Functions

Deltas(trades) == [k \in DOMAIN trades |-> trades[k].pnl]

(* One trade more on the curve of the accumulated P&L.                      *)
Extended(curve, delta) ==
    LET cumulative == curve.cumulative + delta
        peak       == IF cumulative > curve.peak THEN cumulative ELSE curve.peak
    IN  [cumulative |-> cumulative, peak |-> peak,
         drawdown |-> IF peak - cumulative > curve.drawdown
                      THEN peak - cumulative ELSE curve.drawdown]

ComputeMaxDrawdown(deltas) ==
    LET curve[k \in 0..Len(deltas)] ==
            IF k = 0 THEN [cumulative |-> 0, peak |-> 0, drawdown |-> 0]
            ELSE Extended(curve[k - 1], deltas[k])
    IN  curve[Len(deltas)].drawdown

Figures(trades, chronological) ==
    LET pnl  == Deltas(trades)
        wins == {k \in DOMAIN pnl : pnl[k] > 0}
    IN  [totalTrades |-> Len(trades), wins |-> Cardinality(wins),
         losses |-> Len(trades) - Cardinality(wins),
         netPnl |-> SumFunction([k \in wins |-> pnl[k]])
                      + SumFunction([k \in DOMAIN pnl \ wins |-> pnl[k]]),
         maxDrawdown |-> ComputeMaxDrawdown(Deltas(chronological))]

Unsorted(trades) == Figures(trades, trades)     \* wrong: in the order they are listed

ComputeBacktestMetrics(trades) == Figures(trades, Chronological(trades))

(* The buckets begin at 0.50 and at every 0.05 up to 0.80.                  *)
BucketIndexFor(predicted, one) ==
    IF 2 * predicted < one \/ predicted > one THEN -1
    ELSE LET step == (20 * predicted) \div one - 10 IN IF step > 6 THEN 6 ELSE step

ComputeCalibration(trades, one) ==
    LET In(bucket) == {k \in DOMAIN trades : BucketIndexFor(trades[k].predicted, one) = bucket}
        samples    == [b \in 0..6 |-> Cardinality(In(b))]
    IN  [buckets |-> [b \in 0..6 |-> [samples |-> samples[b],
                                      won |-> Cardinality({k \in In(b) : trades[k].win})]],
         totalSamples |-> SumFunction(samples), excludedSamples |-> Cardinality(In(-1))]
=============================================================================
