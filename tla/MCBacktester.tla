------------------------------ MODULE MCBacktester -----------------------------
(* Two markets: one whose data reach its end and one whose data stop early. *)
EXTENDS Backtester

MCInput   == <<2, 1>>
MCMarket  == <<[endTime |-> 4, strike |-> 10], [endTime |-> 6, strike |-> 0]>>
MCWindows == {1, 3}

Tick(t, mid, volume)         == [t |-> t, yesMid |-> mid, noMid |-> 9, volume |-> volume]
Row(t, side, price, usd)     == [t |-> t, side |-> side, price |-> price, usd |-> usd]
Price(t, price)              == [t |-> t, price |-> price]
History(ticks, rows, prices, outcome) ==
    [ticks |-> ticks, rows |-> rows, prices |-> prices, outcome |-> outcome,
     trades |-> <<[t |-> 2, side |-> "YES"], [t |-> 0, side |-> "NO"]>>]

(* A book of both sides; then its cheap asks are gone.                      *)
Deep(t)  == {Row(t, "YES", 2, 3), Row(t, "YES", 4, 2), Row(t, "YES", 5, 3),
             Row(t, "NO", 10, 5), Row(t, "NO", 16, 1), Row(t, "NO", 20, 2)}
Thin(t)  == {Row(t, "YES", 2, 3), Row(t, "YES", 5, 1), Row(t, "YES", 10, 4)}

(* The ticks come in any order.  A history reaches the end of its market,   *)
(* stops before it, or has ticks that are closer than the latency.          *)
Reaching(o) == History(<<Tick(5, 3, 8), Tick(4, 3, 7), Tick(0, 3, 2), Tick(2, 3, 5)>>,
                       Deep(0) \cup Thin(3), <<Price(0, 10), Price(2, 12)>>, o)
Short(o)    == History(<<Tick(2, 3, 5), Tick(0, 3, 2)>>, Deep(0) \cup Deep(2), <<Price(0, 10)>>, o)
Stopping(o) == History(<<Tick(1, 3, 1), Tick(3, 3, 1)>>, Deep(1) \cup Thin(3), <<>>, o)
Close(o)    == History(<<Tick(1, 3, 1), Tick(2, 3, 4)>>, Deep(1) \cup Thin(2), <<Price(1, 10)>>, o)

MCRowsOf == <<{Reaching(o) : o \in Sides} \cup {Short("YES")},
              {Stopping(o) : o \in Sides} \cup {Close("NO")}>>

Answer(valid, action, fair) ==
    [valid |-> valid, action |-> action, confidence |-> One, edge |-> 6,
     maxEntryPrice |-> 12, fairProbability |-> fair]

MCAnswers == {Answer(TRUE, "BUY_YES", 14), Answer(TRUE, "BUY_YES", 9), Answer(TRUE, "BUY_NO", 4),
              Answer(TRUE, "PASS", 10), Answer(FALSE, "BUY_YES", 14)}
=============================================================================
