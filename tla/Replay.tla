-------------------------------- MODULE Replay ---------------------------------
(***************************************************************************)
(* The history a backtest runs on: data-loader.ts, which shapes the rows of*)
(* the database into series, and BacktestReplayEngine of replay-engine.ts, *)
(* which shows of the series what was there at an instant.  Instants are   *)
(* integers; an item of a series carries its own as t.                     *)
(***************************************************************************)
EXTENDS Integers, SequencesExt

CONSTANTS RecentWindow, RecentLimit     \* recentTradesWindowMs, recentTradesLimit

Sides == {"YES", "NO"}

(* A sort by timestamp: stable, as Array.prototype.sort is.                 *)
Chronological(items) ==
    LET Earlier(i, j) == items[i].t < items[j].t \/ (items[i].t = items[j].t /\ i < j)
        Place(i)      == 1 + Cardinality({j \in DOMAIN items : Earlier(j, i)})
    IN  [k \in DOMAIN items |-> items[CHOOSE i \in DOMAIN items : Place(i) = k]]

-----------------------------------------------------------------------------
(* groupOrderBookSnapshots: a row of orderbook_snapshots says neither bid   *)
(* nor ask; it is a bid if its price is no more than the mid of the last    *)
(* tick by then, or one half before the first tick.                         *)
MidAt(ticks, t, side, half) ==
    LET past == SelectSeq(Chronological(ticks), LAMBDA k : k.t <= t)
    IN  IF past = <<>> THEN half
        ELSE IF side = "YES" THEN Last(past).yesMid ELSE Last(past).noMid

GroupOrderBookSnapshots(rows, ticks, half) ==
    LET Of(t, side)   == {r \in rows : r.t = t /\ r.side = side}
        IsBid(r)      == r.price <= MidAt(ticks, r.t, r.side, half)
        Levels(some)  == {[price |-> r.price, usd |-> r.usd] : r \in some}
        Bids(t, side) == Levels({r \in Of(t, side) : IsBid(r)})
        Asks(t, side) == Levels({r \in Of(t, side) : ~IsBid(r)})
        Book(t)       == [t |-> t, bids |-> [s \in Sides |-> Bids(t, s)],
                          asks |-> [s \in Sides |-> Asks(t, s)]]
    IN  Chronological(SetToSeq({Book(r.t) : r \in rows}))

LoadDataset(market, stored, half) ==
    [ticks  |-> stored.ticks,
     books  |-> GroupOrderBookSnapshots(stored.rows, stored.ticks, half),
     trades |-> stored.trades, prices |-> stored.prices,
     market |-> market, outcome |-> stored.outcome]

-----------------------------------------------------------------------------
(* The constructor: every series is sorted once.                            *)
Engine(dataset) ==
    [dataset EXCEPT !.ticks = Chronological(@), !.books = Chronological(@),
                    !.trades = Chronological(@), !.prices = Chronological(@)]

Timestamps(engine)    == [k \in DOMAIN engine.ticks |-> engine.ticks[k].t]
LastTimestamp(engine) == Last(engine.ticks).t

PeeksAhead(sorted, now) == SelectSeq(sorted, LAMBDA x : x.t <= now + 1)   \* wrong: a step too far

(* The binary search for the first item after now, and what is before it.   *)
FilterAtOrBefore(sorted, now) ==
    LET ends == 0..Len(sorted)
        first[window \in ends \X ends] ==
            LET lo == window[1]  hi == window[2]  mid == (lo + hi) \div 2
            IN  IF lo >= hi THEN lo
                ELSE IF sorted[mid + 1].t <= now THEN first[<<mid + 1, hi>>]
                ELSE first[<<lo, mid>>]
    IN  SubSeq(sorted, 1, first[<<0, Len(sorted)>>])

EMPTY_ORDER_BOOK == [t |-> -1, bids |-> [s \in Sides |-> {}], asks |-> [s \in Sides |-> {}]]

RecentTrades(past, now) ==
    LET recent == SelectSeq(past, LAMBDA trade : now - trade.t <= RecentWindow)
    IN  SubSeq(recent, 1 + (IF Len(recent) > RecentLimit THEN Len(recent) - RecentLimit ELSE 0),
               Len(recent))

SnapshotAt(engine, now) ==
    LET ticks  == FilterAtOrBefore(engine.ticks, now)
        books  == FilterAtOrBefore(engine.books, now)
        prices == FilterAtOrBefore(engine.prices, now)
    IN  [now                |-> now,
         orderBook          |-> IF books = <<>> THEN EMPTY_ORDER_BOOK ELSE Last(books),
         recentTrades       |-> RecentTrades(FilterAtOrBefore(engine.trades, now), now),
         priceHistory       |-> [k \in DOMAIN prices |->
                                   [t |-> prices[k].t, value |-> prices[k].price]],
         probabilityHistory |-> [k \in DOMAIN ticks |->
                                   [t |-> ticks[k].t, value |-> ticks[k].yesMid]],
         volumeHistory      |-> [k \in DOMAIN ticks |->
                                   [t |-> ticks[k].t, value |-> ticks[k].volume]]]
=============================================================================
