----------------------------- MODULE MarketStream ------------------------------
(***************************************************************************)
(* services/market-stream: the registry of tracked markets, fed by a read  *)
(* of the markets table and by a consumer group on market.events; the      *)
(* Polymarket socket subscribed for them; and the books and trades that    *)
(* come back, cached, published and persisted.  The scanner beside it is   *)
(* MarketEvents, which MarketScanner is shown to implement in Settlement.  *)
(*                                                                         *)
(* The two tokens of a market are subscribed together and stand for it.    *)
(* Commands to Redis are answered in order, those to the database are not. *)
(* Books carry no prices: every side is priced.                            *)
(***************************************************************************)
EXTENDS MarketEvents, WsClient

CONSTANTS
    MaxEvents,      \* bound on the events published
    MaxBooks,       \* bound on the book updates being handled
    MaxTrades,      \* bound on the trades of a run, each of size 0 or 1
    MaxRestarts,    \* bound on the restarts of market-stream
    MayFail         \* TRUE: an await may reject

Sides == {"YES", "NO"}

ASSUME StreamAssumption ==
    /\ Tokens = Markets
    /\ None \notin {"known", "epoch", "old", "new"}
    /\ MaxEvents \in Nat
    /\ MaxBooks \in Nat /\ MaxTrades \in Nat /\ MaxRestarts \in Nat
    /\ MayFail \in BOOLEAN

VARIABLES
    up,             \* "down", "boot": in the read of start(), or "on"
    group,          \* the last event delivered to the group, or None
    handled,        \* the last event of the batch that was handled
    tracked,        \* byMarketId: whether the end time is known, or None
    books,          \* orderBookState: of each market and side
    due,            \* the throttle lets a tick of the market through
    pendingVolume,
    updates,        \* calls of handleOrderBookUpdate, oldest first
    connected,      \* polymarketConnected
    trades, restarts,   \* counted to bound them
    persisted,      \* (history) volume of the ticks that were inserted
    traded,         \* (history) volume of the trades taken in
    spoiled,        \* (history) markets that lost volume to a fault or reset
    unheard,        \* (history) markets an event of which was never handled
    silent,         \* (history) markets whose row went on or off with no event
    revived,        \* (history) markets a lifecycle event reactivated
    straddled       \* (history) markets dropped in the middle of an update

listener == <<up, group, handled>>
feed     == <<books, due, pendingVolume, updates>>
counts   == <<trades, restarts>>
history  == <<persisted, traded, spoiled, unheard, silent, revived, straddled>>

streamVars == <<listener, tracked, feed, connected, counts, history>>
vars       == <<eventVars, wsVars, streamVars>>

BookOf == [market : Markets, side : Sides, old : BOOLEAN, volume : 0..MaxTrades,
           mixed : BOOLEAN, pc : {"publish", "tick"}]

StreamTypeOK ==
    /\ EventsTypeOK /\ WsTypeOK
    /\ up \in {"down", "boot", "on"}
    /\ group \in 0..Len(log) \cup {None}
    /\ handled \in 0..Len(log)
    /\ tracked \in [Markets -> {"known", "epoch", None}]
    /\ books \in [Markets -> [Sides -> {"old", "new", None}]]
    /\ due \in [Markets -> BOOLEAN]
    /\ pendingVolume \in [Markets -> 0..MaxTrades]
    /\ updates \in Seq(BookOf) /\ Len(updates) <= MaxBooks
    /\ connected \in BOOLEAN
    /\ trades \in 0..MaxTrades /\ restarts \in 0..MaxRestarts
    /\ persisted \in [Markets -> 0..MaxTrades]
    /\ traded \in [Markets -> 0..MaxTrades]
    /\ spoiled \subseteq Markets /\ unheard \subseteq Markets /\ silent \subseteq Markets
    /\ revived \subseteq Markets /\ straddled \subseteq Markets

NoBooks == [m \in Markets |-> [side \in Sides |-> None]]
Untracked == [m \in Markets |-> None]
Zero    == [m \in Markets |-> 0]

Init ==
    /\ EventsInit /\ WsInit
    /\ up = "down" /\ group = None /\ handled = 0
    /\ tracked = Untracked
    /\ books = NoBooks
    /\ due = [m \in Markets |-> TRUE]
    /\ pendingVolume = Zero /\ updates = <<>>
    /\ connected = FALSE
    /\ trades = 0 /\ restarts = 0
    /\ persisted = Zero /\ traded = Zero
    /\ spoiled = {} /\ unheard = {} /\ silent = {} /\ revived = {} /\ straddled = {}

-----------------------------------------------------------------------------
(***************************************************************************)
(* The process.                                                            *)
(***************************************************************************)
(* createConsumerGroupReader: a new group begins at the end of the stream, *)
(* one that is there (BUSYGROUP) goes on after what it last delivered.      *)
Boot ==
    /\ up = "down" /\ up' = "boot"
    /\ group' = IF group = None THEN Len(log) ELSE group
    /\ handled' = group'
    /\ UNCHANGED <<eventVars, wsVars, tracked, feed, connected, counts, history>>

(* start(): the rows that listActive returns are tracked and subscribed, and*)
(* the socket is opened.                                                    *)
Start ==
    /\ up = "boot" /\ up' = "on"
    /\ tracked' = [m \in Markets |-> IF live[m] = TRUE THEN "known" ELSE None]
    /\ wanted' = {m \in Markets : live[m] = TRUE}
    /\ OpenSocket
    /\ closedByCaller' = FALSE /\ retrying' = FALSE
    /\ UNCHANGED <<timer, served>>
    /\ silent' = {m \in silent : \/ \E i \in group + 1 .. Len(log) : log[i].market = m
                                 \/ news # None /\ news.market = m}
    /\ UNCHANGED <<eventVars, group, handled, feed, connected, counts,
                   persisted, traded, spoiled, unheard, revived, straddled>>

(* A crash or a shutdown: what is in memory is lost, with the batch it held.*)
Restart ==
    /\ up # "down" /\ up' = "down"
    /\ restarts < MaxRestarts /\ restarts' = restarts + 1
    /\ Vanished
    /\ handled' = 0
    /\ tracked' = Untracked /\ books' = NoBooks /\ connected' = FALSE
    /\ due' = [m \in Markets |-> TRUE]
    /\ pendingVolume' = Zero /\ updates' = <<>>
    /\ spoiled' = spoiled \cup {m \in Markets : traded[m] > 0}
    /\ unheard' = {} /\ revived' = {} /\ straddled' = {}
    /\ UNCHANGED <<eventVars, group, trades, persisted, traded, silent>>

-----------------------------------------------------------------------------
(***************************************************************************)
(* market.events, the batch being what was delivered after handled.        *)
(***************************************************************************)
ReadNext ==
    /\ up = "on" /\ handled = group /\ group < Len(log)
    /\ group' = Len(log)
    /\ UNCHANGED <<eventVars, wsVars, up, handled, tracked, feed, connected, counts, history>>

(* The answer of XREADGROUP is lost: what it delivered is not read again.   *)
ReadLost ==
    /\ MayFail /\ up = "on" /\ handled = group /\ group < Len(log)
    /\ group' = Len(log) /\ handled' = group'
    /\ unheard' = unheard \cup {log[i].market : i \in group + 1 .. Len(log)}
    /\ UNCHANGED <<eventVars, wsVars, up, tracked, feed, connected, counts,
                   persisted, traded, spoiled, silent, revived, straddled>>

(* register: a market that is tracked has its record replaced.              *)
Register(m) ==
    /\ tracked' = [tracked EXCEPT ![m] = "known"]
    /\ IF tracked[m] = None THEN Subscribe({m}) ELSE UNCHANGED wsVars
    /\ UNCHANGED <<books, due, pendingVolume, updates, spoiled, revived, straddled>>

IgnoresUnknown(m) ==     \* wrong: a market that is not tracked stays so
    /\ revived' = revived \cup {m}
    /\ UNCHANGED <<tracked, wsVars, books, due, pendingVolume, updates, spoiled, straddled>>

(* MARKET_LIFECYCLE_CHANGED to active: no end time comes with it.           *)
Reactivate(m) ==
    /\ IF tracked[m] = None
       THEN tracked' = [tracked EXCEPT ![m] = "epoch"] /\ Subscribe({m})
       ELSE UNCHANGED <<tracked, wsVars>>
    /\ revived' = revived \cup {m}
    /\ UNCHANGED <<books, due, pendingVolume, updates, spoiled, straddled>>

InUpdate(m) == \E i \in DOMAIN updates : updates[i].market = m

Aged(m) == [i \in DOMAIN updates |->
              IF updates[i].market = m THEN [updates[i] EXCEPT !.old = TRUE] ELSE updates[i]]

(* And to inactive: unregister and unsubscribe; the books and the throttle  *)
(* are dropped unless the send throws.  Calls of before go on.              *)
KeepsBooks(m) ==      \* wrong: orderBookState.delete forgotten
    /\ tracked' = [tracked EXCEPT ![m] = None]
    /\ IF tracked[m] = None THEN UNCHANGED wsVars ELSE Unsubscribe({m})
    /\ due' = [due EXCEPT ![m] = TRUE]
    /\ pendingVolume' = [pendingVolume EXCEPT ![m] = 0]
    /\ books' = [books EXCEPT ![m] = [side \in Sides |-> IF @[side] = None THEN None ELSE "old"]]
    /\ updates' = Aged(m)
    /\ spoiled' = IF pendingVolume[m] > 0 THEN spoiled \cup {m} ELSE spoiled
    /\ straddled' = IF InUpdate(m) THEN straddled \cup {m} ELSE straddled
    /\ UNCHANGED revived

Drop(m) ==
    LET throws == tracked[m] # None /\ SendThrows({m})
    IN  /\ tracked' = [tracked EXCEPT ![m] = None]
        /\ IF tracked[m] = None THEN UNCHANGED wsVars ELSE Unsubscribe({m})
        /\ IF throws
           THEN UNCHANGED <<due, pendingVolume>>
           ELSE due' = [due EXCEPT ![m] = TRUE] /\ pendingVolume' = [pendingVolume EXCEPT ![m] = 0]
        /\ books' = [books EXCEPT ![m] = [side \in Sides |->
                        IF throws /\ @[side] # None THEN "old" ELSE None]]
        /\ updates' = Aged(m)
        /\ spoiled' = IF pendingVolume[m] > 0 THEN spoiled \cup {m} ELSE spoiled
        /\ straddled' = IF throws \/ InUpdate(m) THEN straddled \cup {m} ELSE straddled
        /\ UNCHANGED revived

HandleScannerEvent(event) ==
    LET m == event.market
    IN  IF event.active
        THEN IF event.type = "MARKET_DISCOVERED" THEN Register(m) ELSE Reactivate(m)
        ELSE IF event.type = "MARKET_DISCOVERED"
             THEN UNCHANGED <<tracked, wsVars, books, due, pendingVolume, updates, spoiled, revived, straddled>>
             ELSE Drop(m)

(* One message of a batch; its ack follows, and nothing hangs on it.        *)
Handle ==
    /\ up = "on" /\ handled < group
    /\ handled' = handled + 1
    /\ HandleScannerEvent(log[handled'])
    /\ UNCHANGED <<eventVars, up, group, connected, counts, persisted, traded, unheard, silent>>

-----------------------------------------------------------------------------
(***************************************************************************)
(* Books and trades.                                                       *)
(***************************************************************************)
Arrives(m) ==
    /\ tracked[m] # None
    /\ \E s \in Slots : sockets[s] = "open" /\ m \in served[s]
    /\ connected' = TRUE

BookArrives(m, side) ==
    /\ Arrives(m)
    /\ Len(updates) < MaxBooks
    /\ updates' = Append(updates, [market |-> m, side |-> side, old |-> FALSE, volume |-> 0,
                                   mixed |-> FALSE, pc |-> "publish"])
    /\ UNCHANGED <<eventVars, wsVars, listener, tracked, books, due, pendingVolume,
                   counts, history>>

InTurn(i) == \A j \in 1..i - 1 : updates[j].pc # updates[i].pc

Gone(i) == updates' = SubSeq(updates, 1, i - 1) \o SubSeq(updates, i + 1, Len(updates))

(* The rest, once the summary is cached and the update published, or either *)
(* has rejected: the book is kept, and a tick is made if the throttle allows*)
(* and both sides are known, which takes the volume there is.               *)
Kept(i) == [books EXCEPT ![updates[i].market][updates[i].side] = IF updates[i].old THEN "old" ELSE "new"]

BuildsTick(m, kept) == due[m] /\ \A side \in Sides : kept[m][side] # None

Aggregate(i) ==
    LET m == updates[i].market
    IN  /\ books' = Kept(i)
        /\ IF BuildsTick(m, books')
           THEN /\ due' = [due EXCEPT ![m] = FALSE]
                /\ updates' = [updates EXCEPT ![i] =
                      [@ EXCEPT !.pc = "tick", !.volume = pendingVolume[m],
                                !.mixed = \E side \in Sides : books'[m][side] = "old"]]
                /\ pendingVolume' = [pendingVolume EXCEPT ![m] = 0]
           ELSE Gone(i) /\ UNCHANGED <<due, pendingVolume>>

Published(i) ==
    /\ updates[i].pc = "publish" /\ InTurn(i)
    /\ Aggregate(i)
    /\ UNCHANGED <<eventVars, wsVars, listener, tracked, connected, counts, history>>

(* persistTick: the tick is inserted, and the update ends with snapshots of *)
(* the sides and MARKET_TICK; or its insert rejects.                        *)
TickInserted(i) ==
    /\ updates[i].pc = "tick" /\ Gone(i)
    /\ persisted' = [persisted EXCEPT ![updates[i].market] = @ + updates[i].volume]
    /\ UNCHANGED <<eventVars, wsVars, listener, tracked, books, due, pendingVolume, connected, counts,
                   traded, spoiled, unheard, silent, revived, straddled>>

TickFails(i) ==
    /\ MayFail /\ updates[i].pc = "tick" /\ Gone(i)
    /\ spoiled' = spoiled \cup {updates[i].market}
    /\ UNCHANGED <<eventVars, wsVars, listener, tracked, books, due, pendingVolume, connected, counts,
                   persisted, traded, unheard, silent, revived, straddled>>

(* intervalMs passes.                                                       *)
Interval(m) ==
    /\ ~due[m] /\ due' = [due EXCEPT ![m] = TRUE]
    /\ UNCHANGED <<eventVars, wsVars, listener, tracked, books, pendingVolume, updates,
                   connected, counts, history>>

(* dispatch: a trade whose price is no number is dropped, one whose size is *)
(* missing or no number is taken for one of size 0.                         *)
TradeSizes == {0, 1}

(* handleTrade: its size counts at once, even if buildRecentTrade refuses   *)
(* the trade; its row and its event follow, and nothing here reads them.    *)
TradeArrives(m) ==
    /\ Arrives(m)
    /\ trades < MaxTrades /\ trades' = trades + 1
    /\ \E size \in TradeSizes :
          /\ pendingVolume' = [pendingVolume EXCEPT ![m] = @ + size]
          /\ traded' = [traded EXCEPT ![m] = @ + size]
    /\ UNCHANGED <<eventVars, wsVars, listener, tracked, books, due, updates, restarts,
                   persisted, spoiled, unheard, silent, revived, straddled>>

-----------------------------------------------------------------------------
(* The socket: the handlers of its events follow them.                      *)
SocketStep ==
    /\ up = "on"
    /\ \/ ReconnectTimer /\ UNCHANGED connected
       \/ \E s \in Slots : Opened(s) /\ connected' = (connected \/ retrying)
       \/ \E s \in Slots : SocketClosed(s) /\ connected' = FALSE
    /\ UNCHANGED <<eventVars, listener, tracked, feed, counts, history>>

(* The scanner and the settlement worker, and whose turns they announce.    *)
Told(m) == Len(log') > Len(log) /\ news.market = m /\ news.active = live'[m]

EventsStep ==
    /\ EventsNext /\ Len(log') <= MaxEvents
    /\ silent' = {m \in Markets : ~Told(m) /\ (m \in silent \/ live'[m] # live[m])}
    /\ UNCHANGED <<wsVars, listener, tracked, feed, connected, counts,
                   persisted, traded, spoiled, unheard, revived, straddled>>

UpdateStep(i) ==
    Published(i) \/ TickInserted(i) \/ TickFails(i)

StreamStep == Boot \/ Start \/ ReadNext \/ Handle

Next ==
    \/ StreamStep \/ ReadLost \/ Restart \/ SocketStep
    \/ \E i \in DOMAIN updates : UpdateStep(i)
    \/ \E m \in Markets :
          \/ \E side \in Sides : BookArrives(m, side)
          \/ TradeArrives(m) \/ Interval(m)
    \/ EventsStep

Spec == Init /\ [][Next]_vars

-----------------------------------------------------------------------------
(***************************************************************************)
(* What market-stream promises.                                            *)
(***************************************************************************)
CaughtUp == up = "on" /\ handled = Len(log)

(* A market is tracked exactly while its row is active, restarts, lost      *)
(* batches and old events that come after the bootstrap included, if the    *)
(* row's last turn was announced and no event of it went unheard.           *)
TrackedFollowsRows ==
    CaughtUp => \A m \in Markets :
        m \notin silent \cup unheard => (tracked[m] # None) = (live[m] = TRUE)

(* The same of the socket: what is asked of Polymarket is what is tracked.  *)
FeedFollowsTracked ==
    up = "on" =>
        /\ wanted = {m \in Markets : tracked[m] # None}
        /\ OneSocket /\ ServedIsWanted
        /\ connected => \E s \in Slots : sockets[s] = "open"

(* The epoch stands for an end time only of a market that a lifecycle event *)
(* reactivated since the service was started.                               *)
EndTimeUnlessRevived ==
    \A m \in Markets : tracked[m] = "epoch" => m \in revived

(* A tick is made of books of the time the market has been tracked, unless  *)
(* it was dropped while an update of it was being handled, or while the     *)
(* socket was connecting.                                                   *)
TicksAreOfLiveBooks ==
    \A i \in DOMAIN updates :
        updates[i].pc = "tick" /\ updates[i].mixed => updates[i].market \in straddled

(* Volume counts in one tick: never in two, whatever fails, and in none only*)
(* if an insert failed, the market was dropped or the service restarted.    *)
InTicks(m) ==
    LET volume[i \in 0..Len(updates)] ==
            IF i = 0 THEN 0
            ELSE volume[i - 1] + (IF updates[i].market = m /\ updates[i].pc = "tick"
                                  THEN updates[i].volume ELSE 0)
    IN  volume[Len(updates)]

VolumeCountsOnce ==
    \A m \in Markets :
        LET counted == persisted[m] + InTicks(m) + pendingVolume[m]
        IN  counted <= traded[m] /\ (m \notin spoiled => counted = traded[m])

(* Whichever of updates, lifecycle events, failing inserts and restarts come*)
(* between two awaits: an end time is unknown only of a market that a       *)
(* lifecycle event reactivated, a tick has a book of an earlier life only   *)
(* of a market that was dropped under an update of it, or while the socket  *)
(* was connecting, and no volume counts twice.                              *)
StreamInv ==
    StreamTypeOK /\ EndTimeUnlessRevived /\ TicksAreOfLiveBooks /\ VolumeCountsOnce
=============================================================================
