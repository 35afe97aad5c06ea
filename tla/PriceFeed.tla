------------------------------- MODULE PriceFeed -------------------------------
(***************************************************************************)
(* The underlying price on its way to an order: Coinbase's socket in       *)
(* market-stream, the cache it writes beside its countdowns, and a request *)
(* of apps/api that reads both.  market-stream and the API each have their *)
(* RedisLink.  One asset; the prices themselves are not modelled, only     *)
(* their age, and of the prices of one tick the last one.                  *)
(***************************************************************************)
EXTENDS RedisLink

CONSTANTS
    stream, api,    \* the two processes
    MaxAge,         \* DEFAULT_UNDERLYING_MAX_AGE_MS in ticks
    ActiveMarkets,  \* how many markets tickCountdowns goes through
    Trips,          \* commands between the answer with the price and a fill
    MaxAway,        \* ticks an order spends in between on anything but commands
    LinkMayFail     \* TRUE: market-stream's connection to Redis may be lost

ASSUME FeedAssumption ==
    /\ Processes = {stream, api} /\ stream # api
    /\ Readers \cap {"price", "countdown", "request"} = {}
    /\ MaxAge \in Nat /\ ActiveMarkets \in Nat \ {0} /\ Trips \in Nat \ {0}
    /\ MaxAway \in Nat
    /\ LinkMayFail \in BOOLEAN

VARIABLES
    priceSocket,    \* this.socket: its readyState, or "none"
    priceTimer,     \* reconnectTimer is armed
    priceConnected,
    cachedAge,      \* ticks since the cached price was received: Forgotten and more are one
    heard,          \* a price was received in this tick
    fed,            \* (history) ticks with a price each, since a write failed
    request,        \* of an order: "none", how far it is, or "filled"
    priceAge,       \* ticks since the price it took was received
    tripsLeft,
    away            \* ticks since it took it with no command in line (history)

coinbaseVars == <<priceSocket, priceTimer, priceConnected>>
requestVars  == <<request, priceAge, tripsLeft, away>>
priceVars    == <<linkVars, coinbaseVars, cachedAge, heard, fed, requestVars>>

Larger(m, n) == IF m > n THEN m ELSE n
Smaller(m, n) == IF m < n THEN m ELSE n
Forgotten == Larger(MaxAge, LongestWait(stream) + 1) + 1
FedEnough == LongestWait(stream) + 2

PriceTypeOK ==
    /\ \A p \in Processes : \A i \in DOMAIN line[p] :
          /\ line[p][i].by \in OwnReaders(p) \cup (IF p = stream THEN {"price", "countdown"} ELSE {"request"})
          /\ line[p][i].waited \in Nat /\ line[p][i].made \in Nat
    /\ blocked \in [Processes -> 0..Block]
    /\ loop \in [Readers -> {"ready", "reading", "acking", "resting"}]
    /\ priceSocket \in {"none", "connecting", "open"}
    /\ priceTimer \in BOOLEAN /\ priceConnected \in BOOLEAN /\ heard \in BOOLEAN
    /\ cachedAge \in 0..Forgotten /\ fed \in 0..FedEnough
    /\ request \in {"none", "reading", "stale", "fresh", "checked", "filled"}
    /\ priceAge \in Nat /\ tripsLeft \in 0..Trips /\ away \in 0..MaxAway

PriceInit ==
    /\ LinkInit
    /\ priceSocket = "connecting" /\ priceTimer = FALSE /\ priceConnected = FALSE
    /\ cachedAge = Forgotten /\ heard = FALSE /\ fed = 0
    /\ request = "none" /\ priceAge = 0 /\ tripsLeft = 0 /\ away = 0

-----------------------------------------------------------------------------
(***************************************************************************)
(* CoinbaseUnderlyingPriceSource, after start().                           *)
(***************************************************************************)
CoinbaseOpened ==
    /\ priceSocket = "connecting"
    /\ priceSocket' = "open" /\ priceConnected' = TRUE
    /\ UNCHANGED <<linkVars, priceTimer, cachedAge, heard, fed, requestVars>>

(* "close", which an "error" is followed by.                                *)
CoinbaseClosed ==
    /\ priceSocket # "none"
    /\ priceSocket' = "none" /\ priceConnected' = FALSE
    /\ priceTimer' = TRUE
    /\ UNCHANGED <<linkVars, cachedAge, heard, fed, requestVars>>

CoinbaseRetries ==
    /\ priceTimer /\ priceTimer' = FALSE
    /\ priceSocket' = "connecting"
    /\ UNCHANGED <<linkVars, priceConnected, cachedAge, heard, fed, requestVars>>

(* A ticker with a positive price is stamped with this clock and written.   *)
PriceReceived ==
    /\ priceSocket = "open" /\ ~heard
    /\ heard' = TRUE
    /\ Send(stream, Command("price", 0, 0))
    /\ UNCHANGED <<blocked, loop, coinbaseVars, cachedAge, fed, requestVars>>

(* The publish that follows the write is a command like any other.          *)
PriceWritten ==
    /\ Turn(stream, "price")
    /\ cachedAge' = Smaller(Head(line[stream]).made, Forgotten)
    /\ Answer(stream)
    /\ UNCHANGED <<loop, coinbaseVars, heard, fed, requestVars>>

(* tickCountdowns: one clock reading, and the markets written one by one.   *)
(* The interval starts others meanwhile; one of them is followed here.      *)
CountdownsBegin ==
    /\ \A i \in DOMAIN line[stream] : line[stream][i].by # "countdown"
    /\ Send(stream, Command("countdown", 0, 1))
    /\ UNCHANGED <<blocked, loop, coinbaseVars, cachedAge, heard, fed, requestVars>>

CountdownWritten ==
    /\ Turn(stream, "countdown")
    /\ LET this == Head(line[stream])
       IN  IF this.nth = ActiveMarkets
           THEN Answer(stream)
           ELSE AnswerAndSend(stream, Command("countdown", this.made, this.nth + 1))
    /\ UNCHANGED <<loop, coinbaseVars, cachedAge, heard, fed, requestVars>>

-----------------------------------------------------------------------------
(***************************************************************************)
(* An order's request: assembleMarketAndPortfolio, a second look at the    *)
(* book, the risk engine, and the awaits of the order manager and the      *)
(* adapter up to the fill.  Between two commands it is away: at the        *)
(* database, at the chain for the balance, or in the adapter's sleeps.     *)
(***************************************************************************)
RequestBegins ==
    /\ request \in {"none", "filled"} /\ request' = "reading"
    /\ Send(api, Command("request", 0, 0))
    /\ priceAge' = 0 /\ tripsLeft' = Trips /\ away' = 0
    /\ UNCHANGED <<blocked, loop, coinbaseVars, cachedAge, heard, fed>>

(* isStale compares with the clock of the answer, not of the request.       *)
ByOldClock(age, waited) == age - waited <= MaxAge   \* wrong: the now of the request is passed on
IsFresh(age, waited)    == age <= MaxAge

TakePrice(age) ==
    IF IsFresh(age, Head(line[api]).waited)
    THEN request' = "fresh" /\ priceAge' = age
    ELSE request' = "stale" /\ priceAge' = 0

RequestReads ==
    /\ request = "reading" /\ Turn(api, "request")
    /\ TakePrice(cachedAge)
    /\ Answer(api)
    /\ UNCHANGED <<loop, coinbaseVars, cachedAge, heard, fed, tripsLeft, away>>

IsAway == \A i \in DOMAIN line[api] : line[api][i].by # "request"

RequestSends ==
    /\ request \in {"stale", "fresh", "checked"} /\ IsAway /\ tripsLeft > 0
    /\ Send(api, Command("request", 0, 0))
    /\ UNCHANGED <<blocked, loop, coinbaseVars, cachedAge, heard, fed, requestVars>>

(* The first of its commands is the second look at the book, after which the*)
(* engine turns a request without a price away, or any other one.           *)
RequestGoesOn ==
    /\ request \in {"stale", "fresh", "checked"} /\ Turn(api, "request")
    /\ tripsLeft' = tripsLeft - 1
    /\ \/ request # "stale" /\ request' = "checked" /\ UNCHANGED <<priceAge, away>>
       \/ request # "checked" /\ request' = "none" /\ priceAge' = 0 /\ away' = 0
    /\ Answer(api)
    /\ UNCHANGED <<loop, coinbaseVars, cachedAge, heard, fed>>

RequestFills ==
    /\ request = "checked" /\ IsAway /\ tripsLeft = 0
    /\ request' = "filled"
    /\ UNCHANGED <<linkVars, coinbaseVars, cachedAge, heard, fed, priceAge, tripsLeft, away>>

-----------------------------------------------------------------------------
(* What was being written is not written again.  The API's connection is    *)
(* kept: a request whose command rejects is answered with an error.         *)
WritesAreLost ==
    /\ LinkMayFail /\ Lost(stream)
    /\ fed' = 0
    /\ UNCHANGED <<coinbaseVars, cachedAge, heard, requestVars>>

HoldsPrice == request \in {"fresh", "checked"}

PriceTick ==
    /\ LinkTick
    /\ heard' = FALSE
    /\ fed' = IF heard THEN Smaller(fed + 1, FedEnough) ELSE 0
    /\ cachedAge' = Smaller(cachedAge + 1, Forgotten)
    /\ IF HoldsPrice
       THEN /\ priceAge' = priceAge + 1
            /\ IF IsAway THEN away < MaxAway /\ away' = away + 1 ELSE UNCHANGED away
       ELSE UNCHANGED <<priceAge, away>>
    /\ UNCHANGED <<coinbaseVars, request, tripsLeft>>

ReaderStep ==
    /\ \E r \in Readers : Ask(r) \/ Answered(r)
    /\ UNCHANGED <<coinbaseVars, cachedAge, heard, fed, requestVars>>

CoinbaseStep == CoinbaseOpened \/ CoinbaseClosed \/ CoinbaseRetries

PriceNext ==
    \/ ReaderStep \/ CoinbaseStep \/ PriceTick
    \/ PriceReceived \/ PriceWritten \/ CountdownsBegin \/ CountdownWritten
    \/ RequestBegins \/ RequestReads \/ RequestSends \/ RequestGoesOn \/ RequestFills
    \/ WritesAreLost

PriceSpec == PriceInit /\ [][PriceNext]_priceVars

-----------------------------------------------------------------------------
(* The feed never gives up: there is a socket or a timer to open one, and it*)
(* calls itself connected only on an open socket.                           *)
FeedNeverGivesUp ==
    /\ priceSocket # "none" \/ priceTimer
    /\ priceConnected => priceSocket = "open"

(* Fed once a tick, the cache is no older than the longest wait and a tick: *)
(* longer than MaxAge when the read alone blocks for that long.             *)
CacheIsFed == fed = FedEnough => cachedAge <= LongestWait(stream) + 1

(* The countdown of the n-th market is written at most n waits old.         *)
CountdownAge ==
    \A i \in DOMAIN line[stream] :
        line[stream][i].by = "countdown" =>
            line[stream][i].made <= line[stream][i].nth * LongestWait(stream)

(* An order is filled on a price that was fresh at the clock of its answer, *)
(* not at that of the request, and that nothing looks at again: it is older *)
(* by one longest wait for each command up to the fill, the second look at  *)
(* the book among them, and by all the time in which none was in line.      *)
FilledOnRecentPrice ==
    request # "none" => priceAge <= MaxAge + Trips * LongestWait(api) + away

(* However the reads of one connection get in each other's way and sockets  *)
(* come and go, prices and countdowns are no older than the waits add up to.*)
PriceInv == PriceTypeOK /\ WaitIsBounded /\ FeedNeverGivesUp /\ CacheIsFed /\ CountdownAge
=============================================================================
