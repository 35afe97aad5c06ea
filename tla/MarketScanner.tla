----------------------------- MODULE MarketScanner -----------------------------
(***************************************************************************)
(* MarketScanner.scanOnce of services/market-scanner: a pass over the      *)
(* markets that Polymarket lists, which upserts their rows of the markets  *)
(* table and publishes what is new or has changed on market.events.  Rows  *)
(* are also written by others, between any two awaits of a scan.           *)
(*                                                                         *)
(* A discovery is read in one step, and may miss a market: Discovery has   *)
(* its pages, their retries and the listings that are accepted.            *)
(***************************************************************************)
EXTENDS Naturals, Sequences, FiniteSets

CONSTANTS
    Markets,
    MaxScans,       \* bound on the scans
    ActiveIfClosed, \* what Polymarket may list as active of a closed market
    MayFail,        \* TRUE: an await may reject, a process may be restarted
    None            \* "no row", "no listing", "no winner"

Sides    == {"YES", "NO"}
Flags    == [active : BOOLEAN, closed : BOOLEAN, resolved : BOOLEAN]
Listings == [active : BOOLEAN, closed : BOOLEAN, winner : Sides \cup {None}]
Events   == [type : {"MARKET_DISCOVERED", "MARKET_LIFECYCLE_CHANGED"},
             market : Markets, next : Flags]

ASSUME ScannerAssumption ==
    /\ MaxScans \in Nat
    /\ ActiveIfClosed \subseteq BOOLEAN
    /\ MayFail \in BOOLEAN
    /\ None \notin Markets \cup Sides \cup Flags \cup Listings

VARIABLES
    exchange,   \* what Polymarket lists of a market, or None
    winner,     \* the side that won there, or None: never taken back
    expired,    \* markets whose endTime has passed
    rows,       \* the flags of their rows of markets, or None
    scan,       \* where scanOnce is
    found,      \* raw: the listings of this scan
    believed,   \* previouslyActiveById: rows that were active as it began
    pending,    \* markets this loop of the scan has not come to
    item,       \* the market it is at, and its priorRow
    log,        \* market.events
    scans       \* scans begun, capped by MaxScans

scannerVars == <<scan, found, believed, pending, item, log, scans>>
worldVars   == <<exchange, winner, expired>>

ScanPc  == {"idle", "list", "items", "upsert", "publish", "missing", "vanished"}
NoItem  == [market |-> None, prior |-> None]
Items   == [market : Markets, prior : Flags \cup {None}]

ScannerTypeOK ==
    /\ exchange \in [Markets -> Listings \cup {None}]
    /\ winner \in [Markets -> Sides \cup {None}]
    /\ expired \subseteq Markets
    /\ rows \in [Markets -> Flags \cup {None}]
    /\ scan \in ScanPc
    /\ found \in [Markets -> Listings \cup {None}]
    /\ believed \in [Markets -> Flags \cup {None}]
    /\ pending \subseteq Markets
    /\ item \in Items \cup {NoItem}
    /\ log \in Seq(Events)
    /\ scans \in 0..MaxScans

Nothing == [m \in Markets |-> None]

ScannerInit ==
    /\ exchange = Nothing
    /\ winner = Nothing
    /\ expired = {}
    /\ rows = Nothing
    /\ scan = "idle"
    /\ found = Nothing
    /\ believed = Nothing
    /\ pending = {}
    /\ item = NoItem
    /\ log = <<>>
    /\ scans = 0

-----------------------------------------------------------------------------
(***************************************************************************)
(* Polymarket and the clock.                                               *)
(***************************************************************************)
List(m) ==
    /\ exchange[m] = None /\ winner[m] = None /\ m \notin expired
    /\ exchange' = [exchange EXCEPT ![m] = [active |-> TRUE, closed |-> FALSE, winner |-> None]]
    /\ UNCHANGED <<winner, expired>>

Expire(m) ==
    /\ exchange[m] # None
    /\ expired' = expired \cup {m}
    /\ UNCHANGED <<exchange, winner>>

Close(m) ==
    /\ m \in expired /\ exchange[m] # None /\ ~exchange[m].closed
    /\ \E active \in ActiveIfClosed :
          exchange' = [exchange EXCEPT ![m] = [@ EXCEPT !.closed = TRUE, !.active = active]]
    /\ UNCHANGED <<winner, expired>>

Resolve(m) ==
    /\ exchange[m] # None /\ exchange[m].closed /\ winner[m] = None
    /\ \E side \in Sides :
          /\ winner' = [winner EXCEPT ![m] = side]
          /\ exchange' = [exchange EXCEPT ![m].winner = side]
    /\ UNCHANGED expired

Delist(m) ==
    /\ m \in expired /\ exchange[m] # None
    /\ exchange' = [exchange EXCEPT ![m] = None]
    /\ UNCHANGED <<winner, expired>>

WorldStep(m) ==
    /\ List(m) \/ Expire(m) \/ Close(m) \/ Resolve(m) \/ Delist(m)
    /\ UNCHANGED <<rows, scannerVars>>

-----------------------------------------------------------------------------
(***************************************************************************)
(* scanOnce.                                                               *)
(***************************************************************************)
Listed(listing) == listing # None

(* normalizeMarket's flags: resolved needs a closed market with a winner.   *)
FlagsOf(listing) ==
    [active |-> listing.active, closed |-> listing.closed,
     resolved |-> listing.closed /\ listing.winner # None]

IsActive(row) == row # None /\ row.active /\ ~row.closed

(* fetchAllPages: the pages may end, or shift, before a market is seen.     *)
FetchAllPages ==
    /\ scan = "idle" /\ scan' = "list"
    /\ scans < MaxScans /\ scans' = scans + 1
    /\ \E missed \in SUBSET Markets :
          found' = [m \in Markets |-> IF m \in missed THEN None ELSE exchange[m]]
    /\ UNCHANGED <<worldVars, rows, believed, pending, item, log>>

ListActive ==
    /\ scan = "list" /\ scan' = "items"
    /\ believed' = [m \in Markets |-> IF IsActive(rows[m]) THEN rows[m] ELSE None]
    /\ pending' = {m \in Markets : Listed(found[m])}
    /\ UNCHANGED <<worldVars, rows, found, item, log, scans>>

(* priorRow: the row read as the scan began, or else the row now.           *)
OnlyBelieved(m) == believed[m]    \* wrong: findByConditionId forgotten
PriorRow(m)     == IF believed[m] # None THEN believed[m] ELSE rows[m]

FindPrior(m) ==
    /\ scan = "items" /\ m \in pending
    /\ scan' = "upsert"
    /\ pending' = pending \ {m}
    /\ item' = [market |-> m, prior |-> PriorRow(m)]
    /\ UNCHANGED <<worldVars, rows, found, believed, log, scans>>

(* upsertByConditionId overwrites the flags of the row, whoever set them.   *)
Upsert ==
    LET m    == item.market
        next == FlagsOf(found[m])
    IN  /\ scan = "upsert"
        /\ rows' = [rows EXCEPT ![m] = next]
        /\ scan' = IF item.prior = next THEN "items" ELSE "publish"
        /\ UNCHANGED <<worldVars, found, believed, pending, item, log, scans>>

Publish(type, flags) ==
    log' = Append(log, [type |-> type, market |-> item.market, next |-> flags])

RowPublished ==      \* wrong: whether it is new is asked of the row that was written
    /\ scan = "publish" /\ scan' = "items"
    /\ Publish(IF rows[item.market] = None THEN "MARKET_DISCOVERED" ELSE "MARKET_LIFECYCLE_CHANGED",
               FlagsOf(found[item.market]))
    /\ UNCHANGED <<worldVars, rows, found, believed, pending, item, scans>>

PublishItem ==
    /\ scan = "publish" /\ scan' = "items"
    /\ Publish(IF item.prior = None THEN "MARKET_DISCOVERED" ELSE "MARKET_LIFECYCLE_CHANGED",
               FlagsOf(found[item.market]))
    /\ UNCHANGED <<worldVars, rows, found, believed, pending, item, scans>>

(* A market that was active and is not listed: closed, if its time is over. *)
TimeOver(m) == m \in expired

ItemsDone ==
    /\ scan = "items" /\ pending = {}
    /\ scan' = "missing"
    /\ pending' = {m \in Markets : believed[m] # None /\ ~Listed(found[m]) /\ TimeOver(m)}
    /\ item' = NoItem
    /\ UNCHANGED <<worldVars, rows, found, believed, log, scans>>

(* The row as updateLifecycleFlags leaves it, and publishes it.             *)
Vanish(m) ==
    /\ scan = "missing" /\ m \in pending
    /\ scan' = "vanished"
    /\ pending' = pending \ {m}
    /\ rows' = [rows EXCEPT ![m] = [@ EXCEPT !.active = FALSE, !.closed = TRUE]]
    /\ item' = [market |-> m, prior |-> rows'[m]]
    /\ UNCHANGED <<worldVars, found, believed, log, scans>>

PublishVanished ==
    /\ scan = "vanished" /\ scan' = "missing"
    /\ Publish("MARKET_LIFECYCLE_CHANGED", item.prior)
    /\ item' = NoItem
    /\ UNCHANGED <<worldVars, rows, found, believed, pending, scans>>

ScanEnds ==
    /\ scan' = "idle"
    /\ found' = Nothing /\ believed' = Nothing /\ pending' = {} /\ item' = NoItem
    /\ UNCHANGED <<worldVars, rows, log, scans>>

ScanDone == scan = "missing" /\ pending = {} /\ ScanEnds

(* An await rejects, which ends the scan, or the process is restarted.      *)
ScanFails == MayFail /\ scan # "idle" /\ ScanEnds

ScanStep ==
    \/ FetchAllPages \/ ListActive \/ Upsert \/ PublishItem \/ ItemsDone \/ PublishVanished
    \/ ScanDone \/ \E m \in Markets : FindPrior(m) \/ Vanish(m)

-----------------------------------------------------------------------------
(***************************************************************************)
(* What the scanner promises of rows and events.                           *)
(***************************************************************************)
(* Flags are never ahead of the exchange: a row is resolved only for a known*)
(* winner, and closed only when the exchange has closed it or its time is   *)
(* over; a page that misses a market in mid-life closes nothing.            *)
FlagsAreGenuine ==
    \A m \in Markets : rows[m] # None =>
        /\ rows[m].resolved => winner[m] # None
        /\ rows[m].closed => m \in expired

(* A market is discovered once, however often scans fail and markets come   *)
(* and go: a second MARKET_DISCOVERED would subscribe it again.             *)
DiscoveredOnce ==
    \A i, j \in DOMAIN log :
        /\ log[i].type = "MARKET_DISCOVERED" /\ log[j].type = "MARKET_DISCOVERED"
        /\ log[i].market = log[j].market
        => i = j

(* Why: what a scan has read is as genuine as what it writes, a market it   *)
(* is at was listed, and an event comes after its row.                      *)
Genuine(m, listing) == listing # None =>
    /\ listing.closed => m \in expired
    /\ listing.winner # None => winner[m] # None

ListingsAreGenuine ==
    \A m \in Markets :
        /\ Genuine(m, exchange[m]) /\ Genuine(m, found[m])
        /\ winner[m] # None => m \in expired

ItemIsListed ==
    /\ \A m \in Markets : believed[m] # None => rows[m] # None
    /\ scan = "items" => \A m \in pending : found[m] # None
    /\ scan = "missing" => \A m \in pending : m \in expired /\ rows[m] # None
    /\ scan = "vanished" =>
          /\ item.market \in Markets /\ item.prior # None
          /\ \A m \in pending : m \in expired /\ rows[m] # None
    /\ scan \in {"upsert", "publish"} =>
          /\ item.market \in Markets /\ found[item.market] # None
          /\ \A m \in pending : found[m] # None

Discovered(m) == \E i \in DOMAIN log : log[i].type = "MARKET_DISCOVERED" /\ log[i].market = m

EventsFollowRows ==
    /\ \A m \in Markets : Discovered(m) => rows[m] # None
    /\ scan = "publish" => rows[item.market] # None
    /\ scan \in {"upsert", "publish"} /\ item.prior = None => ~Discovered(item.market)

ScanInv ==
    FlagsAreGenuine /\ DiscoveredOnce /\ ListingsAreGenuine /\ ItemIsListed /\ EventsFollowRows
=============================================================================
