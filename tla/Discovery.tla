------------------------------- MODULE Discovery -------------------------------
(***************************************************************************)
(* How the scanner gets to know what Polymarket lists: fetchAllPages and   *)
(* normalizeAndFilter of MarketScanner, listMarkets of PolymarketRestClient *)
(* with its timeout and retries, and the detection of supported markets.   *)
(* MarketScanner takes all this as one step.                               *)
(*                                                                         *)
(* The exchange is external: a cursor is taken for an offset, entries are  *)
(* added and removed while pages are read, and the last page may come with *)
(* a cursor of its own.  Back-off delays are left out.  Times are seconds. *)
(***************************************************************************)
EXTENDS Integers, Sequences, FiniteSets

CONSTANTS
    Entries,        \* entries the exchange may list
    RawOf,          \* what listMarkets gets of each
    FirstListings,  \* what the exchange may list to begin with
    MaxListed,      \* bound on the length of its list
    PageSize,
    MaxPages,       \* config.maxPages
    ListAttempts,   \* config.maxAttempts of the REST client
    EnabledAssets,  \* config.assets
    NoCursor, NoAsset

Assets == {"BTC", "ETH"}

(* An entry, as far as it is looked at: whether the schema admits it, the   *)
(* assets that question and slug name, the first dollar amount and whether a*)
(* threshold is spoken of, its times (0: missing or unreadable), its tokens *)
(* and its flags.                                                           *)
RawMarkets ==
    [valid : BOOLEAN, names : SUBSET Assets, dollars : {"none", "zero", "number"},
     threshold : BOOLEAN, start : Nat, end : Nat, outcomes : SUBSET {"yes", "no", "other"},
     active : BOOLEAN, closed : BOOLEAN, won : BOOLEAN]

ASSUME DiscoveryAssumption ==
    /\ RawOf \in [Entries -> RawMarkets]
    /\ FirstListings \subseteq Seq(Entries)
    /\ {MaxListed, PageSize, MaxPages, ListAttempts} \subseteq Nat \ {0}
    /\ EnabledAssets \subseteq Assets
    /\ NoCursor \notin Nat /\ NoAsset \notin Assets

VARIABLES
    listing,        \* what the exchange lists, in the order of its pages
    fetch,          \* "idle", "call", "backoff", "done", "failed"
    page, attemptNo,  \* of the fetch that runs
    cursor,         \* of the page that is asked for
    all,            \* the entries of the pages read, malformed ones dropped
    calls,          \* (history) requests sent by this fetch
    refused,        \* (history) one of them met an error not to be retried
    shifted         \* (history) the list has changed since this fetch began

discoveryVars == <<listing, fetch, page, attemptNo, cursor, all, calls, refused, shifted>>

DiscoveryTypeOK ==
    /\ listing \in Seq(Entries)
    /\ fetch \in {"idle", "call", "backoff", "done", "failed"}
    /\ page \in 1..MaxPages /\ attemptNo \in 1..ListAttempts
    /\ cursor \in Nat
    /\ all \in Seq(Entries)
    /\ calls \in Nat
    /\ refused \in BOOLEAN /\ shifted \in BOOLEAN

DiscoveryInit ==
    /\ listing \in FirstListings
    /\ fetch = "idle" /\ page = 1 /\ attemptNo = 1 /\ cursor = 0
    /\ all = <<>> /\ calls = 0
    /\ refused = FALSE /\ shifted = FALSE

-----------------------------------------------------------------------------
(* The exchange: a new entry comes first, any entry may go.                 *)
Elements(s) == {s[i] : i \in DOMAIN s}
Without(s, i) == SubSeq(s, 1, i - 1) \o SubSeq(s, i + 1, Len(s))

Shift ==
    /\ \/ \E e \in Entries \ Elements(listing) :
             Len(listing) < MaxListed /\ listing' = <<e>> \o listing
       \/ \E i \in DOMAIN listing : listing' = Without(listing, i)
    /\ shifted' = TRUE
    /\ UNCHANGED <<fetch, page, attemptNo, cursor, all, calls, refused>>

(* A page and the cursor that comes with it; some answer the last page with *)
(* a cursor to an empty one.                                                *)
Stretch(m, n)  == SubSeq(listing, m, IF n <= Len(listing) THEN n ELSE Len(listing))
PageAt(offset) == Stretch(offset + 1, offset + PageSize)
NextCursors(offset) ==
    IF offset + PageSize < Len(listing) THEN {offset + PageSize} ELSE {NoCursor, Len(listing)}

-----------------------------------------------------------------------------
(* PolymarketRestClient: a call of withRetry.                               *)
FetchAll ==
    /\ fetch \in {"idle", "done", "failed"}
    /\ fetch' = "call" /\ page' = 1 /\ attemptNo' = 1 /\ cursor' = 0
    /\ all' = <<>> /\ calls' = 1
    /\ refused' = FALSE /\ shifted' = FALSE
    /\ UNCHANGED listing

(* classifyError, by the status if there is one.                            *)
Classes == {"timeout", "network", "rate_limit", "server", "auth", "request"}
MayRetry(class) == class \in {"timeout", "network", "rate_limit", "server"}

CallFails(class) ==
    /\ fetch = "call"
    /\ fetch' = IF MayRetry(class) /\ attemptNo < ListAttempts THEN "backoff" ELSE "failed"
    /\ refused' = (refused \/ class \in {"auth", "request"})
    /\ UNCHANGED <<listing, page, attemptNo, cursor, all, calls, shifted>>

CallTimesOut      == CallFails("timeout")
CallErrors        == \E class \in Classes \ {"timeout"} : CallFails(class)

CallAgain ==
    /\ fetch = "backoff" /\ fetch' = "call"
    /\ attemptNo' = attemptNo + 1 /\ calls' = calls + 1
    /\ UNCHANGED <<listing, page, cursor, all, refused, shifted>>

(* listMarkets: what is no page is an error that is not retried.            *)
NotAPage ==
    /\ fetch = "call" /\ fetch' = "failed"
    /\ UNCHANGED <<listing, page, attemptNo, cursor, all, calls, refused, shifted>>

(* The loop of listMarkets and that of normalizeAndFilter: what is not      *)
(* wanted is dropped, one by one, and the rest stays in its order.          *)
Kept(s, wanted) ==
    LET kept[n \in 0..Len(s)] ==
            IF n = 0 THEN <<>>
            ELSE IF s[n] \in wanted THEN Append(kept[n - 1], s[n]) ELSE kept[n - 1]
    IN  kept[Len(s)]

(* Entries of another shape are dropped.                                    *)
Parsed == {e \in Entries : RawOf[e].valid}

(* fetchAllPages goes on as long as there is a cursor.                      *)
EndsWhenDropped(next) ==    \* wrong: a page without a usable entry taken for the last
    next = NoCursor \/ Kept(PageAt(cursor), Parsed) = <<>>
IsLastPage(next)      == next = NoCursor

AtCap == page = MaxPages

PageRead ==
    /\ fetch = "call"
    /\ all' = all \o Kept(PageAt(cursor), Parsed)
    /\ \E next \in NextCursors(cursor) :
          IF IsLastPage(next) \/ AtCap
          THEN fetch' = "done" /\ UNCHANGED <<page, attemptNo, cursor, calls>>
          ELSE /\ UNCHANGED fetch
               /\ page' = page + 1 /\ attemptNo' = 1 /\ cursor' = next /\ calls' = calls + 1
    /\ UNCHANGED <<listing, refused, shifted>>

(* What the client does by its timers; the rest is the exchange's.          *)
ClientMoves == CallTimesOut \/ CallAgain

DiscoveryNext == FetchAll \/ ClientMoves \/ CallErrors \/ NotAPage \/ PageRead \/ Shift

DiscoveryFairness == WF_discoveryVars(ClientMoves)

DiscoverySpec == DiscoveryInit /\ [][DiscoveryNext]_discoveryVars /\ DiscoveryFairness

-----------------------------------------------------------------------------
(***************************************************************************)
(* identifySupportedMarket and normalizeMarket.                            *)
(***************************************************************************)
FIVE_MINUTES       == 300
DURATION_TOLERANCE == 30

DetectAsset(raw) ==
    IF ("BTC" \in raw.names) = ("ETH" \in raw.names) THEN NoAsset
    ELSE IF "BTC" \in raw.names THEN "BTC" ELSE "ETH"

StrikeIsClear(raw) ==
    IF raw.dollars = "none" THEN ~raw.threshold ELSE raw.dollars = "number"

Lasts(raw) == raw.end - raw.start
LastsFiveMinutes(raw) ==
    /\ raw.start # 0 /\ raw.end # 0
    /\ Lasts(raw) \in 1..FIVE_MINUTES + DURATION_TOLERANCE
    /\ Lasts(raw) >= FIVE_MINUTES - DURATION_TOLERANCE

IsSupported(raw) == DetectAsset(raw) # NoAsset /\ LastsFiveMinutes(raw) /\ StrikeIsClear(raw)

(* normalizeAndFilter: what the scan goes on with.                          *)
IsAccepted(e) ==
    /\ IsSupported(RawOf[e]) /\ DetectAsset(RawOf[e]) \in EnabledAssets
    /\ {"yes", "no"} \subseteq RawOf[e].outcomes

MarketOf(e) ==
    LET raw == RawOf[e]
    IN  [id |-> e, asset |-> DetectAsset(raw), strike |-> raw.dollars = "number",
         active |-> raw.active, closed |-> raw.closed, resolved |-> raw.closed /\ raw.won]

Accepted == Kept(all, {e \in Entries : IsAccepted(e)})

Scanned == [i \in DOMAIN Accepted |-> MarketOf(Accepted[i])]

-----------------------------------------------------------------------------
(***************************************************************************)
(* Properties.                                                             *)
(***************************************************************************)
(* A fetch that saw no change of the list has every entry of the first      *)
(* MaxPages pages once and in its order, whatever was retried and wherever  *)
(* malformed entries lie: only the cap and a change can hide a market.      *)
PagesCoverListing ==
    fetch = "done" /\ ~shifted =>
        all = Kept(Stretch(1, MaxPages * PageSize), Parsed)

(* The exchange is asked a bounded number of times, and not again after it  *)
(* has refused.                                                             *)
AsksAreBounded ==
    /\ calls <= page * ListAttempts
    /\ refused => fetch = "failed"

(* Whatever else the exchange lists, what the scan goes on with is a market *)
(* of one asset, the only one it names, on which an order of that asset's   *)
(* five minutes can be placed: it has both tokens, and a strike if any price*)
(* is spoken of.                                                            *)
OnlyClearMarkets ==
    \A i \in DOMAIN Scanned :
        LET raw == RawOf[Scanned[i].id]
        IN  /\ raw.names = {Scanned[i].asset} /\ Scanned[i].asset \in EnabledAssets
            /\ {"yes", "no"} \subseteq raw.outcomes
            /\ raw.threshold \/ raw.dollars # "none" => Scanned[i].strike
            /\ raw.end - raw.start \in 270..330

(* A fetch ends, however the exchange answers or does not.                  *)
FetchEnds == fetch = "call" ~> fetch \in {"done", "failed"}

(* What a fetch hands to the scan is all there is on its pages, and only    *)
(* markets that can be traded, at a bounded number of calls.                *)
DiscoveryInv == DiscoveryTypeOK /\ PagesCoverListing /\ AsksAreBounded /\ OnlyClearMarkets
=============================================================================
