------------------------------ MODULE MarketEvents -----------------------------
(***************************************************************************)
(* What the listeners of market.events may rely on: every event of a market*)
(* comes after the row it tells of, in the order of the rows' writes, and  *)
(* a market is discovered with its first row.  An event may be lost, and a *)
(* row may be written with no event at all.                                *)
(***************************************************************************)
EXTENDS Naturals, Sequences

CONSTANTS
    Markets,
    None

ASSUME EventsAssumption == None \notin Markets \cup BOOLEAN

VARIABLES
    live,           \* whether a market's row is active, or None
    news,           \* the event on its way, or None
    log             \* market.events

eventVars == <<live, news, log>>

MarketEvent == [type : {"MARKET_DISCOVERED", "MARKET_LIFECYCLE_CHANGED"},
                market : Markets, active : BOOLEAN]

EventsTypeOK ==
    /\ live \in [Markets -> BOOLEAN \cup {None}]
    /\ news \in MarketEvent \cup {None}
    /\ log \in Seq(MarketEvent)

EventsInit ==
    /\ live = [m \in Markets |-> None]
    /\ news = None
    /\ log = <<>>

(* The scanner writes a row, and will publish it if it sees a change.       *)
WriteRow(m, active) ==
    /\ news = None
    /\ live' = [live EXCEPT ![m] = active]
    /\ news' \in {None, [type   |-> IF live[m] = None THEN "MARKET_DISCOVERED"
                                    ELSE "MARKET_LIFECYCLE_CHANGED",
                         market |-> m, active |-> active]}
    /\ UNCHANGED log

PublishNews ==
    /\ news # None
    /\ log' = Append(log, news) /\ news' = None
    /\ UNCHANGED live

LoseNews == news # None /\ news' = None /\ UNCHANGED <<live, log>>

(* markResolved of the settlement worker, which publishes no event.         *)
MarkResolved(m) ==
    /\ live[m] # None
    /\ live' = [live EXCEPT ![m] = FALSE]
    /\ UNCHANGED <<news, log>>

EventsNext ==
    \/ PublishNews \/ LoseNews
    \/ \E m \in Markets : MarkResolved(m) \/ \E active \in BOOLEAN : WriteRow(m, active)

EventsSpec == EventsInit /\ [][EventsNext]_eventVars
=============================================================================
