------------------------------- MODULE Broadcast -------------------------------
(***************************************************************************)
(* StreamBroadcaster and the sockets of apps/api: one loop per stream hands*)
(* its events to the sockets that listen, and the sockets of orders and of *)
(* portfolios look up what an event stands for before they send.  Beside   *)
(* them a paper order, from when it is live: its row, its events and its   *)
(* position.  Of the streams those of orders and fills are modelled; that  *)
(* of signals is the first's, without a filter.                            *)
(*                                                                         *)
(* The pool answers concurrent queries in any order.                       *)
(***************************************************************************)
EXTENDS Integers, FiniteSets, Sequences

CONSTANTS
    Clients,        \* the sockets
    OfPortfolio,    \* those of /ws/portfolio; the others are of /ws/orders
    PaperOrders,
    Sees,           \* the orders whose user is the one of the client
    MaxOpen,        \* bound on the clients connected at once
    MaxCrashes,     \* bound on the crashes of the API
    BcMayFail,      \* TRUE: an await may reject
    Nothing

ASSUME BroadcastAssumption ==
    /\ OfPortfolio \subseteq Clients /\ IsFiniteSet(PaperOrders)
    /\ Nothing \notin Nat
    /\ Sees \in [Clients -> SUBSET PaperOrders]
    /\ MaxOpen \in Nat /\ MaxCrashes \in Nat /\ BcMayFail \in BOOLEAN

BcStreams == {"order", "fill"}

VARIABLES
    stage,          \* of each order: how far submitOrder has come
    events,         \* the two streams
    loops,          \* of each broadcaster: "off", "creating", "on"
    cursor,         \* the last event delivered to its group, or Nothing
    sent,           \* the last event of the batch that was handed out
    open,           \* the clients that are connected
    tasks,          \* lookups that run
    shown,          \* the status a client last got of an order, or Nothing
    portfolio,      \* the positions in what it last got, or Nothing
    crashes,        \* counted to bound them
    deaf,           \* (history) clients to whom a failed creation left a stream
    atEvent,        \* (history) the positions there were at a client's last event
    excused,        \* (history) pairs of client and order: an event of the order
                    \* was lost, came before the group, or overtook a lookup
    crossed         \* (history) clients with two portfolios in flight at once

producerVars  == <<stage, events>>
loopVars      == <<loops, cursor, sent>>
clientVars    == <<open, tasks, shown, portfolio>>
broadcastVars == <<producerVars, loopVars, clientVars, crashes, deaf, atEvent, excused, crossed>>

Live   == 1
Filled == 2
Stages == 0..6
RowOf(o) == IF stage[o] = 0 THEN Nothing ELSE IF stage[o] < 4 THEN Live ELSE Filled

(* How many positions the client's user has; none is closed here.           *)
Positions(c) == Cardinality({o \in Sees[c] : stage[o] = 6})

BcTask == [client : Clients, kind : {"order", "owner", "portfolio"}, by : BcStreams \X Nat,
           order : PaperOrders, got : Nat \cup {Nothing}]

BroadcastTypeOK ==
    /\ stage \in [PaperOrders -> Stages]
    /\ \A s \in BcStreams : \A i \in DOMAIN events[s] : events[s][i].order \in PaperOrders
    /\ loops \in [BcStreams -> {"off", "creating", "on"}]
    /\ \A s \in BcStreams :
          /\ cursor[s] \in 0..Len(events[s]) \cup {Nothing}
          /\ loops[s] = "on" => cursor[s] # Nothing /\ sent[s] <= cursor[s]
    /\ open \subseteq Clients /\ tasks \subseteq BcTask
    /\ \A t \in tasks : t.client \in open
    /\ shown \in [Clients -> [PaperOrders -> {Nothing, Live, Filled}]]
    /\ \A c \in Clients : portfolio[c] \in Nat \cup {Nothing}
    /\ crashes \in 0..MaxCrashes

Blank == [o \in PaperOrders |-> Nothing]

BroadcastInit ==
    /\ stage = [o \in PaperOrders |-> 0]
    /\ events = [s \in BcStreams |-> <<>>]
    /\ loops = [s \in BcStreams |-> "off"]
    /\ cursor = [s \in BcStreams |-> Nothing]
    /\ sent = [s \in BcStreams |-> 0]
    /\ open = {} /\ tasks = {}
    /\ shown = [c \in Clients |-> Blank]
    /\ portfolio = [c \in Clients |-> Nothing]
    /\ crashes = 0 /\ deaf = {} /\ excused = {}
    /\ atEvent = [c \in Clients |-> 0] /\ crossed = {}

-----------------------------------------------------------------------------
(* submitOrder and placeOrder, as far as they are seen here: the row is     *)
(* live, that is an event, the fill is one, the row is filled, that is an   *)
(* event, and the fill is folded into the position.                         *)
Publishes(o) ==
    CASE stage[o] = 1 -> events' = [events EXCEPT !["order"] = Append(@, [order |-> o, status |-> Live])]
      [] stage[o] = 2 -> events' = [events EXCEPT !["fill"] = Append(@, [order |-> o, status |-> Nothing])]
      [] stage[o] = 4 -> events' = [events EXCEPT !["order"] = Append(@, [order |-> o, status |-> Filled])]
      [] OTHER        -> UNCHANGED events

Places(o) ==
    /\ stage[o] < 6 /\ stage' = [stage EXCEPT ![o] = @ + 1]
    /\ Publishes(o)
    /\ UNCHANGED <<loopVars, clientVars, crashes, deaf, atEvent, excused, crossed>>

-----------------------------------------------------------------------------
(***************************************************************************)
(* The broadcasters.                                                       *)
(***************************************************************************)
(* A socket that connects subscribes to both, which starts what is off.     *)
Connects(c) ==
    /\ c \notin open /\ open' = open \cup {c}
    /\ Cardinality(open) < MaxOpen
    /\ loops' = [s \in BcStreams |-> IF loops[s] = "off" THEN "creating" ELSE loops[s]]
    /\ UNCHANGED <<producerVars, cursor, sent, tasks, shown, portfolio, crashes,
                   deaf, atEvent, excused, crossed>>

(* Nothing is sent on a closed socket; the next one has been shown nothing. *)
NothingShown(clients) ==
    /\ tasks' = {t \in tasks : t.client \notin clients}
    /\ shown' = [c \in Clients |-> IF c \in clients THEN Blank ELSE shown[c]]
    /\ portfolio' = [c \in Clients |-> IF c \in clients THEN Nothing ELSE portfolio[c]]
    /\ atEvent' = [c \in Clients |-> IF c \in clients THEN 0 ELSE atEvent[c]]
    /\ excused' = {x \in excused : x[1] \notin clients}
    /\ deaf' = {x \in deaf : x[1] \notin clients}
    /\ crossed' = crossed \ clients

Disconnects(c) ==
    /\ c \in open /\ open' = open \ {c}
    /\ NothingShown({c})
    /\ UNCHANGED <<producerVars, loopVars, crashes>>

OrdersIn(s, first, last) == {events[s][i].order : i \in first..last}

(* A new group begins at the end of its stream.                             *)
Created(s) ==
    /\ loops[s] = "creating" /\ loops' = [loops EXCEPT ![s] = "on"]
    /\ cursor' = [cursor EXCEPT ![s] = IF @ = Nothing THEN Len(events[s]) ELSE @]
    /\ sent' = [sent EXCEPT ![s] = cursor'[s]]
    /\ excused' = IF cursor[s] = Nothing
                  THEN excused \cup (open \X OrdersIn(s, 1, Len(events[s]))) ELSE excused
    /\ UNCHANGED <<producerVars, clientVars, crashes, deaf, atEvent, crossed>>

CreationFails(s) ==
    /\ BcMayFail /\ loops[s] = "creating"
    /\ loops' = [loops EXCEPT ![s] = "off"]
    /\ deaf' = deaf \cup (open \X {s})
    /\ UNCHANGED <<producerVars, cursor, sent, clientVars, crashes, atEvent, excused, crossed>>

Reads(s) ==
    /\ loops[s] = "on" /\ sent[s] = cursor[s] /\ cursor[s] < Len(events[s])
    /\ cursor' = [cursor EXCEPT ![s] = Len(events[s])]
    /\ UNCHANGED <<producerVars, loops, sent, clientVars, crashes, deaf, atEvent, excused, crossed>>

(* The rest of a batch is dropped when an ack rejects, and all of it when   *)
(* the answer to the read is lost: the group does not deliver it again.     *)
DropsRest(s) ==
    /\ BcMayFail /\ loops[s] = "on"
    /\ \/ sent[s] < cursor[s] /\ UNCHANGED cursor
       \/ sent[s] = cursor[s] /\ cursor' = [cursor EXCEPT ![s] = Len(events[s])]
    /\ sent' = [sent EXCEPT ![s] = cursor'[s]]
    /\ excused' = excused \cup (open \X OrdersIn(s, sent[s] + 1, cursor'[s]))
    /\ UNCHANGED <<producerVars, loops, clientVars, crashes, deaf, atEvent, crossed>>

-----------------------------------------------------------------------------
(***************************************************************************)
(* What the sockets do with an event: the listeners of one event run one   *)
(* after the other, up to their first await.                               *)
(***************************************************************************)
Hearing(o) == {c \in open : o \in Sees[c]}

Task(c, kind, by, o) == [client |-> c, kind |-> kind, by |-> by, order |-> o, got |-> Nothing]

(* A lookup whose answer is older than the event that is being sent.        *)
Overtaken(o) == {<<t.client, o>> : t \in {u \in tasks : u.kind = "order" /\ u.order = o /\ u.got = Live}}

OrderEvent(o, status, by) ==
    /\ shown' = [c \in Clients |-> IF c \in Hearing(o) \ OfPortfolio
                                   THEN [shown[c] EXCEPT ![o] = status] ELSE shown[c]]
    /\ tasks' = tasks \cup {Task(c, "portfolio", by, o) : c \in Hearing(o) \cap OfPortfolio}
    /\ atEvent' = [c \in Clients |-> IF c \in Hearing(o) THEN Positions(c) ELSE atEvent[c]]
    /\ excused' = excused \cup (IF status = Filled THEN Overtaken(o) ELSE {})

(* A fill has no user: every listener looks for its order.                  *)
FillEvent(o, by) ==
    /\ tasks' = tasks \cup {Task(c, "order", by, o) : c \in open \ OfPortfolio}
                      \cup {Task(c, "owner", by, o) : c \in open \cap OfPortfolio}
    /\ UNCHANGED <<shown, atEvent, excused, crossed>>

Delivers(s) ==
    /\ loops[s] = "on" /\ sent[s] < cursor[s]
    /\ sent' = [sent EXCEPT ![s] = @ + 1]
    /\ LET event == events[s][sent'[s]]
       IN  IF s = "order"
           THEN OrderEvent(event.order, event.status, <<s, sent'[s]>>)
           ELSE FillEvent(event.order, <<s, sent'[s]>>)
    /\ UNCHANGED <<producerVars, loops, cursor, open, portfolio, crashes, deaf, crossed>>

Ends(t) == tasks' = tasks \ {t}

Becomes(t, u) == tasks' = (tasks \ {t}) \cup {u}

(* findById has the row, of whose user the socket is asked before it sends. *)
LooksUpOnce(t) ==       \* wrong: the row as it was when the order went live
    /\ t.kind = "order" /\ t.got = Nothing
    /\ Becomes(t, [t EXCEPT !.got = Live])

LooksUp(t) ==
    /\ t.kind = "order" /\ t.got = Nothing
    /\ Becomes(t, [t EXCEPT !.got = RowOf(t.order)])

Surfaces(t) ==
    /\ t.kind = "order" /\ t.got # Nothing
    /\ Ends(t)
    /\ shown' = IF t.order \in Sees[t.client]
                THEN [shown EXCEPT ![t.client][t.order] = t.got] ELSE shown

FindsOwner(t) ==
    /\ t.kind = "owner"
    /\ IF t.order \in Sees[t.client]
       THEN Becomes(t, [t EXCEPT !.kind = "portfolio"]) ELSE Ends(t)
    /\ atEvent' = IF t.order \in Sees[t.client]
                  THEN [atEvent EXCEPT ![t.client] = Positions(t.client)] ELSE atEvent

(* buildPortfolio, read and then sent.                                      *)
Builds(t) ==
    /\ t.kind = "portfolio" /\ t.got = Nothing
    /\ Becomes(t, [t EXCEPT !.got = Positions(t.client)])

Pushes(t) ==
    /\ t.kind = "portfolio" /\ t.got # Nothing
    /\ Ends(t)
    /\ portfolio' = [portfolio EXCEPT ![t.client] = t.got]

InFlight(c) == \E t \in tasks : t.client = c /\ t.kind = "portfolio" /\ t.got # Nothing

(* A rejected findById sends nothing.                                       *)
TaskStep(t) ==
    \/ /\ LooksUp(t) \/ (BcMayFail /\ t.kind # "portfolio" /\ t.got = Nothing /\ Ends(t))
       /\ UNCHANGED <<producerVars, loopVars, open, shown, portfolio, crashes, deaf, atEvent, excused, crossed>>
    \/ /\ Builds(t)
       /\ crossed' = IF InFlight(t.client) THEN crossed \cup {t.client} ELSE crossed
       /\ UNCHANGED <<producerVars, loopVars, open, shown, portfolio, crashes, deaf, atEvent, excused>>
    \/ /\ Surfaces(t)
       /\ UNCHANGED <<producerVars, loopVars, open, portfolio, crashes, deaf, atEvent, excused, crossed>>
    \/ /\ FindsOwner(t)
       /\ UNCHANGED <<producerVars, loopVars, open, shown, portfolio, crashes, deaf, excused, crossed>>
    \/ /\ Pushes(t)
       /\ UNCHANGED <<producerVars, loopVars, open, shown, crashes, deaf, atEvent, excused, crossed>>

(* The API dies, of anything or of a buildPortfolio that rejects, which     *)
(* nothing catches.  Its groups stay.                                       *)
ApiCrashes ==
    /\ crashes < MaxCrashes /\ crashes' = crashes + 1
    /\ loops' = [s \in BcStreams |-> "off"] /\ sent' = [s \in BcStreams |-> 0]
    /\ open' = {} /\ NothingShown(Clients)
    /\ UNCHANGED <<producerVars, cursor>>

BroadcastNext ==
    \/ \E o \in PaperOrders : Places(o)
    \/ \E c \in Clients : Connects(c) \/ Disconnects(c)
    \/ \E s \in BcStreams :
          Created(s) \/ CreationFails(s) \/ Reads(s) \/ DropsRest(s) \/ Delivers(s)
    \/ \E t \in tasks : TaskStep(t)
    \/ ApiCrashes

BroadcastSpec == BroadcastInit /\ [][BroadcastNext]_broadcastVars

-----------------------------------------------------------------------------
(* No client is shown an order of somebody else.                            *)
OnlyOwn ==
    \A c \in Clients : \A o \in PaperOrders : shown[c][o] # Nothing => o \in Sees[c]

(* Once all is delivered, what a client was last shown of an order is its   *)
(* row, unless an event of it was lost, or the event overtook the lookup of *)
(* its fill.                                                                *)
Delivered(s) == loops[s] = "on" /\ sent[s] = Len(events[s])

Settled(o) == stage[o] \notin {1, 4}

ShownIsCurrent ==
    \A c \in open \ OfPortfolio : \A o \in PaperOrders :
        (/\ Delivered("order") /\ Settled(o)
         /\ shown[c][o] # Nothing /\ <<c, o>> \notin excused)
        => shown[c][o] = RowOf(o)

(* And what a portfolio client was last sent holds the positions there were *)
(* at the last event it was sent for, unless two pushes crossed.            *)
PortfolioHoldsEvents ==
    \A c \in open \cap OfPortfolio :
        (/\ \A t \in tasks : t.client # c
         /\ portfolio[c] # Nothing /\ c \notin crossed)
        => atEvent[c] <= portfolio[c]

(* A client's streams are read, unless its creation of the group failed.    *)
ListenersAreServed ==
    \A c \in open : \A s \in BcStreams : loops[s] = "off" => <<c, s>> \in deaf

(* A client is served, unless its creation of the group failed, with its own*)
(* orders and positions only, and is left with the latest of them, unless an*)
(* event was lost or overtook a lookup, or two pushes crossed.              *)
BroadcastInv ==
    BroadcastTypeOK /\ OnlyOwn /\ ShownIsCurrent /\ PortfolioHoldsEvents /\ ListenersAreServed
=============================================================================
