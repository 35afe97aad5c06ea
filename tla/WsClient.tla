------------------------------- MODULE WsClient --------------------------------
(***************************************************************************)
(* PolymarketMarketWebSocket of packages/polymarket: the market-data socket*)
(* with its reconnect timer and the subscriptions that outlive a socket.   *)
(* A send on a socket that is still connecting throws (the ws package).    *)
(*                                                                         *)
(* Back-off delays are not modelled, only whether a retry has been counted.*)
(* The record of a socket is dropped once its close event was handled.     *)
(***************************************************************************)
EXTENDS Naturals, FiniteSets

CONSTANTS
    Tokens,
    MaxSockets      \* bound on the sockets that are not closed

Slots == 1..MaxSockets

ASSUME WsAssumption == MaxSockets \in Nat \ {0}

VARIABLES
    sockets,        \* the readyState of each, as far as events tell
    current,        \* this.socket, or 0
    timer,          \* reconnectTimer is armed
    retrying,       \* reconnectAttempt > 0
    closedByCaller,
    wanted,         \* subscribedTokenIds
    served          \* what Polymarket was asked for on each socket

wsVars == <<sockets, current, timer, retrying, closedByCaller, wanted, served>>

WsTypeOK ==
    /\ sockets \in [Slots -> {"free", "connecting", "open", "closing"}]
    /\ current \in Slots \cup {0}
    /\ timer \in BOOLEAN /\ retrying \in BOOLEAN /\ closedByCaller \in BOOLEAN
    /\ wanted \subseteq Tokens
    /\ served \in [Slots -> SUBSET Tokens]

WsInit ==
    /\ sockets = [s \in Slots |-> "free"]
    /\ current = 0
    /\ timer = FALSE /\ retrying = FALSE /\ closedByCaller = TRUE
    /\ wanted = {}
    /\ served = [s \in Slots |-> {}]

-----------------------------------------------------------------------------
OpenSocket ==
    \E s \in Slots :
        /\ sockets[s] = "free"
        /\ \A r \in Slots : sockets[r] = "free" => s <= r
        /\ sockets' = [sockets EXCEPT ![s] = "connecting"]
        /\ current' = s

(* connect(), which does not look for a socket or a timer that is there.    *)
Connect ==
    /\ OpenSocket
    /\ closedByCaller' = FALSE
    /\ retrying' = FALSE
    /\ UNCHANGED <<timer, wanted, served>>

(* The process ends, and its sockets with it.                               *)
Vanished ==
    /\ sockets' = [s \in Slots |-> "free"]
    /\ current' = 0
    /\ timer' = FALSE /\ retrying' = FALSE /\ closedByCaller' = TRUE
    /\ wanted' = {}
    /\ served' = [s \in Slots |-> {}]

SendThrows(tokens) ==
    current # 0 /\ tokens # {} /\ sockets[current] = "connecting"

(* The message reaches Polymarket if it is sent on an open socket.          *)
Sent(now) ==
    served' = IF current # 0 /\ sockets[current] = "open"
              THEN [served EXCEPT ![current] = now] ELSE served

(* subscribe and unsubscribe record what is wanted first, and send then.    *)
Subscribe(tokens) ==
    /\ wanted' = wanted \cup tokens
    /\ Sent(served[current] \cup (tokens \ wanted))
    /\ UNCHANGED <<sockets, current, timer, retrying, closedByCaller>>

Unsubscribe(tokens) ==
    /\ wanted' = wanted \ tokens
    /\ Sent(served[current] \ tokens)
    /\ UNCHANGED <<sockets, current, timer, retrying, closedByCaller>>

-----------------------------------------------------------------------------
(* The open event: everything wanted is asked for, on this.socket.          *)
OpenForgets(s) ==      \* wrong: only a first connection subscribes
    /\ sockets[s] = "connecting"
    /\ sockets' = [sockets EXCEPT ![s] = "open"]
    /\ served' = IF retrying THEN served ELSE [served EXCEPT ![s] = wanted]
    /\ retrying' = FALSE
    /\ UNCHANGED <<current, timer, closedByCaller, wanted>>

Opened(s) ==
    /\ sockets[s] = "connecting"
    /\ sockets' = [sockets EXCEPT ![s] = "open"]
    /\ served' = IF current # 0 /\ sockets'[current] = "open"
                 THEN [served EXCEPT ![current] = @ \cup wanted] ELSE served
    /\ retrying' = FALSE
    /\ UNCHANGED <<current, timer, closedByCaller, wanted>>

ScheduleReconnect ==
    timer' = TRUE /\ retrying' = TRUE

(* The close event: of a connection refused, dropped, or closed by close(). *)
SocketClosed(s) ==
    /\ sockets[s] # "free"
    /\ sockets' = [sockets EXCEPT ![s] = "free"]
    /\ served' = [served EXCEPT ![s] = {}]
    /\ current' = IF current = s THEN 0 ELSE current
    /\ IF closedByCaller THEN UNCHANGED <<timer, retrying>> ELSE ScheduleReconnect
    /\ UNCHANGED <<closedByCaller, wanted>>

ReconnectTimer ==
    /\ timer /\ timer' = FALSE
    /\ IF closedByCaller THEN UNCHANGED <<sockets, current>> ELSE OpenSocket
    /\ UNCHANGED <<retrying, closedByCaller, wanted, served>>

-----------------------------------------------------------------------------
(* A caller that connects once never has two sockets, nor a socket and a    *)
(* timer that will open another: its events do not come twice.              *)
OneSocket ==
    /\ \A s \in Slots : sockets[s] # "free" => s = current
    /\ timer => current = 0

(* No subscription is lost over a reconnect, or kept after it was given up. *)
ServedIsWanted ==
    \A s \in Slots : sockets[s] = "open" => served[s] = wanted
=============================================================================
