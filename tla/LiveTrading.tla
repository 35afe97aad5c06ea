----------------------------- MODULE LiveTrading ------------------------------
(***************************************************************************)
(* Live orders: POST /api/live/orders/prepare stores an approved order in  *)
(* Redis, the browser signs it, and POST /api/live/orders/submit consumes  *)
(* the record and places it through OrderManager with the Polymarket       *)
(* adapter.  A clientOrderId is the id of the prepared order; a call is one*)
(* submit request, so the calls of an id are deliveries of the same submit.*)
(*                                                                         *)
(* The exchange decides a post at any time after it was sent, also when    *)
(* nobody waits for the answer any more: a timeout does not withdraw it.   *)
(***************************************************************************)
EXTENDS CancelRoute

CONSTANTS
    ProcOf,         \* the API process, and so the REST client, that serves a call
    CanLookup,      \* TRUE: the order lookup finds accepted orders; FALSE: as wired
    MayTimeout      \* TRUE: a post may end in a timeout, network, 429 or 5xx error

LiveSteps == {"submit", "post", "awaiting", "lookup"}

ASSUME LiveAssumption ==
    /\ AdapterSteps = LiveSteps
    /\ {CanLookup, MayTimeout} \subseteq BOOLEAN

VARIABLES
    approved,   \* maxSize of the RiskDecision stored under an id, 0: not prepared
    stored,     \* ids whose PreparedLiveOrder Redis holds
    stage,      \* where the submit route is with a request
    seen,       \* requests whose GET found the record
    answer,     \* the error a request ends with, or None
    posts,      \* how often a call has posted to the exchange (history)
    exchange    \* what became of a call's post

liveVars == <<approved, stored, stage, seen, answer, posts, exchange>>
vars     == <<managerVars, cancelling, liveVars>>

Stages    == {"new", "read", "placing", "refused"}
Answers   == {"expired", "denied", "in_flight", "ambiguous"}
PostFates == {"none", "sent", "accepted", "refused"}

LiveTypeOK ==
    /\ TypeOK /\ CancelTypeOK
    /\ approved \in [Ids -> 0..MaxUsd]
    /\ stored \subseteq Ids
    /\ stage \in [Calls -> Stages]
    /\ seen \subseteq Calls
    /\ answer \in [Calls -> Answers \cup {None}]
    /\ posts \in [Calls -> Nat]
    /\ exchange \in [Calls -> PostFates]

Init ==
    /\ ManagerInit /\ CancelInit
    /\ approved = [i \in Ids |-> 0]
    /\ stored = {}
    /\ stage = [c \in Calls |-> "new"]
    /\ seen = {}
    /\ answer = [c \in Calls |-> None]
    /\ posts = [c \in Calls |-> 0]
    /\ exchange = [c \in Calls |-> "none"]

-----------------------------------------------------------------------------
(***************************************************************************)
(* The routes.                                                             *)
(***************************************************************************)
(* prepare, all of its gates passed.  A refused prepare stores nothing.     *)
Prepare(i) ==
    /\ approved[i] = 0
    /\ \E usd \in 1..MaxUsd : approved' = [approved EXCEPT ![i] = usd]
    /\ stored' = stored \cup {i}
    /\ UNCHANGED <<managerVars, cancelling, stage, seen, answer, posts, exchange>>

PreparedExpires(i) ==
    /\ i \in stored
    /\ stored' = stored \ {i}
    /\ UNCHANGED <<managerVars, cancelling, approved, stage, seen, answer, posts, exchange>>

(* consumeEphemeral: GET ...                                                *)
ReadPrepared(c) ==
    /\ stage[c] = "new" /\ approved[IdOf[c]] > 0
    /\ stage' = [stage EXCEPT ![c] = "read"]
    /\ seen' = IF IdOf[c] \in stored THEN seen \cup {c} ELSE seen
    /\ UNCHANGED <<managerVars, cancelling, approved, stored, answer, posts, exchange>>

Refuse(c, why) ==
    /\ stage' = [stage EXCEPT ![c] = "refused"]
    /\ answer' = [answer EXCEPT ![c] = why]

(* ... then DEL; then the checks of owner, shape, token, signer and side.   *)
ConsumePrepared(c) ==
    /\ stage[c] = "read"
    /\ stored' = stored \ {IdOf[c]}
    /\ \/ c \notin seen /\ Refuse(c, "expired")
       \/ c \in seen /\ Refuse(c, "denied")
       \/ /\ c \in seen
          /\ stage' = [stage EXCEPT ![c] = "placing"]
          /\ UNCHANGED answer
    /\ UNCHANGED <<managerVars, cancelling, approved, seen, posts, exchange>>

(* placeOrder, asked for exactly what the stored decision approved.         *)
PlacePrepared(c) ==
    /\ stage[c] = "placing"
    /\ ApproveSignal(c)
    /\ req'[c] = [size |-> approved[IdOf[c]], maxSize |-> approved[IdOf[c]]]
    /\ UNCHANGED <<cancelling, liveVars>>

RouteStep(c) == ReadPrepared(c) \/ ConsumePrepared(c) \/ PlacePrepared(c)

-----------------------------------------------------------------------------
(***************************************************************************)
(* PolymarketExecutionAdapter.submitOrder.                                 *)
(***************************************************************************)
(* The adapter's result: the rest is OrderManager's. *)
Return(c, from, s) ==
    /\ Goto(c, from, "reconcile")
    /\ result' = [result EXCEPT ![c] = s]

Enter(c) == submits' = submits \cup {c}

(* No token id, no book, or buildOrderFromRequest refuses. *)
BuildRejected(c) ==
    /\ Return(c, "submit", "rejected") /\ Enter(c)
    /\ UNCHANGED <<req, lock, fill, flat, snapshot, tables, cancelling, liveVars>>

Build(c) ==
    /\ Goto(c, "submit", "post") /\ Enter(c)
    /\ UNCHANGED <<req, lock, result, fill, flat, snapshot, tables, cancelling, liveVars>>

(* PolymarketRestClient's inFlightClientOrderIds, one set per process.      *)
PostInFlight(c) ==
    \E d \in Calls : ProcOf[d] = ProcOf[c] /\ IdOf[d] = IdOf[c] /\ pc[d] = "awaiting"

PostDuplicate(c) ==
    /\ PostInFlight(c)
    /\ Return(c, "post", "rejected")
    /\ UNCHANGED <<req, lock, submits, fill, flat, snapshot, tables, cancelling, liveVars>>

Post(c) ==
    /\ ~PostInFlight(c)
    /\ Goto(c, "post", "awaiting")
    /\ posts' = [posts EXCEPT ![c] = @ + 1]
    /\ exchange' = [exchange EXCEPT ![c] = "sent"]
    /\ UNCHANGED <<req, lock, submits, result, fill, flat, snapshot, tables, cancelling,
                   approved, stored, stage, seen, answer>>

(* The request resolved: "submitted", whatever its body says.               *)
ResolvedStatus(c) == "submitted"

PostResolved(c) ==
    /\ exchange[c] \in {"accepted", "refused"}
    /\ Return(c, "awaiting", ResolvedStatus(c))
    /\ UNCHANGED <<req, lock, submits, fill, flat, snapshot, tables, cancelling, liveVars>>

(* A 4xx, or an authentication error: the exchange has refused the order.   *)
AnyFailure(c) == exchange[c] # "none"      \* wrong: a timeout taken for a refusal
Definitive(c) == exchange[c] = "refused"

PostRejected(c) ==
    /\ Definitive(c)
    /\ Return(c, "awaiting", "rejected")
    /\ UNCHANGED <<req, lock, submits, fill, flat, snapshot, tables, cancelling, liveVars>>

(* Timeout, network error, 429, 5xx or an error of no known class.          *)
Swallow(c)        == "release"             \* wrong: an ambiguous outcome reported to nobody
AfterAmbiguity(c) == "lookup"

PostAmbiguous(c) ==
    /\ MayTimeout
    /\ Goto(c, "awaiting", AfterAmbiguity(c))
    /\ UNCHANGED <<req, lock, submits, result, fill, flat, snapshot, tables, cancelling, liveVars>>

Found(c) == CanLookup /\ \E d \in Calls : IdOf[d] = IdOf[c] /\ exchange[d] = "accepted"

LookupFound(c) ==
    /\ Found(c)
    /\ Return(c, "lookup", "submitted")
    /\ UNCHANGED <<req, lock, submits, fill, flat, snapshot, tables, cancelling, liveVars>>

(* AmbiguousOrderOutcomeError. *)
LookupFailed(c) ==
    /\ ~Found(c)
    /\ Goto(c, "lookup", "unwind")
    /\ answer' = [answer EXCEPT ![c] = "ambiguous"]
    /\ UNCHANGED <<req, lock, submits, result, fill, flat, snapshot, tables, cancelling,
                   approved, stored, stage, seen, posts, exchange>>

LiveStep(c) ==
    \/ BuildRejected(c) \/ Build(c) \/ PostDuplicate(c) \/ Post(c) \/ PostResolved(c)
    \/ PostRejected(c) \/ PostAmbiguous(c) \/ LookupFound(c) \/ LookupFailed(c)

-----------------------------------------------------------------------------
(* Polymarket: a sent order is accepted or refused, once.                   *)
ExchangeDecides(c) ==
    /\ exchange[c] = "sent"
    /\ \E fate \in {"accepted", "refused"} : exchange' = [exchange EXCEPT ![c] = fate]
    /\ UNCHANGED <<managerVars, cancelling, approved, stored, stage, seen, answer, posts>>

(* A contended call without a row ends with OrderSubmissionInFlightError.   *)
ManagerMoves(c) ==
    /\ ManagerStep(c)
    /\ answer' = IF pc[c] = "contended" /\ pc'[c] = "failed"
                 THEN [answer EXCEPT ![c] = "in_flight"] ELSE answer
    /\ UNCHANGED <<cancelling, approved, stored, stage, seen, posts, exchange>>

(* Whatever postOrder throws is caught. *)
LiveFault(c) ==
    /\ ManagerFault(c)
    /\ pc[c] = "awaiting" => pc'[c] = "crashed"
    /\ UNCHANGED <<cancelling, liveVars>>

CallStep(c) == RouteStep(c) \/ ManagerMoves(c) \/ LiveStep(c)

Next ==
    \/ \E i \in Ids : Prepare(i) \/ PreparedExpires(i)
    \/ \E c \in Calls : CallStep(c)
    \/ \E c \in Calls : LiveFault(c)
    \/ \E c \in Calls : ExchangeDecides(c)
    \/ \E i \in Ids : LockExpires(i) /\ UNCHANGED <<cancelling, liveVars>>
    \/ \E i \in Ids : CancelStep(i) /\ UNCHANGED liveVars

Spec == Init /\ [][Next]_vars

(* The event loop runs the calls it has not lost, Polymarket answers, and   *)
(* Redis expires its locks; nobody has to prepare, to submit or to cancel.  *)
Fairness ==
    /\ \A c \in Calls : WF_vars(ConsumePrepared(c) \/ PlacePrepared(c) \/ ManagerMoves(c) \/ LiveStep(c))
    /\ \A c \in Calls : WF_vars(ExchangeDecides(c))
    /\ \A i \in Ids : WF_vars(LockExpires(i) /\ UNCHANGED <<cancelling, liveVars>>)

FairSpec == Spec /\ Fairness

-----------------------------------------------------------------------------
(***************************************************************************)
(* Properties.                                                             *)
(***************************************************************************)
OnExchange(c) == exchange[c] \in {"sent", "accepted"}

(* postOrder is called at most once under a prepared order's id, whatever   *)
(* double submits, ambiguous outcomes, exceptions and crashes happen.       *)
PostedOnce ==
    /\ \A c \in Calls : posts[c] <= 1
    /\ \A c, d \in Calls : posts[c] > 0 /\ posts[d] > 0 /\ IdOf[c] = IdOf[d] => c = d

(* The order row never denies what the exchange knows: a rejected order has *)
(* nothing accepted or still travelling, a submitted one has been posted.   *)
RowMatchesExchange ==
    \A i \in Ids :
        /\ status[i] = "rejected" => \A c \in Calls : IdOf[c] = i => ~OnExchange(c)
        /\ status[i] = "submitted" => \E c \in Calls : IdOf[c] = i /\ posts[c] > 0

(* Nothing is posted that the database does not know: the row, of the size  *)
(* the risk engine approved, and its audit events come first, so a crash at *)
(* any point leaves a trace of every order the exchange may hold.           *)
PostedIsOnRecord ==
    \A c \in Calls : posts[c] > 0 =>
        /\ Exists(IdOf[c])
        /\ orderSize[IdOf[c]] = approved[IdOf[c]]
        /\ {"RISK_APPROVED", "ORDER_CREATED"} \X {c} \subseteq events

(* A call that has posted and is neither answered nor past its row's update.*)
Unresolved(c) == pc[c] \in LiveSteps \cup {"reconcile", "unwind", "failed", "crashed"}

(* An accepted order has a row that says so, or that has been cancelled     *)
(* since, unless the call that posted it is still at it or has ended in an  *)
(* error or a crash.  Every other delivery is answered with the row as it   *)
(* stands: in that case, and in no other, with the "created" row of an order*)
(* the exchange has accepted.                                               *)
AcceptedIsSurfaced ==
    \A c \in Calls : exchange[c] = "accepted" =>
        status[IdOf[c]] \in {"submitted", "cancelled"} \/ Unresolved(c)

(* A request whose order is accepted is answered, with ORDER_SUBMITTED on   *)
(* record, unless an exception or a crash ends it: no ambiguity, lookup or  *)
(* cancel leaves it hanging, or answered without the event.                 *)
AcceptedIsRecorded ==
    \A c \in Calls : exchange[c] = "accepted" ~>
        \/ pc[c] = "returned" /\ <<"ORDER_SUBMITTED", c>> \in events
        \/ pc[c] \in {"failed", "crashed"}

-----------------------------------------------------------------------------
(***************************************************************************)
(* What PostedOnce and RowMatchesExchange rest on, beside IdempotencyInv.  *)
(***************************************************************************)
(* The adapter posts once, and only for a call that entered it.             *)
PostsCounted ==
    \A c \in Calls : \/ exchange[c] = "none" /\ posts[c] = 0
                     \/ exchange[c] # "none" /\ posts[c] = 1 /\ c \in submits

PostPending ==
    \A c \in Calls : /\ pc[c] = "post" => exchange[c] = "none"
                     /\ pc[c] \in {"awaiting", "lookup"} => exchange[c] # "none"

(* A result is given once, at the end of the adapter, and agrees with the   *)
(* post.                                                                    *)
ResultMatchesPost ==
    \A c \in Calls :
        /\ result[c] # None => c \in submits /\ pc[c] \notin BeforeSubmit \cup LiveSteps
        /\ result[c] = "rejected" => exchange[c] \in {"none", "refused"}
        /\ result[c] = "submitted" => exchange[c] # "none"

(* The row only repeats what the adapter returned to the one submission.    *)
RowFromResult ==
    \A i \in Ids : status[i] \in {"rejected", "submitted"} =>
        \E c \in submits : IdOf[c] = i /\ result[c] = status[i]

PostInv == PostsCounted /\ PostPending /\ ResultMatchesPost /\ RowFromResult
=============================================================================
