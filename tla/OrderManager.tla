----------------------------- MODULE OrderManager -----------------------------
(***************************************************************************)
(* OrderManager.placeOrder of services/trading-engine, with the Redis lock *)
(* of packages/redis and the order and position tables of packages/database*)
(* it works on.  A call of placeOrder is a process: every await of the     *)
(* code ends a step, so calls of several API processes interleave between  *)
(* any two of them.  The execution adapter is left open: a module that     *)
(* extends this one takes a call from program point "submit" to program    *)
(* point "reconcile" through its AdapterSteps.                             *)
(*                                                                         *)
(* Prices, fees and texts are abstracted; a size is a small number of USD. *)
(***************************************************************************)
EXTENDS Naturals, FiniteSets

CONSTANTS
    Calls,          \* invocations of placeOrder
    Ids,            \* clientOrderIds
    Keys,           \* (user, market, side) triples: one row of positions each
    IdOf,           \* the clientOrderId a call was made with
    KeyOf,          \* the position an order trades in
    MaxUsd,         \* bound on sizes
    AdapterSteps,   \* program points inside adapter.submitOrder
    LeaseCovers,    \* TRUE: the lock's TTL outlasts every running submission
    MayThrow,       \* TRUE: a database, Redis or exchange call may reject
    MayCrash,       \* TRUE: the process running a call may die
    None            \* "no row", "no token", "no result"

ManagerSteps == {"fast_check", "acquire", "contended"}
LockedSteps  == {"recheck", "create", "created_event"} \cup AdapterSteps \cup
                {"reconcile", "submitted_event", "outcome_event", "read_before",
                 "read_current", "write_position", "opened_event", "release", "unwind"}
Finished     == {"returned", "failed", "crashed"}
Pc           == {"idle"} \cup ManagerSteps \cup LockedSteps \cup Finished

OpenStatuses     == {"created", "validated", "signed", "submitted", "live", "partially_filled"}
TerminalStatuses == {"filled", "rejected", "cancelled", "expired"}
Statuses         == OpenStatuses \cup TerminalStatuses

(* OrderRequest.sizeUsd and the maxSize of the approved RiskDecision. *)
Requests == [size : 1..MaxUsd, maxSize : 1..MaxUsd]

EventTypes == {"RISK_REJECTED", "RISK_APPROVED", "ORDER_CREATED", "ORDER_SUBMITTED",
               "ORDER_FILLED", "ORDER_CANCELLED", "POSITION_OPENED"}

ASSUME OrderManagerAssumption ==
    /\ IdOf \in [Calls -> Ids]
    /\ KeyOf \in [Ids -> Keys]
    /\ MaxUsd \in Nat \ {0}
    /\ {LeaseCovers, MayThrow, MayCrash} \subseteq BOOLEAN
    /\ "submit" \in AdapterSteps
    /\ AdapterSteps \cap ({"idle"} \cup ManagerSteps \cup Finished \cup
          {"recheck", "create", "created_event", "reconcile", "submitted_event",
           "outcome_event", "read_before", "read_current", "write_position",
           "opened_event", "release", "unwind"}) = {}
    /\ None \notin Calls \cup Statuses \cup [Calls -> Nat]

VARIABLES
    pc,         \* where each call is
    req,        \* its Requests record, meaningful once the call is approved
    lock,       \* Redis: the call whose token the lock of an id holds, or None
    status,     \* orders.status of the row with this clientOrderId, or None
    orderSize,  \* orders.size of that row
    submits,    \* calls that have entered adapter.submitOrder (history)
    result,     \* the status adapter.submitOrder returned to a call
    fill,       \* USD of the fills row a call's submission wrote, 0 for none
    flat,       \* previousSize <= 0, as read by applyFillToPosition
    snapshot,   \* the positions row read inside applyFill
    position,   \* positions row: how often each call's fill is folded in, or None
    events      \* the risk_events rows, as <<type, call>>

tables      == <<status, orderSize, position, events>>
managerVars == <<pc, req, lock, status, orderSize, submits, result, fill, flat,
                 snapshot, position, events>>

Rows == [Calls -> Nat] \cup {None}

TypeOK ==
    /\ pc \in [Calls -> Pc]
    /\ req \in [Calls -> Requests]
    /\ lock \in [Ids -> Calls \cup {None}]
    /\ status \in [Ids -> Statuses \cup {None}]
    /\ orderSize \in [Ids -> 0..MaxUsd]
    /\ submits \subseteq Calls
    /\ result \in [Calls -> Statuses \cup {None}]
    /\ fill \in [Calls -> 0..MaxUsd]
    /\ flat \in [Calls -> BOOLEAN]
    /\ snapshot \in [Calls -> Rows]
    /\ position \in [Keys -> Rows]
    /\ events \subseteq (EventTypes \X Calls)

ManagerInit ==
    /\ pc = [c \in Calls |-> "idle"]
    /\ req = [c \in Calls |-> [size |-> 1, maxSize |-> 1]]
    /\ lock = [i \in Ids |-> None]
    /\ status = [i \in Ids |-> None]
    /\ orderSize = [i \in Ids |-> 0]
    /\ submits = {}
    /\ result = [c \in Calls |-> None]
    /\ fill = [c \in Calls |-> 0]
    /\ flat = [c \in Calls |-> FALSE]
    /\ snapshot = [c \in Calls |-> None]
    /\ position = [k \in Keys |-> None]
    /\ events = {}

-----------------------------------------------------------------------------
(***************************************************************************)
(* Helpers.                                                                *)
(***************************************************************************)
Key(c)    == KeyOf[IdOf[c]]
InLock(c) == pc[c] \in LockedSteps
Exists(i) == status[i] # None

UnclampedSize(c) == req[c].size      \* wrong: the re-clamp forgotten

(* sizeUsd: min(request.sizeUsd, riskDecision.maxSize). *)
ClampedSize(c) == IF req[c].size <= req[c].maxSize THEN req[c].size ELSE req[c].maxSize

Goto(c, from, to) == pc[c] = from /\ pc' = [pc EXCEPT ![c] = to]
Record(type, c)   == events' = events \cup {<<type, c>>}

-----------------------------------------------------------------------------
(***************************************************************************)
(* Redis lock: SET NX PX, token-checked delete, and the TTL.               *)
(***************************************************************************)
LockFree(i)      == lock[i] = None
HoldsToken(c)    == lock[IdOf[c]] = c

ShortLease(i)    == lock[i] # None    \* wrong: a TTL below the submission's time
MayExpire(i)     == lock[i] # None /\ (LeaseCovers => ~InLock(lock[i]))

LockExpires(i) ==
    /\ MayExpire(i)
    /\ lock' = [lock EXCEPT ![i] = None]
    /\ UNCHANGED <<pc, req, submits, result, fill, flat, snapshot, tables>>

-----------------------------------------------------------------------------
(***************************************************************************)
(* placeOrder, up to the call of the adapter.                              *)
(***************************************************************************)
RejectSignal(c) ==
    /\ Goto(c, "idle", "returned")
    /\ Record("RISK_REJECTED", c)
    /\ UNCHANGED <<req, lock, status, orderSize, submits, result, fill, flat, snapshot, position>>

ApproveSignal(c) ==
    /\ Goto(c, "idle", "fast_check")
    /\ \E r \in Requests : req' = [req EXCEPT ![c] = r]
    /\ Record("RISK_APPROVED", c)
    /\ UNCHANGED <<lock, status, orderSize, submits, result, fill, flat, snapshot, position>>

(* A prior submission's order is returned without touching lock or adapter. *)
FastCheck(c) ==
    /\ Goto(c, "fast_check", IF Exists(IdOf[c]) THEN "returned" ELSE "acquire")
    /\ UNCHANGED <<req, lock, submits, result, fill, flat, snapshot, tables>>

AcquireLock(c) ==
    \/ /\ LockFree(IdOf[c])
       /\ Goto(c, "acquire", "recheck")
       /\ lock' = [lock EXCEPT ![IdOf[c]] = c]
       /\ UNCHANGED <<req, submits, result, fill, flat, snapshot, tables>>
    \/ /\ ~LockFree(IdOf[c])
       /\ Goto(c, "acquire", "contended")
       /\ UNCHANGED <<req, lock, submits, result, fill, flat, snapshot, tables>>

(* Lock held elsewhere: the persisted order, or OrderSubmissionInFlightError. *)
Contended(c) ==
    /\ Goto(c, "contended", IF Exists(IdOf[c]) THEN "returned" ELSE "failed")
    /\ UNCHANGED <<req, lock, submits, result, fill, flat, snapshot, tables>>

NoRecheck(i)   == "create"            \* wrong: the row is not read again
RecheckNext(i) == IF Exists(i) THEN "release" ELSE "create"

Recheck(c) ==
    /\ Goto(c, "recheck", RecheckNext(IdOf[c]))
    /\ UNCHANGED <<req, lock, submits, result, fill, flat, snapshot, tables>>

(* OrdersRepository.findOrCreate: select, insert ... on conflict do nothing,  *)
(* select.  Rows are never deleted, so the three statements act at one point. *)
FindOrCreate(i, size) ==
    /\ status' = IF Exists(i) THEN status ELSE [status EXCEPT ![i] = "created"]
    /\ orderSize' = IF Exists(i) THEN orderSize ELSE [orderSize EXCEPT ![i] = size]

(* wrong: ORDER_CREATED is not recorded *)
SilentCreate(c) ==
    /\ Goto(c, "create", "submit")
    /\ FindOrCreate(IdOf[c], ClampedSize(c))
    /\ UNCHANGED <<req, lock, submits, result, fill, flat, snapshot, position, events>>

CreateOrder(c) ==
    /\ Goto(c, "create", "created_event")
    /\ FindOrCreate(IdOf[c], ClampedSize(c))
    /\ UNCHANGED <<req, lock, submits, result, fill, flat, snapshot, position, events>>

CreatedEvent(c) ==
    /\ Goto(c, "created_event", "submit")
    /\ Record("ORDER_CREATED", c)
    /\ UNCHANGED <<req, lock, status, orderSize, submits, result, fill, flat, snapshot, position>>

-----------------------------------------------------------------------------
(***************************************************************************)
(* placeOrder, from the adapter's result to the released lock.             *)
(***************************************************************************)
(* orders.updateStatus: the row is overwritten whatever its status is.     *)
UpdateStatus(i, s) == status' = [status EXCEPT ![i] = s]

(* wrong: ORDER_SUBMITTED is not recorded *)
SilentReconcile(c) ==
    /\ Goto(c, "reconcile", "outcome_event")
    /\ UpdateStatus(IdOf[c], result[c])
    /\ UNCHANGED <<req, lock, orderSize, submits, result, fill, flat, snapshot, position, events>>

Reconcile(c) ==
    /\ Goto(c, "reconcile", "submitted_event")
    /\ UpdateStatus(IdOf[c], result[c])
    /\ UNCHANGED <<req, lock, orderSize, submits, result, fill, flat, snapshot, position, events>>

SubmittedEvent(c) ==
    /\ Goto(c, "submitted_event", "outcome_event")
    /\ Record("ORDER_SUBMITTED", c)
    /\ UNCHANGED <<req, lock, status, orderSize, submits, result, fill, flat, snapshot, position>>

FoldAlways(c)     == c \in Calls     \* wrong: a position for an order without fills
HasFill(c)        == fill[c] > 0
IsFilledStatus(s) == s \in {"filled", "partially_filled"}

(* ORDER_FILLED or ORDER_CANCELLED, by the status; then the loop over fills. *)
OutcomeEvent(c) ==
    /\ Goto(c, "outcome_event", IF HasFill(c) THEN "read_before" ELSE "release")
    /\ \/ IsFilledStatus(result[c]) /\ Record("ORDER_FILLED", c)
       \/ result[c] = "cancelled" /\ Record("ORDER_CANCELLED", c)
       \/ ~IsFilledStatus(result[c]) /\ result[c] # "cancelled" /\ UNCHANGED events
    /\ UNCHANGED <<req, lock, status, orderSize, submits, result, fill, flat, snapshot, position>>

(* applyFillToPosition reads the row once for previousSize ...              *)
ReadBefore(c) ==
    /\ Goto(c, "read_before", "read_current")
    /\ flat' = [flat EXCEPT ![c] = position[Key(c)] = None]
    /\ UNCHANGED <<req, lock, submits, result, fill, snapshot, tables>>

(* ... PositionsRepository.applyFill reads it again ...                     *)
ReadCurrent(c) ==
    /\ Goto(c, "read_current", "write_position")
    /\ snapshot' = [snapshot EXCEPT ![c] = position[Key(c)]]
    /\ UNCHANGED <<req, lock, submits, result, fill, flat, tables>>

(* ... and writes back the row it read with the fill folded in: an update if *)
(* it read a row, else an insert, which the unique index refuses when another*)
(* call has inserted the row meanwhile.                                      *)
EmptyFirstRow(row, c) ==              \* wrong: the first fill is not in the new row
    IF row = None THEN [d \in Calls |-> 0] ELSE [row EXCEPT ![c] = @ + 1]

Folded(row, c) ==
    IF row = None THEN [d \in Calls |-> IF d = c THEN 1 ELSE 0]
                  ELSE [row EXCEPT ![c] = @ + 1]

WritePosition(c) ==
    \/ /\ snapshot[c] # None \/ position[Key(c)] = None
       /\ Goto(c, "write_position", IF flat[c] THEN "opened_event" ELSE "release")
       /\ position' = [position EXCEPT ![Key(c)] = Folded(snapshot[c], c)]
       /\ UNCHANGED <<req, lock, status, orderSize, submits, result, fill, flat, snapshot, events>>
    \/ /\ snapshot[c] = None /\ position[Key(c)] # None
       /\ Goto(c, "write_position", "unwind")
       /\ UNCHANGED <<req, lock, submits, result, fill, flat, snapshot, tables>>

OpenedEvent(c) ==
    /\ Goto(c, "opened_event", "release")
    /\ Record("POSITION_OPENED", c)
    /\ UNCHANGED <<req, lock, status, orderSize, submits, result, fill, flat, snapshot, position>>

ReleaseLock(c) ==
    /\ Goto(c, "release", "returned") \/ Goto(c, "unwind", "failed")
    /\ lock' = IF HoldsToken(c) THEN [lock EXCEPT ![IdOf[c]] = None] ELSE lock
    /\ UNCHANGED <<req, submits, result, fill, flat, snapshot, tables>>

-----------------------------------------------------------------------------
(***************************************************************************)
(* Failures.  A rejected await inside the try block runs the finally block;*)
(* releaseLock itself may reject, and then the key waits for its TTL.  A   *)
(* statement that took effect before its reply was lost is a rejection at  *)
(* the next program point.                                                 *)
(***************************************************************************)
Throw(c) ==
    /\ MayThrow
    /\ \/ /\ pc[c] \in ManagerSteps \cup {"release", "unwind"}
          /\ pc' = [pc EXCEPT ![c] = "failed"]
       \/ /\ pc[c] \in LockedSteps \ {"release", "unwind"}
          /\ pc' = [pc EXCEPT ![c] = "unwind"]
    /\ UNCHANGED <<req, lock, submits, result, fill, flat, snapshot, tables>>

Crash(c) ==
    /\ MayCrash
    /\ pc[c] \in ManagerSteps \cup LockedSteps
    /\ pc' = [pc EXCEPT ![c] = "crashed"]
    /\ UNCHANGED <<req, lock, submits, result, fill, flat, snapshot, tables>>

-----------------------------------------------------------------------------
(* The steps a running call takes by itself, outside the adapter. *)
ManagerStep(c) ==
    \/ FastCheck(c) \/ AcquireLock(c) \/ Contended(c) \/ Recheck(c)
    \/ CreateOrder(c) \/ CreatedEvent(c) \/ Reconcile(c) \/ SubmittedEvent(c)
    \/ OutcomeEvent(c) \/ ReadBefore(c) \/ ReadCurrent(c) \/ WritePosition(c)
    \/ OpenedEvent(c) \/ ReleaseLock(c)

PlaceOrder(c) == RejectSignal(c) \/ ApproveSignal(c)

ManagerFault(c) == Throw(c) \/ Crash(c)

-----------------------------------------------------------------------------
(***************************************************************************)
(* What placeOrder promises over any adapter.                              *)
(***************************************************************************)
(* No two running calls are between acquireLock and releaseLock of the same *)
(* clientOrderId (locks.ts), whatever crashes, throws and retries happen.   *)
LockExclusive ==
    \A c, d \in Calls : InLock(c) /\ InLock(d) /\ IdOf[c] = IdOf[d] => c = d

(* One clientOrderId reaches adapter.submitOrder at most once over all its  *)
(* calls: retries, contended calls and calls after a crash included.        *)
AtMostOneSubmission ==
    \A c, d \in submits : IdOf[c] = IdOf[d] => c = d

-----------------------------------------------------------------------------
(***************************************************************************)
(* The inductive invariant behind LockExclusive, AtMostOneSubmission and   *)
(* ExecutedWithinApproval: why the re-check under the lock is enough.      *)
(***************************************************************************)
BeforeSubmit == {"idle"} \cup ManagerSteps \cup {"recheck", "create", "created_event", "submit"}
AfterSubmit  == (AdapterSteps \ {"submit"}) \cup
                {"reconcile", "submitted_event", "outcome_event", "read_before",
                 "read_current", "write_position", "opened_event"}

(* A call inside the critical section holds the lock of its order. *)
TokenHeld == \A c \in Calls : InLock(c) => HoldsToken(c)

(* Past the re-check and before the insert, the order still does not exist. *)
StillAbsent == \A c \in Calls : pc[c] = "create" => ~Exists(IdOf[c])

(* Past the insert and before the submission, nobody has submitted it.      *)
NotSubmitted ==
    \A c \in Calls : pc[c] \in {"created_event", "submit"} =>
        /\ Exists(IdOf[c])
        /\ orderSize[IdOf[c]] = ClampedSize(c)
        /\ \A d \in submits : IdOf[d] # IdOf[c]

SubmitsKnown ==
    \A c \in Calls : /\ pc[c] \in BeforeSubmit => c \notin submits
                     /\ pc[c] \in AfterSubmit => c \in submits

(* Whatever was submitted has its row, of the size it was submitted with.   *)
SubmitsPersisted ==
    \A c \in submits : Exists(IdOf[c]) /\ orderSize[IdOf[c]] = ClampedSize(c)

FillsSubmitted ==
    \A c \in Calls : fill[c] > 0 => c \in submits /\ fill[c] <= ClampedSize(c)

ResultKnown == \A c \in Calls : pc[c] = "reconcile" => result[c] # None

IdempotencyInv ==
    /\ TokenHeld
    /\ StillAbsent
    /\ NotSubmitted
    /\ SubmitsKnown
    /\ SubmitsPersisted
    /\ FillsSubmitted
    /\ ResultKnown
    /\ AtMostOneSubmission
=============================================================================
