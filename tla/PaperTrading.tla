----------------------------- MODULE PaperTrading -----------------------------
(***************************************************************************)
(* OrderManager bound to PaperExecutionAdapter, with the cancel route that *)
(* calls the same adapter.  submitOrder walks the order row through its    *)
(* lifecycle with blind status updates and sleeps twice on the way; a      *)
(* cancel reads the status, then writes "cancelled".                       *)
(***************************************************************************)
EXTENDS CancelRoute

PaperSteps == {"submit", "validated", "latency", "match", "filled", "partial", "resting"}

ASSUME PaperAssumption == AdapterSteps = PaperSteps

vars == <<managerVars, cancelling>>

PaperTypeOK == TypeOK /\ CancelTypeOK

Init == ManagerInit /\ CancelInit

-----------------------------------------------------------------------------
(***************************************************************************)
(* PaperExecutionAdapter.submitOrder.                                      *)
(***************************************************************************)
(* An await that only updates the status of the order's row. *)
StatusStep(c, from, s, to) ==
    /\ Goto(c, from, to)
    /\ UpdateStatus(IdOf[c], s)
    /\ UNCHANGED <<req, lock, orderSize, submits, result, fill, flat, snapshot, position,
                   events, cancelling>>

(* findOrCreate of the row the manager has just created, then validated. *)
PaperValidate(c) ==
    /\ Goto(c, "submit", "validated")
    /\ submits' = submits \cup {c}
    /\ status' = [status EXCEPT ![IdOf[c]] = "validated"]
    /\ UNCHANGED <<req, lock, orderSize, result, fill, flat, snapshot, position, events, cancelling>>

PaperSubmitted(c) == StatusStep(c, "validated", "submitted", "latency")

PaperLive(c) == StatusStep(c, "latency", "live", "match")

(* The smaller of the requested size and what the book offers under the     *)
(* price ceiling; a fills row only for a positive amount.                    *)
FillableSize(c, fillable) == IF fillable <= ClampedSize(c) THEN fillable ELSE ClampedSize(c)
FullyFilled(c, usd)       == usd >= ClampedSize(c)

PaperMatch(c) ==
    \E fillable \in 0..MaxUsd :
      LET usd == FillableSize(c, fillable) IN
        /\ Goto(c, "match", IF FullyFilled(c, usd) THEN "filled" ELSE "partial")
        /\ fill' = [fill EXCEPT ![c] = usd]
        /\ UNCHANGED <<req, lock, submits, result, flat, snapshot, tables, cancelling>>

(* The adapter's last update, and the status it returns with its row. *)
Settle(c, from, s) ==
    /\ Goto(c, from, "reconcile")
    /\ UpdateStatus(IdOf[c], s)
    /\ result' = [result EXCEPT ![c] = s]
    /\ UNCHANGED <<req, lock, orderSize, submits, fill, flat, snapshot, position, events, cancelling>>

PaperFilled(c)    == Settle(c, "filled", "filled")

(* wrong: a partially filled order is left resting *)
PaperRests(c)     == Settle(c, "partial", "partially_filled")

PaperPartial(c)   == StatusStep(c, "partial", "partially_filled", "resting")
PaperExpired(c)   == Settle(c, "resting", "expired")

PaperStep(c) ==
    \/ PaperValidate(c) \/ PaperSubmitted(c) \/ PaperLive(c) \/ PaperMatch(c)
    \/ PaperFilled(c) \/ PaperPartial(c) \/ PaperExpired(c)

-----------------------------------------------------------------------------
CallStep(c) == (ManagerStep(c) /\ UNCHANGED cancelling) \/ PaperStep(c)

Next ==
    \/ \E c \in Calls : PlaceOrder(c) /\ UNCHANGED cancelling
    \/ \E c \in Calls : CallStep(c)
    \/ \E c \in Calls : ManagerFault(c) /\ UNCHANGED cancelling
    \/ \E i \in Ids : LockExpires(i) /\ UNCHANGED cancelling
    \/ \E i \in Ids : CancelStep(i)

Spec == Init /\ [][Next]_vars

(* Node's event loop runs every call it has not lost, and Redis expires the *)
(* keys it was given a TTL for; nobody has to place or to cancel an order.  *)
Fairness ==
    /\ \A c \in Calls : WF_vars(CallStep(c))
    /\ \A i \in Ids : WF_vars(LockExpires(i) /\ UNCHANGED cancelling)
    /\ \A i \in Ids : WF_vars(CancelWrite(i))

FairSpec == Spec /\ Fairness

-----------------------------------------------------------------------------
(***************************************************************************)
(* Properties.                                                             *)
(***************************************************************************)
(* What executed under a clientOrderId stays within the order row's size,   *)
(* and that is within the risk-approved maxSize of the call that executed.  *)
ExecutedWithinApproval ==
    \A c \in Calls : fill[c] > 0 =>
        /\ fill[c] <= orderSize[IdOf[c]]
        /\ fill[c] <= req[c].maxSize
        /\ \A d \in Calls : fill[d] > 0 /\ IdOf[d] = IdOf[c] => d = c

(* A positions row holds only fills that were executed, on its own key, and *)
(* each at most once: no interleaving of the read-modify-write counts twice.*)
PositionHoldsOnlyFills ==
    \A k \in Keys, c \in Calls :
        position[k] # None /\ position[k][c] > 0 =>
            position[k][c] = 1 /\ fill[c] > 0 /\ Key(c) = k

(* The audit trail is complete for an executed fill that reached a position *)
(* (order-manager.ts orders the events before the fold): never a position   *)
(* without its RISK_APPROVED, ORDER_CREATED and ORDER_SUBMITTED events.     *)
PositionIsAudited ==
    \A k \in Keys, c \in Calls :
        position[k] # None /\ position[k][c] > 0 =>
            {"RISK_APPROVED", "ORDER_CREATED", "ORDER_SUBMITTED"} \X {c} \subseteq events

(* However many folds of one position overlap, throw or are cut off by a    *)
(* crash, what it holds was executed once, is its own and is audited.       *)
PositionInv == PositionHoldsOnlyFills /\ PositionIsAudited

LifecycleRank(s) ==
    CASE s = None -> 0 [] s = "created" -> 1 [] s = "validated" -> 2 [] s = "signed" -> 3
      [] s = "submitted" -> 4 [] s = "live" -> 5 [] s = "partially_filled" -> 6 [] OTHER -> 7

(* An order only moves forward through its lifecycle, unless a cancel has   *)
(* run beside its submission, which then goes on: no retry, late write or   *)
(* recovery of another call sets a row back.                                *)
LifecycleForward ==
    [][\A i \in Ids : status[i] = "cancelled"
                         \/ LifecycleRank(status[i]) <= LifecycleRank(status'[i])]_vars

(* A call that an exception or a crash has ended.                           *)
Lost(c) == pc[c] \in {"failed", "crashed"}

(* Every created order ends in a terminal status for good, unless a call of *)
(* it was lost: nothing else may leave it half way.  And whatever happens to*)
(* the call that holds it, its lock becomes free again.                     *)
OrderSettles ==
    \A i \in Ids :
        /\ Exists(i) ~>
              [](status[i] \in TerminalStatuses) \/ \E c \in Calls : IdOf[c] = i /\ Lost(c)
        /\ \A c \in Calls : lock[i] = c ~> lock[i] # c

(* Every fill ends up folded into its position, unless its call was lost.   *)
FillReachesPosition ==
    \A c \in Calls : fill[c] > 0 ~>
        (position[Key(c)] # None /\ position[Key(c)][c] = 1) \/ Lost(c)

-----------------------------------------------------------------------------
(***************************************************************************)
(* The ledger PaperTrading implements.                                     *)
(***************************************************************************)
SubmittersOf(i) == {c \in submits : IdOf[c] = i}
Submitted(i)    == SubmittersOf(i) # {}
Executor(i)     == IF Submitted(i) THEN CHOOSE c \in SubmittersOf(i) : TRUE ELSE None
Booked(i)       == /\ Submitted(i)
                   /\ position[KeyOf[i]] # None
                   /\ position[KeyOf[i]][Executor(i)] > 0

Ledger == INSTANCE OrderLedger WITH
    executor <- [i \in Ids |-> Executor(i)],
    limit    <- [i \in Ids |-> IF Submitted(i) THEN orderSize[i] ELSE 0],
    executed <- [i \in Ids |-> IF Submitted(i) THEN fill[Executor(i)] ELSE 0],
    booked   <- [i \in Ids |-> Booked(i)]

(* Placing orders implements the ledger when no two orders share a position: *)
(* one submission, one execution within its size, one booking, never undone. *)
ImplementsLedger == Ledger!Spec
=============================================================================
