----------------------------- MODULE CancelRoute ------------------------------
(***************************************************************************)
(* DELETE /api/orders/:id.  The route is bound to the paper adapter, of    *)
(* whatever mode the order is: cancelOrder reads the row by its internal   *)
(* id, stops at a terminal status, then writes "cancelled".                *)
(***************************************************************************)
EXTENDS OrderManager

CONSTANT CancellableIds     \* orders whose owner may call DELETE /api/orders/:id

ASSUME CancelAssumption == CancellableIds \subseteq Ids

VARIABLE cancelling     \* orders whose cancel has passed the terminal check

CancelTypeOK == cancelling \subseteq CancellableIds

CancelInit == cancelling = {}

CancelCheck(i) ==
    /\ i \in CancellableIds \ cancelling
    /\ Exists(i) /\ status[i] \notin TerminalStatuses
    /\ cancelling' = cancelling \cup {i}
    /\ UNCHANGED managerVars

CancelWrite(i) ==
    /\ i \in cancelling
    /\ cancelling' = cancelling \ {i}
    /\ UpdateStatus(i, "cancelled")
    /\ UNCHANGED <<pc, req, lock, orderSize, submits, result, fill, flat, snapshot, position, events>>

CancelStep(i) == CancelCheck(i) \/ CancelWrite(i)

(* A cancel past its check has a row to update: rows are never deleted. *)
CancelsPersisted == \A i \in cancelling : Exists(i)
=============================================================================
