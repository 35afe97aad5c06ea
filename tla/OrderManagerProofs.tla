------------------------- MODULE OrderManagerProofs --------------------------
(***************************************************************************)
(* Lemmas about placeOrder over any execution adapter: every step keeps    *)
(* its variables in their types, and keeps IdempotencyInv.                 *)
(***************************************************************************)
EXTENDS OrderManager, TLAPS

USE OrderManagerAssumption

-----------------------------------------------------------------------------
(***************************************************************************)
(* Type correctness.                                                       *)
(***************************************************************************)
LEMMA ClampedSizeType ==
    ASSUME NEW c \in Calls, req \in [Calls -> Requests]
    PROVE  /\ ClampedSize(c) \in 1..MaxUsd
           /\ ClampedSize(c) <= req[c].maxSize
BY DEF ClampedSize, Requests

LEMMA FoldedType ==
    ASSUME NEW c \in Calls, NEW row \in Rows
    PROVE  Folded(row, c) \in [Calls -> Nat]
BY DEF Folded, Rows

(* Each kind of step keeps every variable in its type. *)
LEMMA PlaceTypeOK ==
    ASSUME TypeOK, NEW c \in Calls, PlaceOrder(c)
    PROVE  TypeOK'
BY DEF TypeOK, PlaceOrder, RejectSignal, ApproveSignal, Goto, Record, Pc, ManagerSteps,
       Finished, EventTypes

LEMMA ManagerTypeOK ==
    ASSUME TypeOK, NEW c \in Calls, ManagerStep(c)
    PROVE  TypeOK'
<1> USE DEF TypeOK, Goto, Pc, ManagerSteps, LockedSteps, Finished
<1>1. CASE FastCheck(c)      BY <1>1 DEF FastCheck, tables
<1>2. CASE AcquireLock(c)    BY <1>2 DEF AcquireLock, tables
<1>3. CASE Contended(c)      BY <1>3 DEF Contended, tables
<1>4. CASE Recheck(c)        BY <1>4 DEF Recheck, RecheckNext, tables
<1>5. CASE CreateOrder(c)
  BY <1>5, ClampedSizeType DEF CreateOrder, FindOrCreate, Statuses, OpenStatuses
<1>6. CASE CreatedEvent(c)   BY <1>6 DEF CreatedEvent, Record, EventTypes
<1>7. CASE Reconcile(c)
  BY <1>7 DEF Reconcile, UpdateStatus
<1>8. CASE SubmittedEvent(c) BY <1>8 DEF SubmittedEvent, Record, EventTypes
<1>9. CASE OutcomeEvent(c)   BY <1>9 DEF OutcomeEvent, Record, EventTypes
<1>10. CASE ReadBefore(c)    BY <1>10 DEF ReadBefore, tables
<1>11. CASE ReadCurrent(c)   BY <1>11 DEF ReadCurrent, tables, Key
<1>12. CASE WritePosition(c)
  <2>1. Folded(snapshot[c], c) \in Rows
    BY FoldedType DEF Rows
  <2> QED BY <1>12, <2>1 DEF WritePosition, tables
<1>13. CASE OpenedEvent(c)   BY <1>13 DEF OpenedEvent, Record, EventTypes
<1>14. CASE ReleaseLock(c)   BY <1>14 DEF ReleaseLock, tables
<1> QED
  BY <1>1, <1>2, <1>3, <1>4, <1>5, <1>6, <1>7, <1>8, <1>9, <1>10, <1>11, <1>12, <1>13, <1>14
     DEF ManagerStep

LEMMA FaultTypeOK ==
    ASSUME TypeOK, NEW c \in Calls, ManagerFault(c)
    PROVE  TypeOK'
BY DEF TypeOK, ManagerFault, Throw, Crash, tables, Pc, LockedSteps, Finished

LEMMA ExpiryTypeOK ==
    ASSUME TypeOK, NEW i \in Ids, LockExpires(i)
    PROVE  TypeOK'
BY DEF TypeOK, LockExpires, tables

LEMMA InitTypeOK == ManagerInit => TypeOK
BY DEF ManagerInit, TypeOK, Requests, Pc, Rows

LEMMA StatusesKnown ==
    {"validated", "submitted", "live", "partially_filled", "filled", "expired", "cancelled",
     "rejected"} \subseteq Statuses \ {None}
BY DEF Statuses, OpenStatuses, TerminalStatuses

-----------------------------------------------------------------------------
(***************************************************************************)
(* Idempotency: IdempotencyInv is inductive when the lease outlasts every  *)
(* running submission.                                                     *)
(***************************************************************************)
(* A step that only moves one call, between program points that claim no   *)
(* more about it than is known.                                            *)
LEMMA MoveIdempotent ==
    ASSUME TypeOK, IdempotencyInv, NEW c \in Calls, NEW to \in Pc,
           pc' = [pc EXCEPT ![c] = to],
           UNCHANGED <<req, lock, status, orderSize, submits, result, fill>>,
           to \in LockedSteps => InLock(c),
           to = "create" => ~Exists(IdOf[c]),
           to \in {"created_event", "submit"} => pc[c] = "created_event",
           to \in BeforeSubmit => pc[c] \in BeforeSubmit,
           to \in AfterSubmit => pc[c] \in AfterSubmit,
           to # "reconcile"
    PROVE  IdempotencyInv'
<1> USE DEF IdempotencyInv, TypeOK, InLock, HoldsToken, Exists
<1>1. \A d \in Calls : pc'[d] = IF d = c THEN to ELSE pc[d]
  OBVIOUS
<1>2. TokenHeld'           BY <1>1 DEF TokenHeld
<1>3. StillAbsent'         BY <1>1 DEF StillAbsent
<1>4. NotSubmitted'        BY <1>1 DEF NotSubmitted, ClampedSize
<1>5. SubmitsKnown'        BY <1>1 DEF SubmitsKnown
<1>6. SubmitsPersisted'    BY DEF SubmitsPersisted, ClampedSize
<1>7. FillsSubmitted'      BY DEF FillsSubmitted, ClampedSize
<1>8. ResultKnown'         BY <1>1 DEF ResultKnown
<1>9. AtMostOneSubmission' BY DEF AtMostOneSubmission
<1> QED BY <1>2, <1>3, <1>4, <1>5, <1>6, <1>7, <1>8, <1>9

LEMMA PlaceIdempotent ==
    ASSUME TypeOK, IdempotencyInv, NEW c \in Calls, PlaceOrder(c)
    PROVE  IdempotencyInv'
<1> USE DEF IdempotencyInv, TypeOK, PlaceOrder, RejectSignal, ApproveSignal, Goto, InLock,
            HoldsToken, Exists
<1>0. /\ {"idle", "fast_check", "returned"} \cap (LockedSteps \cup AfterSubmit) = {}
      /\ "idle" \in BeforeSubmit
  BY DEF LockedSteps, AfterSubmit, BeforeSubmit, ManagerSteps, Finished
<1>1. /\ pc[c] = "idle" /\ c \notin submits
      /\ \A d \in Calls \ {c} : pc'[d] = pc[d] /\ req'[d] = req[d]
      /\ pc'[c] \in {"fast_check", "returned"}
      /\ UNCHANGED <<lock, status, orderSize, submits, result, fill>>
  BY <1>0 DEF SubmitsKnown
<1>2. TokenHeld'           BY <1>0, <1>1 DEF TokenHeld
<1>3. StillAbsent'         BY <1>1 DEF StillAbsent
<1>4. NotSubmitted'        BY <1>1 DEF NotSubmitted, ClampedSize
<1>5. SubmitsKnown'        BY <1>0, <1>1 DEF SubmitsKnown
<1>6. SubmitsPersisted'    BY <1>1 DEF SubmitsPersisted, ClampedSize
<1>7. FillsSubmitted'      BY <1>1 DEF FillsSubmitted, ClampedSize
<1>8. ResultKnown'         BY <1>1 DEF ResultKnown
<1>9. AtMostOneSubmission' BY <1>1 DEF AtMostOneSubmission
<1> QED BY <1>2, <1>3, <1>4, <1>5, <1>6, <1>7, <1>8, <1>9

(* The steps of placeOrder that only move the call.                         *)
LEMMA ManagerMoveIdempotent ==
    ASSUME TypeOK, IdempotencyInv, NEW c \in Calls,
           \/ FastCheck(c) \/ Contended(c) \/ Recheck(c) \/ CreatedEvent(c)
           \/ SubmittedEvent(c) \/ OutcomeEvent(c) \/ ReadBefore(c) \/ ReadCurrent(c)
           \/ WritePosition(c) \/ OpenedEvent(c) \/ ManagerFault(c)
    PROVE  IdempotencyInv'
<1> USE DEF Goto, Pc, ManagerSteps, LockedSteps, Finished, BeforeSubmit, AfterSubmit,
            InLock, tables, TypeOK
<1>1. CASE FastCheck(c)      BY <1>1, MoveIdempotent DEF FastCheck
<1>2. CASE Contended(c)      BY <1>2, MoveIdempotent DEF Contended
<1>3. CASE Recheck(c)        BY <1>3, MoveIdempotent DEF Recheck, RecheckNext
<1>4. CASE CreatedEvent(c)   BY <1>4, MoveIdempotent DEF CreatedEvent
<1>5. CASE SubmittedEvent(c) BY <1>5, MoveIdempotent DEF SubmittedEvent
<1>6. CASE OutcomeEvent(c)   BY <1>6, MoveIdempotent DEF OutcomeEvent
<1>7. CASE ReadBefore(c)     BY <1>7, MoveIdempotent DEF ReadBefore
<1>8. CASE ReadCurrent(c)    BY <1>8, MoveIdempotent DEF ReadCurrent
<1>9. CASE WritePosition(c)  BY <1>9, MoveIdempotent DEF WritePosition
<1>10. CASE OpenedEvent(c)   BY <1>10, MoveIdempotent DEF OpenedEvent
<1>11. CASE Throw(c)         BY <1>11, MoveIdempotent DEF Throw
<1>12. CASE Crash(c)         BY <1>12, MoveIdempotent DEF Crash
<1> QED
  BY <1>1, <1>2, <1>3, <1>4, <1>5, <1>6, <1>7, <1>8, <1>9, <1>10, <1>11, <1>12 DEF ManagerFault

LEMMA AcquireIdempotent ==
    ASSUME TypeOK, IdempotencyInv, NEW c \in Calls, AcquireLock(c)
    PROVE  IdempotencyInv'
<1> USE DEF IdempotencyInv, TypeOK, InLock, HoldsToken, Exists, LockFree, BeforeSubmit, AfterSubmit,
            LockedSteps, ManagerSteps
<1>a. CASE ~LockFree(IdOf[c])
  BY <1>a, MoveIdempotent DEF AcquireLock, Goto, tables, Pc
<1>b. CASE LockFree(IdOf[c])
  <2>1. /\ pc[c] = "acquire" /\ lock[IdOf[c]] = None
        /\ \A d \in Calls : pc'[d] = IF d = c THEN "recheck" ELSE pc[d]
        /\ \A i \in Ids : lock'[i] = IF i = IdOf[c] THEN c ELSE lock[i]
        /\ UNCHANGED <<req, status, orderSize, submits, result, fill>>
    BY <1>b DEF AcquireLock, Goto, tables
  <2>2. TokenHeld'           BY <2>1 DEF TokenHeld
  <2>3. StillAbsent'         BY <2>1 DEF StillAbsent
  <2>4. NotSubmitted'        BY <2>1 DEF NotSubmitted, ClampedSize
  <2>5. SubmitsKnown'        BY <2>1 DEF SubmitsKnown
  <2>6. SubmitsPersisted'    BY <2>1 DEF SubmitsPersisted, ClampedSize
  <2>7. FillsSubmitted'      BY <2>1 DEF FillsSubmitted, ClampedSize
  <2>8. ResultKnown'         BY <2>1 DEF ResultKnown
  <2>9. AtMostOneSubmission' BY <2>1 DEF AtMostOneSubmission
  <2> QED BY <2>2, <2>3, <2>4, <2>5, <2>6, <2>7, <2>8, <2>9
<1> QED BY <1>a, <1>b

LEMMA ReleaseIdempotent ==
    ASSUME TypeOK, IdempotencyInv, NEW c \in Calls, ReleaseLock(c)
    PROVE  IdempotencyInv'
<1> USE DEF IdempotencyInv, TypeOK, InLock, HoldsToken, Exists, BeforeSubmit, AfterSubmit,
            LockedSteps, ManagerSteps, Finished
<1>1. /\ pc[c] \in {"release", "unwind"}
      /\ pc'[c] \in {"returned", "failed"}
      /\ \A d \in Calls \ {c} : pc'[d] = pc[d]
      /\ \A i \in Ids : lock[i] # c => lock'[i] = lock[i]
      /\ UNCHANGED <<req, status, orderSize, submits, result, fill>>
  BY DEF ReleaseLock, Goto, tables
<1>2. TokenHeld'           BY <1>1 DEF TokenHeld
<1>3. StillAbsent'         BY <1>1 DEF StillAbsent
<1>4. NotSubmitted'        BY <1>1 DEF NotSubmitted, ClampedSize
<1>5. SubmitsKnown'        BY <1>1 DEF SubmitsKnown
<1>6. SubmitsPersisted'    BY <1>1 DEF SubmitsPersisted, ClampedSize
<1>7. FillsSubmitted'      BY <1>1 DEF FillsSubmitted, ClampedSize
<1>8. ResultKnown'         BY <1>1 DEF ResultKnown
<1>9. AtMostOneSubmission' BY <1>1 DEF AtMostOneSubmission
<1> QED BY <1>2, <1>3, <1>4, <1>5, <1>6, <1>7, <1>8, <1>9

(* The lock of a running submission does not expire: LeaseCovers.           *)
LEMMA ExpiryIdempotent ==
    ASSUME TypeOK, IdempotencyInv, LeaseCovers, NEW i \in Ids, LockExpires(i)
    PROVE  IdempotencyInv'
<1> USE DEF IdempotencyInv, TypeOK, InLock, HoldsToken, Exists
<1>1. /\ \A c \in Calls : InLock(c) => IdOf[c] # i \/ lock[i] # c
      /\ \A j \in Ids \ {i} : lock'[j] = lock[j]
      /\ UNCHANGED <<pc, req, status, orderSize, submits, result, fill>>
  BY DEF LockExpires, MayExpire, tables
<1>2. TokenHeld'           BY <1>1 DEF TokenHeld
<1>3. StillAbsent'         BY <1>1 DEF StillAbsent
<1>4. NotSubmitted'        BY <1>1 DEF NotSubmitted, ClampedSize
<1>5. SubmitsKnown'        BY <1>1 DEF SubmitsKnown
<1>6. SubmitsPersisted'    BY <1>1 DEF SubmitsPersisted, ClampedSize
<1>7. FillsSubmitted'      BY <1>1 DEF FillsSubmitted, ClampedSize
<1>8. ResultKnown'         BY <1>1 DEF ResultKnown
<1>9. AtMostOneSubmission' BY <1>1 DEF AtMostOneSubmission
<1> QED BY <1>2, <1>3, <1>4, <1>5, <1>6, <1>7, <1>8, <1>9

(* The insert: its row is new, because the holder found none and only the   *)
(* holder inserts.                                                          *)
LEMMA CreateIdempotent ==
    ASSUME TypeOK, IdempotencyInv, NEW c \in Calls, CreateOrder(c)
    PROVE  IdempotencyInv'
<1> USE DEF IdempotencyInv, TypeOK, InLock, HoldsToken, Exists, BeforeSubmit, AfterSubmit,
            LockedSteps, ManagerSteps, Statuses, OpenStatuses
<1>1. /\ pc[c] = "create"
      /\ \A d \in Calls : pc'[d] = IF d = c THEN "created_event" ELSE pc[d]
      /\ \A i \in Ids : status'[i] = IF i = IdOf[c] THEN "created" ELSE status[i]
      /\ \A i \in Ids : orderSize'[i] = IF i = IdOf[c] THEN ClampedSize(c) ELSE orderSize[i]
      /\ UNCHANGED <<req, lock, submits, result, fill>>
      /\ ~Exists(IdOf[c])
  BY ClampedSizeType DEF CreateOrder, Goto, FindOrCreate, StillAbsent
<1>2. TokenHeld'           BY <1>1 DEF TokenHeld
<1>3. StillAbsent'         BY <1>1 DEF StillAbsent, TokenHeld
<1>4. NotSubmitted'        BY <1>1 DEF NotSubmitted, SubmitsPersisted, ClampedSize
<1>5. SubmitsKnown'        BY <1>1 DEF SubmitsKnown
<1>6. SubmitsPersisted'    BY <1>1 DEF SubmitsPersisted, ClampedSize
<1>7. FillsSubmitted'      BY <1>1 DEF FillsSubmitted, ClampedSize
<1>8. ResultKnown'         BY <1>1 DEF ResultKnown
<1>9. AtMostOneSubmission' BY <1>1 DEF AtMostOneSubmission
<1> QED BY <1>2, <1>3, <1>4, <1>5, <1>6, <1>7, <1>8, <1>9

(* A submitted call writes the status of its row, and possibly its result.  *)
LEMMA StatusIdempotent ==
    ASSUME TypeOK, IdempotencyInv, NEW c \in Calls, NEW s \in Statuses, NEW to \in AfterSubmit,
           pc[c] \in AfterSubmit,
           pc' = [pc EXCEPT ![c] = to],
           UpdateStatus(IdOf[c], s),
           \A d \in Calls : result'[d] = result[d] \/ (d = c /\ result'[d] = s),
           to = "reconcile" => result'[c] = s,
           UNCHANGED <<req, lock, orderSize, submits, fill>>
    PROVE  IdempotencyInv'
<1> USE DEF IdempotencyInv, TypeOK, InLock, HoldsToken, Exists, BeforeSubmit, AfterSubmit,
            LockedSteps, ManagerSteps
<1>1. /\ c \in submits
      /\ \A d \in Calls : pc'[d] = IF d = c THEN to ELSE pc[d]
      /\ \A i \in Ids : Exists(i)' <=> Exists(i)
      /\ s # None
  BY DEF SubmitsKnown, SubmitsPersisted, UpdateStatus
<1>2. TokenHeld'           BY <1>1 DEF TokenHeld
<1>3. StillAbsent'         BY <1>1 DEF StillAbsent
<1>4. NotSubmitted'        BY <1>1 DEF NotSubmitted, ClampedSize
<1>5. SubmitsKnown'        BY <1>1 DEF SubmitsKnown
<1>6. SubmitsPersisted'    BY <1>1 DEF SubmitsPersisted, ClampedSize
<1>7. FillsSubmitted'      BY <1>1 DEF FillsSubmitted, ClampedSize
<1>8. ResultKnown'         BY <1>1 DEF ResultKnown
<1>9. AtMostOneSubmission' BY <1>1 DEF AtMostOneSubmission
<1> QED BY <1>2, <1>3, <1>4, <1>5, <1>6, <1>7, <1>8, <1>9

(* The step that enters the adapter: nobody has submitted this order.       *)
LEMMA EnterIdempotent ==
    ASSUME TypeOK, IdempotencyInv, NEW c \in Calls, NEW to \in AfterSubmit,
           pc[c] = "submit",
           pc' = [pc EXCEPT ![c] = to],
           submits' = submits \cup {c},
           \A i \in Ids : Exists(i)' <=> Exists(i),
           \A d \in Calls \ {c} : result'[d] = result[d],
           to = "reconcile" => result'[c] # None,
           UNCHANGED <<req, lock, orderSize, fill>>
    PROVE  IdempotencyInv'
<1> USE DEF IdempotencyInv, TypeOK, InLock, HoldsToken, Exists, BeforeSubmit, AfterSubmit,
            LockedSteps, ManagerSteps
<1>1. /\ Exists(IdOf[c]) /\ orderSize[IdOf[c]] = ClampedSize(c)
      /\ \A d \in submits : IdOf[d] # IdOf[c]
      /\ \A d \in Calls : pc'[d] = IF d = c THEN to ELSE pc[d]
  BY DEF NotSubmitted
<1>2. TokenHeld'           BY <1>1 DEF TokenHeld
<1>3. StillAbsent'         BY <1>1 DEF StillAbsent
<1>4. NotSubmitted'        BY <1>1 DEF NotSubmitted, TokenHeld, ClampedSize
<1>5. SubmitsKnown'        BY <1>1 DEF SubmitsKnown
<1>6. SubmitsPersisted'    BY <1>1 DEF SubmitsPersisted, ClampedSize
<1>7. FillsSubmitted'      BY <1>1 DEF FillsSubmitted, ClampedSize
<1>8. ResultKnown'         BY <1>1 DEF ResultKnown
<1>9. AtMostOneSubmission' BY <1>1 DEF AtMostOneSubmission
<1> QED BY <1>2, <1>3, <1>4, <1>5, <1>6, <1>7, <1>8, <1>9

LEMMA ReconcileIdempotent ==
    ASSUME TypeOK, IdempotencyInv, NEW c \in Calls, Reconcile(c)
    PROVE  IdempotencyInv'
<1>1. result[c] \in Statuses
  BY DEF Reconcile, Goto, IdempotencyInv, ResultKnown, TypeOK
<1> QED
  BY <1>1, StatusIdempotent DEF Reconcile, Goto, AfterSubmit, TypeOK

LEMMA CancelIdempotent ==
    ASSUME TypeOK, IdempotencyInv, NEW i \in Ids, Exists(i), UpdateStatus(i, "cancelled"),
           UNCHANGED <<pc, req, lock, orderSize, submits, result, fill>>
    PROVE  IdempotencyInv'
<1> USE DEF IdempotencyInv, TypeOK, InLock, HoldsToken
<1>1. \A j \in Ids : Exists(j)' <=> Exists(j)
  BY StatusesKnown DEF Exists, UpdateStatus
<1>2. TokenHeld'           BY <1>1 DEF TokenHeld
<1>3. StillAbsent'         BY <1>1 DEF StillAbsent
<1>4. NotSubmitted'        BY <1>1 DEF NotSubmitted, ClampedSize
<1>5. SubmitsKnown'        BY <1>1 DEF SubmitsKnown
<1>6. SubmitsPersisted'    BY <1>1 DEF SubmitsPersisted, ClampedSize
<1>7. FillsSubmitted'      BY <1>1 DEF FillsSubmitted, ClampedSize
<1>8. ResultKnown'         BY <1>1 DEF ResultKnown
<1>9. AtMostOneSubmission' BY <1>1 DEF AtMostOneSubmission
<1> QED BY <1>2, <1>3, <1>4, <1>5, <1>6, <1>7, <1>8, <1>9

LEMMA StutterIdempotent ==
    ASSUME IdempotencyInv, UNCHANGED managerVars
    PROVE  IdempotencyInv'
BY DEF managerVars, IdempotencyInv, TokenHeld, StillAbsent, NotSubmitted, SubmitsKnown,
       SubmitsPersisted, FillsSubmitted, ResultKnown, AtMostOneSubmission, InLock, HoldsToken,
       Exists, ClampedSize

LEMMA InitIdempotent == ManagerInit => IdempotencyInv
BY DEF ManagerInit, IdempotencyInv, TokenHeld, StillAbsent, NotSubmitted, SubmitsKnown,
       SubmitsPersisted, FillsSubmitted, ResultKnown, AtMostOneSubmission, InLock, LockedSteps,
       AfterSubmit

(* Every step of placeOrder outside the adapter keeps IdempotencyInv.       *)
LEMMA ManagerIdempotent ==
    ASSUME TypeOK, IdempotencyInv, NEW c \in Calls,
           PlaceOrder(c) \/ ManagerStep(c) \/ ManagerFault(c)
    PROVE  IdempotencyInv'
BY PlaceIdempotent, ManagerMoveIdempotent, AcquireIdempotent, ReleaseIdempotent, CreateIdempotent,
   ReconcileIdempotent DEF ManagerStep

(* No step of placeOrder deletes a row of orders.                           *)
LEMMA ManagerKeepsRows ==
    ASSUME TypeOK, IdempotencyInv, NEW c \in Calls, NEW i \in Ids, Exists(i),
           PlaceOrder(c) \/ ManagerStep(c) \/ ManagerFault(c)
    PROVE  Exists(i)'
<1> USE DEF TypeOK, Exists, UpdateStatus, tables
<1>1. CASE PlaceOrder(c)
  BY <1>1 DEF PlaceOrder, RejectSignal, ApproveSignal
<1>2. CASE ManagerStep(c)
  <2>1. CASE CreateOrder(c)
    BY <2>1 DEF CreateOrder, FindOrCreate
  <2>2. CASE Reconcile(c)
    BY <2>2 DEF Reconcile, Goto, IdempotencyInv, ResultKnown
  <2> QED
    BY <1>2, <2>1, <2>2 DEF ManagerStep, FastCheck, AcquireLock, Contended, Recheck, CreatedEvent,
       SubmittedEvent, OutcomeEvent, ReadBefore, ReadCurrent, WritePosition, OpenedEvent, ReleaseLock
<1>3. CASE ManagerFault(c)
  BY <1>3 DEF ManagerFault, Throw, Crash
<1> QED BY <1>1, <1>2, <1>3
=============================================================================
