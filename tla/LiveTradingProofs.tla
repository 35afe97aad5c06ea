--------------------------- MODULE LiveTradingProofs ---------------------------
(***************************************************************************)
(* Proofs about LiveTrading for any number of calls, orders and processes. *)
(***************************************************************************)
EXTENDS LiveTrading, OrderManagerProofs

USE OrderManagerAssumption, CancelAssumption, LiveAssumption

-----------------------------------------------------------------------------
(***************************************************************************)
(* Type correctness.                                                       *)
(***************************************************************************)
OwnTypeOK ==
    /\ CancelTypeOK
    /\ approved \in [Ids -> 0..MaxUsd]
    /\ stored \subseteq Ids
    /\ stage \in [Calls -> Stages]
    /\ seen \subseteq Calls
    /\ answer \in [Calls -> Answers \cup {None}]
    /\ posts \in [Calls -> Nat]
    /\ exchange \in [Calls -> PostFates]

LEMMA LiveTypeParts == LiveTypeOK <=> TypeOK /\ OwnTypeOK
BY DEF LiveTypeOK, OwnTypeOK

LEMMA LiveStepTypeOK ==
    ASSUME LiveTypeOK, NEW c \in Calls, LiveStep(c)
    PROVE  LiveTypeOK'
<1> USE DEF LiveTypeOK, TypeOK, CancelTypeOK, Goto, Return, Enter, Pc, LockedSteps, LiveSteps,
            tables, liveVars
<1>1. {"rejected", "submitted"} \subseteq Statuses
  BY StatusesKnown
<1>2. CASE BuildRejected(c) BY <1>1, <1>2 DEF BuildRejected
<1>3. CASE Build(c)         BY <1>3 DEF Build
<1>4. CASE PostDuplicate(c) BY <1>1, <1>4 DEF PostDuplicate
<1>5. CASE Post(c)          BY <1>5 DEF Post, PostFates
<1>6. CASE PostResolved(c)  BY <1>1, <1>6 DEF PostResolved, ResolvedStatus
<1>7. CASE PostRejected(c)  BY <1>1, <1>7 DEF PostRejected
<1>8. CASE PostAmbiguous(c) BY <1>8 DEF PostAmbiguous, AfterAmbiguity
<1>9. CASE LookupFound(c)   BY <1>1, <1>9 DEF LookupFound
<1>10. CASE LookupFailed(c) BY <1>10 DEF LookupFailed, Answers
<1> QED
  BY <1>2, <1>3, <1>4, <1>5, <1>6, <1>7, <1>8, <1>9, <1>10 DEF LiveStep

LEMMA RouteTypeOK ==
    ASSUME LiveTypeOK, NEW c \in Calls, RouteStep(c)
    PROVE  LiveTypeOK'
<1>1. CASE ReadPrepared(c) \/ ConsumePrepared(c)
  BY <1>1 DEF LiveTypeOK, TypeOK, CancelTypeOK, ReadPrepared, ConsumePrepared, Refuse, Stages,
     Answers, managerVars
<1>2. CASE PlacePrepared(c)
  <2>1. TypeOK'
    BY <1>2, PlaceTypeOK DEF PlacePrepared, PlaceOrder, LiveTypeOK
  <2> QED BY <1>2, <2>1 DEF LiveTypeOK, CancelTypeOK, PlacePrepared, liveVars
<1> QED BY <1>1, <1>2 DEF RouteStep

(* LiveTypeOK: every variable stays in its type. *)
THEOREM LiveTypeCorrect == Spec => []LiveTypeOK
<1>1. Init => LiveTypeOK
  BY InitTypeOK DEF Init, CancelInit, LiveTypeOK, CancelTypeOK, Stages, Answers, PostFates
<1>2. LiveTypeOK /\ [Next]_vars => LiveTypeOK'
  <2> SUFFICES ASSUME LiveTypeOK, [Next]_vars PROVE LiveTypeOK'
    OBVIOUS
  <2>1. TypeOK /\ OwnTypeOK
    BY LiveTypeParts
  <2>2. ASSUME NEW i \in Ids, Prepare(i) \/ PreparedExpires(i) PROVE LiveTypeOK'
    BY <2>2 DEF LiveTypeOK, TypeOK, CancelTypeOK, Prepare, PreparedExpires, managerVars
  <2>3. ASSUME NEW c \in Calls, ManagerMoves(c) PROVE LiveTypeOK'
    <3>1. TypeOK'
      BY <2>1, <2>3, ManagerTypeOK DEF ManagerMoves
    <3> QED BY <2>3, <3>1 DEF LiveTypeOK, CancelTypeOK, ManagerMoves, Answers
  <2>4. ASSUME NEW c \in Calls, LiveFault(c) PROVE LiveTypeOK'
    <3>1. TypeOK'
      BY <2>1, <2>4, FaultTypeOK DEF LiveFault
    <3> QED BY <2>4, <3>1 DEF LiveTypeOK, CancelTypeOK, LiveFault, liveVars
  <2>5. ASSUME NEW c \in Calls, ExchangeDecides(c) PROVE LiveTypeOK'
    BY <2>5 DEF LiveTypeOK, TypeOK, CancelTypeOK, ExchangeDecides, PostFates, managerVars
  <2>6. ASSUME NEW i \in Ids, LockExpires(i), UNCHANGED <<cancelling, liveVars>> PROVE LiveTypeOK'
    <3>1. TypeOK'
      BY <2>1, <2>6, ExpiryTypeOK
    <3> QED BY <2>6, <3>1 DEF LiveTypeOK, CancelTypeOK, liveVars
  <2>7. ASSUME NEW i \in Ids, CancelStep(i), UNCHANGED liveVars PROVE LiveTypeOK'
    <3>1. "cancelled" \in Statuses
      BY StatusesKnown
    <3> QED
      BY <2>7, <3>1 DEF LiveTypeOK, TypeOK, CancelTypeOK, CancelStep, CancelCheck, CancelWrite,
         UpdateStatus, managerVars, liveVars
  <2>8. CASE UNCHANGED vars
    BY <2>8 DEF LiveTypeOK, TypeOK, CancelTypeOK, vars, managerVars, liveVars
  <2> QED
    BY <2>2, <2>3, <2>4, <2>5, <2>6, <2>7, <2>8, LiveStepTypeOK, RouteTypeOK DEF Next, CallStep
<1> QED BY <1>1, <1>2, PTL DEF Spec

-----------------------------------------------------------------------------
(***************************************************************************)
(* IdempotencyInv over this adapter.                                       *)
(***************************************************************************)
(* Entering the adapter: nobody has submitted this order.                   *)
LEMMA BuildIdempotent ==
    ASSUME TypeOK, IdempotencyInv, NEW c \in Calls, Build(c) \/ BuildRejected(c)
    PROVE  IdempotencyInv'
<1>1. \A i \in Ids : Exists(i)' <=> Exists(i)
  BY DEF Build, BuildRejected, Exists, tables
<1>2. {"post", "reconcile"} \subseteq AfterSubmit
  BY DEF AfterSubmit, LiveSteps
<1>3. CASE Build(c)
  BY <1>1, <1>2, <1>3, EnterIdempotent DEF Build, Goto, Enter, tables
<1>4. CASE BuildRejected(c)
  <2>1. result'[c] # None /\ \A d \in Calls \ {c} : result'[d] = result[d]
    BY <1>4, StatusesKnown DEF BuildRejected, Return, TypeOK
  <2> QED
    BY <1>1, <1>2, <1>4, <2>1, EnterIdempotent DEF BuildRejected, Return, Goto, Enter, tables
<1> QED BY <1>3, <1>4

(* A step inside the adapter: the call has submitted and still has.         *)
LEMMA InsideIdempotent ==
    ASSUME TypeOK, IdempotencyInv, NEW c \in Calls,
           pc[c] \in LiveSteps \ {"submit"},
           NEW to \in (LiveSteps \ {"submit"}) \cup {"reconcile", "unwind"},
           pc' = [pc EXCEPT ![c] = to],
           \A d \in Calls \ {c} : result'[d] = result[d],
           to = "reconcile" => result'[c] # None,
           UNCHANGED <<req, lock, status, orderSize, submits, fill>>
    PROVE  IdempotencyInv'
<1> USE DEF IdempotencyInv, TypeOK, InLock, HoldsToken, Exists, BeforeSubmit, AfterSubmit,
            LockedSteps, ManagerSteps, LiveSteps
<1>1. /\ c \in submits
      /\ \A d \in Calls : pc'[d] = IF d = c THEN to ELSE pc[d]
  BY DEF SubmitsKnown
<1>2. TokenHeld'           BY <1>1 DEF TokenHeld
<1>3. StillAbsent'         BY <1>1 DEF StillAbsent
<1>4. NotSubmitted'        BY <1>1 DEF NotSubmitted, ClampedSize
<1>5. SubmitsKnown'        BY <1>1 DEF SubmitsKnown
<1>6. SubmitsPersisted'    BY <1>1 DEF SubmitsPersisted, ClampedSize
<1>7. FillsSubmitted'      BY <1>1 DEF FillsSubmitted, ClampedSize
<1>8. ResultKnown'         BY <1>1 DEF ResultKnown
<1>9. AtMostOneSubmission' BY <1>1 DEF AtMostOneSubmission
<1> QED BY <1>2, <1>3, <1>4, <1>5, <1>6, <1>7, <1>8, <1>9

LEMMA LiveStepIdempotent ==
    ASSUME LiveTypeOK, IdempotencyInv, NEW c \in Calls, LiveStep(c)
    PROVE  IdempotencyInv'
<1>1. TypeOK
  BY DEF LiveTypeOK
<1>2. {"rejected", "submitted"} \cap {None} = {}
  BY StatusesKnown
<1> USE <1>1, InsideIdempotent DEF Goto, Return, LiveSteps, tables, TypeOK
<1>3. CASE PostDuplicate(c) BY <1>2, <1>3 DEF PostDuplicate
<1>4. CASE Post(c)          BY <1>4 DEF Post
<1>5. CASE PostResolved(c)  BY <1>2, <1>5 DEF PostResolved, ResolvedStatus
<1>6. CASE PostRejected(c)  BY <1>2, <1>6 DEF PostRejected
<1>7. CASE PostAmbiguous(c) BY <1>7 DEF PostAmbiguous, AfterAmbiguity
<1>8. CASE LookupFound(c)   BY <1>2, <1>8 DEF LookupFound, ResolvedStatus
<1>9. CASE LookupFailed(c)  BY <1>9 DEF LookupFailed
<1> QED
  BY <1>3, <1>4, <1>5, <1>6, <1>7, <1>8, <1>9, BuildIdempotent DEF LiveStep

LEMMA IdempotencyStep ==
    ASSUME LiveTypeOK, IdempotencyInv, CancelsPersisted, LeaseCovers, [Next]_vars
    PROVE  IdempotencyInv'
<1>1. TypeOK
  BY DEF LiveTypeOK
<1>2. ASSUME NEW c \in Calls, CallStep(c) \/ LiveFault(c) PROVE IdempotencyInv'
  <2>1. CASE ReadPrepared(c) \/ ConsumePrepared(c)
    BY <2>1, StutterIdempotent DEF ReadPrepared, ConsumePrepared
  <2>2. CASE PlacePrepared(c) \/ ManagerMoves(c) \/ LiveFault(c)
    BY <1>1, <2>2, ManagerIdempotent DEF PlacePrepared, PlaceOrder, ManagerMoves, LiveFault
  <2> QED BY <1>2, <2>1, <2>2, LiveStepIdempotent DEF CallStep, RouteStep
<1>3. ASSUME NEW i \in Ids, CancelWrite(i) PROVE IdempotencyInv'
  BY <1>1, <1>3, CancelIdempotent DEF CancelWrite, CancelsPersisted
<1>4. ASSUME NEW i \in Ids, LockExpires(i) PROVE IdempotencyInv'
  BY <1>1, <1>4, ExpiryIdempotent
<1>5. CASE \/ \E i \in Ids : Prepare(i) \/ PreparedExpires(i) \/ CancelCheck(i)
           \/ \E c \in Calls : ExchangeDecides(c)
           \/ UNCHANGED vars
  BY <1>5, StutterIdempotent DEF Prepare, PreparedExpires, CancelCheck, ExchangeDecides, vars
<1> QED
  BY <1>2, <1>3, <1>4, <1>5 DEF Next, CancelStep

(* No step deletes a row of orders, so a cancel finds the row it checked.   *)
LEMMA RowsKept ==
    ASSUME LiveTypeOK, IdempotencyInv, [Next]_vars, NEW i \in Ids, Exists(i)
    PROVE  Exists(i)'
<1> USE StatusesKnown DEF LiveTypeOK, TypeOK, Exists, UpdateStatus, tables
<1>1. ASSUME NEW c \in Calls, LiveStep(c) PROVE Exists(i)'
  BY <1>1 DEF LiveStep, BuildRejected, Build, PostDuplicate, Post, PostResolved, PostRejected,
     PostAmbiguous, LookupFound, LookupFailed
<1>2. ASSUME NEW c \in Calls, ReadPrepared(c) \/ ConsumePrepared(c) \/ ExchangeDecides(c)
      PROVE  Exists(i)'
  BY <1>2 DEF ReadPrepared, ConsumePrepared, ExchangeDecides, managerVars
<1>3. ASSUME NEW c \in Calls, PlacePrepared(c) \/ ManagerMoves(c) \/ LiveFault(c)
      PROVE  Exists(i)'
  BY <1>3, ManagerKeepsRows DEF PlacePrepared, PlaceOrder, ManagerMoves, LiveFault
<1>4. ASSUME NEW j \in Ids,
             Prepare(j) \/ PreparedExpires(j) \/ LockExpires(j) \/ CancelStep(j)
      PROVE  Exists(i)'
  BY <1>4 DEF Prepare, PreparedExpires, LockExpires, CancelStep, CancelCheck, CancelWrite, managerVars
<1>5. CASE UNCHANGED vars
  BY <1>5 DEF vars, managerVars
<1> QED BY <1>1, <1>2, <1>3, <1>4, <1>5 DEF Next, CallStep, RouteStep

LEMMA CancelsStep ==
    ASSUME LiveTypeOK, IdempotencyInv, CancelsPersisted, [Next]_vars
    PROVE  CancelsPersisted'
<1>1. ASSUME NEW c \in Calls, CallStep(c) PROVE cancelling' = cancelling
  BY <1>1 DEF CallStep, RouteStep, LiveStep, ReadPrepared, ConsumePrepared, PlacePrepared,
     BuildRejected, Build, PostDuplicate, Post, PostResolved, PostRejected, PostAmbiguous,
     LookupFound, LookupFailed, ManagerMoves
<1>2. \/ UNCHANGED cancelling
      \/ \E i \in Ids : CancelStep(i)
  BY <1>1 DEF Next, Prepare, PreparedExpires, LiveFault, ExchangeDecides, vars
<1>3. ASSUME NEW i \in cancelling' PROVE i \in Ids /\ Exists(i)
  BY <1>2, <1>3 DEF CancelStep, CancelCheck, CancelWrite, CancelsPersisted, LiveTypeOK, CancelTypeOK
<1> QED BY <1>3, RowsKept DEF CancelsPersisted, LiveTypeOK

(* IdempotencyInv is an invariant over the live adapter as well.            *)
THEOREM LiveIdempotency ==
    ASSUME LeaseCovers
    PROVE  Spec => [](IdempotencyInv /\ CancelsPersisted)
<1>1. Init => IdempotencyInv /\ CancelsPersisted
  BY InitIdempotent DEF Init, CancelInit, CancelsPersisted
<1>2. /\ LiveTypeOK /\ IdempotencyInv /\ CancelsPersisted /\ [Next]_vars
      => (IdempotencyInv /\ CancelsPersisted)'
  BY IdempotencyStep, CancelsStep
<1> QED BY <1>1, <1>2, LiveTypeCorrect, PTL DEF Spec

-----------------------------------------------------------------------------
(***************************************************************************)
(* PostInv: one post, one result, and a row that repeats it.               *)
(***************************************************************************)
LEMMA PostStutter ==
    ASSUME PostInv,
           UNCHANGED <<pc, submits, result, status, posts, exchange>>
    PROVE  PostInv'
BY DEF PostInv, PostsCounted, PostPending, ResultMatchesPost, RowFromResult

(* A step of placeOrder outside the adapter: results and posts stay, no     *)
(* call moves into the adapter's later program points, and a row that       *)
(* changes is new or takes the result of the call that submitted it.        *)
LEMMA ManagerPosts ==
    ASSUME TypeOK, IdempotencyInv, PostInv, NEW c \in Calls, NEW to \in Pc,
           pc' = [pc EXCEPT ![c] = to],
           to \notin LiveSteps \ {"submit"},
           to \in BeforeSubmit \cup LiveSteps => pc[c] \in BeforeSubmit,
           \/ status' = status
           \/ status' = [status EXCEPT ![IdOf[c]] = "created"]
           \/ status' = [status EXCEPT ![IdOf[c]] = result[c]] /\ pc[c] = "reconcile",
           UNCHANGED <<submits, result, posts, exchange>>
    PROVE  PostInv'
<1> USE DEF PostInv, TypeOK
<1>1. \A d \in Calls : pc'[d] = IF d = c THEN to ELSE pc[d]
  OBVIOUS
<1>2. PostsCounted'
  BY DEF PostsCounted
<1>3. PostPending'
  BY <1>1 DEF PostPending, LiveSteps
<1>4. ResultMatchesPost'
  BY <1>1 DEF ResultMatchesPost, BeforeSubmit, LiveSteps
<1>5. RowFromResult'
  <2>1. pc[c] = "reconcile" => c \in submits
    BY DEF IdempotencyInv, SubmitsKnown, AfterSubmit
  <2> QED BY <2>1 DEF RowFromResult
<1> QED BY <1>2, <1>3, <1>4, <1>5

LEMMA ManagerStepPosts ==
    ASSUME TypeOK, IdempotencyInv, PostInv, NEW c \in Calls,
           PlaceOrder(c) \/ ManagerStep(c) \/ ManagerFault(c),
           UNCHANGED <<posts, exchange>>
    PROVE  PostInv'
<1> USE ManagerPosts DEF Goto, Pc, ManagerSteps, LockedSteps, Finished, BeforeSubmit, LiveSteps,
                         tables, TypeOK
<1>1. CASE PlaceOrder(c)
  BY <1>1 DEF PlaceOrder, RejectSignal, ApproveSignal
<1>2. CASE ManagerFault(c)
  BY <1>2 DEF ManagerFault, Throw, Crash
<1>3. CASE FastCheck(c)      BY <1>3 DEF FastCheck
<1>4. CASE AcquireLock(c)    BY <1>4 DEF AcquireLock
<1>5. CASE Contended(c)      BY <1>5 DEF Contended
<1>6. CASE Recheck(c)        BY <1>6 DEF Recheck, RecheckNext
<1>7. CASE CreateOrder(c)    BY <1>7 DEF CreateOrder, FindOrCreate
<1>8. CASE CreatedEvent(c)   BY <1>8 DEF CreatedEvent
<1>9. CASE Reconcile(c)      BY <1>9 DEF Reconcile, UpdateStatus
<1>10. CASE SubmittedEvent(c) BY <1>10 DEF SubmittedEvent
<1>11. CASE OutcomeEvent(c)  BY <1>11 DEF OutcomeEvent
<1>12. CASE ReadBefore(c)    BY <1>12 DEF ReadBefore
<1>13. CASE ReadCurrent(c)   BY <1>13 DEF ReadCurrent
<1>14. CASE WritePosition(c) BY <1>14 DEF WritePosition
<1>15. CASE OpenedEvent(c)   BY <1>15 DEF OpenedEvent
<1>16. CASE ReleaseLock(c)   BY <1>16 DEF ReleaseLock
<1> QED
  BY <1>1, <1>2, <1>3, <1>4, <1>5, <1>6, <1>7, <1>8, <1>9, <1>10, <1>11, <1>12, <1>13, <1>14,
     <1>15, <1>16 DEF ManagerStep

(* The adapter's own steps.                                                 *)
LEMMA AdapterPosts ==
    ASSUME LiveTypeOK, IdempotencyInv, PostInv, NEW c \in Calls, LiveStep(c)
    PROVE  PostInv'
<1> USE DEF PostInv, LiveTypeOK, TypeOK, Goto, Return, Enter, LiveSteps, BeforeSubmit, tables,
            liveVars
<1>1. /\ \A d \in Calls \ {c} : pc'[d] = pc[d] /\ result'[d] = result[d]
                               /\ posts'[d] = posts[d] /\ exchange'[d] = exchange[d]
      /\ submits \subseteq submits'
      /\ status' = status
  BY DEF LiveStep, BuildRejected, Build, PostDuplicate, Post, PostResolved, PostRejected,
     PostAmbiguous, LookupFound, LookupFailed
<1>2. pc[c] = "submit" => c \notin submits /\ exchange[c] = "none"
  BY DEF IdempotencyInv, SubmitsKnown, PostsCounted
<1>3. pc[c] # "submit" => c \in submits
  BY DEF IdempotencyInv, SubmitsKnown, AfterSubmit, LiveStep, BuildRejected, Build, PostDuplicate,
     Post, PostResolved, PostRejected, PostAmbiguous, LookupFound, LookupFailed
<1>4. result[c] = None
  BY DEF ResultMatchesPost, LiveStep, BuildRejected, Build, PostDuplicate, Post, PostResolved,
     PostRejected, PostAmbiguous, LookupFound, LookupFailed
<1>5. /\ c \in submits'
      /\ \A d \in Calls \ {c} : d \in submits' => d \in submits
  BY <1>2, <1>3 DEF LiveStep, BuildRejected, Build, PostDuplicate, Post, PostResolved, PostRejected,
     PostAmbiguous, LookupFound, LookupFailed
<1>6. \/ exchange'[c] = exchange[c] /\ posts'[c] = posts[c]
      \/ pc[c] = "post" /\ exchange'[c] = "sent" /\ posts'[c] = posts[c] + 1
         /\ result'[c] = None /\ pc'[c] = "awaiting"
  BY <1>4 DEF LiveStep, BuildRejected, Build, PostDuplicate, Post, PostResolved, PostRejected,
     PostAmbiguous, LookupFound, LookupFailed
<1>7. /\ pc'[c] = "post" => exchange'[c] = "none"
      /\ pc'[c] \in {"awaiting", "lookup"} => exchange'[c] # "none"
  BY <1>2 DEF PostPending, LiveStep, BuildRejected, Build, PostDuplicate, Post, PostResolved,
     PostRejected, PostAmbiguous, AfterAmbiguity, LookupFound, LookupFailed
<1>. None \notin {"rejected", "submitted"}
  BY DEF Statuses, OpenStatuses, TerminalStatuses
<1>8. /\ result'[c] # None => pc'[c] = "reconcile"
      /\ result'[c] = "rejected" => exchange'[c] \in {"none", "refused"}
      /\ result'[c] = "submitted" => exchange'[c] # "none"
  BY <1>2, <1>4 DEF PostPending, LiveStep, BuildRejected, Build, PostDuplicate, Post, PostResolved,
     ResolvedStatus, PostRejected, Definitive, PostAmbiguous, LookupFound, LookupFailed
<1>9. PostsCounted'      BY <1>1, <1>3, <1>5, <1>6 DEF PostsCounted, PostPending
<1>10. PostPending'      BY <1>1, <1>7 DEF PostPending
<1>11. ResultMatchesPost' BY <1>1, <1>5, <1>8 DEF ResultMatchesPost, ManagerSteps
<1>12. RowFromResult'    BY <1>1, <1>4 DEF RowFromResult
<1> QED BY <1>9, <1>10, <1>11, <1>12

LEMMA PostInvStep ==
    ASSUME LiveTypeOK, IdempotencyInv, PostInv, [Next]_vars
    PROVE  PostInv'
<1>1. TypeOK
  BY DEF LiveTypeOK
<1>2. ASSUME NEW c \in Calls, PlacePrepared(c) \/ ManagerMoves(c) \/ LiveFault(c) PROVE PostInv'
  BY <1>1, <1>2, ManagerStepPosts DEF PlacePrepared, PlaceOrder, ManagerMoves, LiveFault, liveVars
<1>3. ASSUME NEW c \in Calls, ReadPrepared(c) \/ ConsumePrepared(c) PROVE PostInv'
  BY <1>3, PostStutter DEF ReadPrepared, ConsumePrepared, managerVars
<1>4. ASSUME NEW c \in Calls, ExchangeDecides(c) PROVE PostInv'
  <2>1. /\ exchange[c] = "sent" /\ exchange'[c] \in {"accepted", "refused"}
        /\ \A d \in Calls \ {c} : exchange'[d] = exchange[d]
        /\ UNCHANGED <<pc, submits, result, status, posts>>
    BY <1>4 DEF ExchangeDecides, managerVars, LiveTypeOK
  <2> QED
    BY <2>1 DEF PostInv, PostsCounted, PostPending, ResultMatchesPost, RowFromResult
<1>5. ASSUME NEW i \in Ids, CancelCheck(i) \/ LockExpires(i), UNCHANGED liveVars PROVE PostInv'
  BY <1>5, PostStutter DEF CancelCheck, LockExpires, managerVars, tables, liveVars
<1>6. ASSUME NEW i \in Ids, CancelWrite(i), UNCHANGED liveVars PROVE PostInv'
  <2>1. status' = [status EXCEPT ![i] = "cancelled"] /\ UNCHANGED <<pc, submits, result, posts, exchange>>
    BY <1>6 DEF CancelWrite, UpdateStatus, liveVars
  <2> QED
    BY <1>1, <2>1 DEF PostInv, PostsCounted, PostPending, ResultMatchesPost, RowFromResult, TypeOK
<1>7. CASE UNCHANGED vars
  BY <1>7, PostStutter DEF vars, managerVars, liveVars
<1> QED
  <2>1. ASSUME NEW c \in Calls, CallStep(c) PROVE PostInv'
    BY <2>1, <1>2, <1>3, AdapterPosts DEF CallStep, RouteStep
  <2>2. ASSUME NEW i \in Ids, CancelStep(i), UNCHANGED liveVars PROVE PostInv'
    BY <2>2, <1>5, <1>6 DEF CancelStep
  <2>3. ASSUME NEW i \in Ids, Prepare(i) \/ PreparedExpires(i) PROVE PostInv'
    BY <2>3, PostStutter DEF Prepare, PreparedExpires, managerVars
  <2>4. ASSUME NEW i \in Ids, LockExpires(i), UNCHANGED liveVars PROVE PostInv'
    BY <2>4, <1>5
  <2>5. ASSUME NEW c \in Calls, LiveFault(c) PROVE PostInv'
    BY <2>5, <1>2
  <2>6. CASE Next
    BY <2>1, <2>2, <2>3, <2>4, <2>5, <2>6, <1>4, Zenon DEF Next
  <2> QED BY <2>6, <1>7

LEMMA PostInvInit == Init => PostInv
<1>. None \notin {"rejected", "submitted"}
  BY DEF Statuses, OpenStatuses, TerminalStatuses
<1> QED
  BY DEF Init, ManagerInit, PostInv, PostsCounted, PostPending, ResultMatchesPost, RowFromResult

(* PostInv is an invariant while the lock outlasts running submissions.     *)
THEOREM PostInvariant ==
    ASSUME LeaseCovers
    PROVE  Spec => []PostInv
<1>1. LiveTypeOK /\ IdempotencyInv /\ PostInv /\ [Next]_vars => PostInv'
  BY PostInvStep
<1> QED BY <1>1, PostInvInit, LiveTypeCorrect, LiveIdempotency, PTL DEF Spec

(* PostedOnce: postOrder is called at most once under a prepared order's id,*)
(* whatever double submits, ambiguous outcomes, exceptions and crashes.     *)
THEOREM PostedOnceHolds ==
    ASSUME LeaseCovers
    PROVE  Spec => []PostedOnce
<1>1. LiveTypeOK /\ IdempotencyInv /\ PostInv => PostedOnce
  BY DEF LiveTypeOK, IdempotencyInv, AtMostOneSubmission, PostInv, PostsCounted, PostedOnce
<1> QED BY <1>1, PostInvariant, LiveTypeCorrect, LiveIdempotency, PTL

(* RowMatchesExchange: a rejected row has nothing accepted or travelling,   *)
(* and a submitted row was posted.                                          *)
THEOREM RowMatchesExchangeHolds ==
    ASSUME LeaseCovers
    PROVE  Spec => []RowMatchesExchange
<1>1. LiveTypeOK /\ IdempotencyInv /\ PostInv => RowMatchesExchange
  <2> SUFFICES ASSUME LiveTypeOK, IdempotencyInv, PostInv, NEW i \in Ids
               PROVE  /\ status[i] = "rejected" => \A c \in Calls : IdOf[c] = i => ~OnExchange(c)
                      /\ status[i] = "submitted" => \E c \in Calls : IdOf[c] = i /\ posts[c] > 0
    BY DEF RowMatchesExchange
  <2>1. ASSUME status[i] = "rejected", NEW c \in Calls, IdOf[c] = i PROVE ~OnExchange(c)
    <3>1. PICK d \in submits : IdOf[d] = i /\ result[d] = "rejected"
      BY <2>1 DEF PostInv, RowFromResult
    <3>2. OnExchange(c) => c = d
      BY <2>1, <3>1 DEF OnExchange, PostInv, PostsCounted, IdempotencyInv, AtMostOneSubmission
    <3>3. ~OnExchange(d)
      BY <3>1 DEF OnExchange, PostInv, ResultMatchesPost, LiveTypeOK, TypeOK
    <3> QED BY <3>2, <3>3
  <2>2. ASSUME status[i] = "submitted" PROVE \E c \in Calls : IdOf[c] = i /\ posts[c] > 0
    <3>1. PICK d \in submits : IdOf[d] = i /\ result[d] = "submitted"
      BY <2>2 DEF PostInv, RowFromResult
    <3> QED BY <3>1 DEF PostInv, ResultMatchesPost, PostsCounted, LiveTypeOK, TypeOK
  <2> QED BY <2>1, <2>2
<1> QED BY <1>1, PostInvariant, LiveTypeCorrect, LiveIdempotency, PTL

-----------------------------------------------------------------------------
(***************************************************************************)
(* RecordInv: what is on record before a call may submit.                  *)
(***************************************************************************)
(* A request that has read a prepared order was prepared, a call is placed  *)
(* with what was approved and has its RISK_APPROVED, and ORDER_CREATED comes*)
(* before the adapter.                                                      *)
RecordInv ==
    \A c \in Calls :
        /\ stage[c] # "new" => approved[IdOf[c]] > 0
        /\ pc[c] # "idle" =>
              /\ stage[c] # "new"
              /\ req[c] = [size |-> approved[IdOf[c]], maxSize |-> approved[IdOf[c]]]
              /\ <<"RISK_APPROVED", c>> \in events
        /\ pc[c] = "submit" \/ c \in submits => <<"ORDER_CREATED", c>> \in events

(* What RecordInv asks of one step: nobody's record is taken back, and who  *)
(* moves on is on record.                                                   *)
LEMMA RecordKept ==
    ASSUME RecordInv,
           UNCHANGED <<approved, req>>,
           \A d \in Calls : stage'[d] = stage[d],
           events \subseteq events',
           \A d \in Calls : pc'[d] # "idle" => pc[d] # "idle",
           \A d \in Calls : pc'[d] = "submit" \/ d \in submits' =>
               pc[d] = "submit" \/ d \in submits \/ <<"ORDER_CREATED", d>> \in events'
    PROVE  RecordInv'
BY DEF RecordInv

LEMMA ManagerRecords ==
    ASSUME LiveTypeOK, RecordInv, NEW c \in Calls, ManagerMoves(c) \/ LiveFault(c)
    PROVE  RecordInv'
<1> USE RecordKept DEF LiveTypeOK, TypeOK, Goto, tables, liveVars
<1>1. CASE LiveFault(c)
  BY <1>1 DEF LiveFault, ManagerFault, Throw, Crash, ManagerSteps, LockedSteps
<1>2. CASE ManagerMoves(c)
  <2>1. UNCHANGED <<approved, stage>> /\ ManagerStep(c)
    BY <1>2 DEF ManagerMoves
  <2>2. CASE CreatedEvent(c)
    BY <2>1, <2>2 DEF CreatedEvent, Record
  <2>3. CASE FastCheck(c) \/ AcquireLock(c) \/ Contended(c) \/ Recheck(c)
    BY <2>1, <2>3 DEF FastCheck, AcquireLock, Contended, Recheck, RecheckNext
  <2>4. CASE CreateOrder(c) \/ Reconcile(c) \/ SubmittedEvent(c) \/ OutcomeEvent(c)
    BY <2>1, <2>4 DEF CreateOrder, Reconcile, SubmittedEvent, OutcomeEvent, Record
  <2>5. CASE ReadBefore(c) \/ ReadCurrent(c) \/ WritePosition(c) \/ OpenedEvent(c) \/ ReleaseLock(c)
    BY <2>1, <2>5 DEF ReadBefore, ReadCurrent, WritePosition, OpenedEvent, ReleaseLock, Record
  <2> QED BY <2>1, <2>2, <2>3, <2>4, <2>5 DEF ManagerStep
<1> QED BY <1>1, <1>2

LEMMA AdapterRecords ==
    ASSUME LiveTypeOK, RecordInv, NEW c \in Calls, LiveStep(c)
    PROVE  RecordInv'
BY RecordKept DEF LiveTypeOK, TypeOK, Goto, Return, Enter, LiveStep, BuildRejected, Build,
   PostDuplicate, Post, PostResolved, PostRejected, PostAmbiguous, AfterAmbiguity, LookupFound,
   LookupFailed, tables, liveVars

LEMMA RouteRecords ==
    ASSUME LiveTypeOK, IdempotencyInv, RecordInv, NEW c \in Calls, RouteStep(c)
    PROVE  RecordInv'
<1> USE DEF LiveTypeOK, TypeOK
<1>1. CASE ReadPrepared(c)
  BY <1>1 DEF ReadPrepared, RecordInv, managerVars
<1>2. CASE ConsumePrepared(c)
  BY <1>2 DEF ConsumePrepared, Refuse, RecordInv, managerVars
<1>3. CASE PlacePrepared(c)
  <2>1. /\ pc[c] = "idle" /\ stage[c] = "placing"
        /\ pc' = [pc EXCEPT ![c] = "fast_check"]
        /\ events' = events \cup {<<"RISK_APPROVED", c>>}
        /\ req'[c] = [size |-> approved[IdOf[c]], maxSize |-> approved[IdOf[c]]]
        /\ \A d \in Calls \ {c} : req'[d] = req[d]
        /\ UNCHANGED <<approved, stage, submits>>
    BY <1>3 DEF PlacePrepared, ApproveSignal, Goto, Record, liveVars
  <2> QED BY <2>1 DEF RecordInv
<1> QED BY <1>1, <1>2, <1>3 DEF RouteStep

LEMMA RecordStep ==
    ASSUME LiveTypeOK, IdempotencyInv, RecordInv, [Next]_vars
    PROVE  RecordInv'
<1>1. ASSUME NEW i \in Ids, Prepare(i) PROVE RecordInv'
  <2>1. PICK usd \in 1..MaxUsd : approved' = [approved EXCEPT ![i] = usd]
    BY <1>1 DEF Prepare
  <2>2. /\ approved[i] = 0 /\ \A j \in Ids \ {i} : approved'[j] = approved[j]
        /\ approved'[i] = usd
        /\ UNCHANGED <<pc, req, stage, submits, events>>
    BY <1>1, <2>1 DEF Prepare, LiveTypeOK, managerVars
  <2>3. ASSUME NEW c \in Calls, IdOf[c] = i PROVE stage[c] = "new" /\ pc[c] = "idle"
    <3>1. ~(approved[IdOf[c]] > 0)
      BY <2>2, <2>3
    <3>2. (stage[c] # "new" => approved[IdOf[c]] > 0) /\ (pc[c] # "idle" => stage[c] # "new")
      BY Zenon DEF RecordInv
    <3> QED BY <3>1, <3>2
  <2>4. \A c \in Calls : stage[c] # "new" \/ pc[c] # "idle" => approved'[IdOf[c]] = approved[IdOf[c]]
    BY <2>2, <2>3
  <2> QED BY <2>2, <2>4 DEF RecordInv
<1>2. ASSUME NEW i \in Ids, PreparedExpires(i) PROVE RecordInv'
  BY <1>2, RecordKept DEF PreparedExpires, managerVars
<1>3. ASSUME NEW c \in Calls, ExchangeDecides(c) PROVE RecordInv'
  BY <1>3, RecordKept DEF ExchangeDecides, managerVars
<1>4. ASSUME NEW i \in Ids, LockExpires(i) \/ CancelStep(i), UNCHANGED liveVars PROVE RecordInv'
  BY <1>4, RecordKept DEF LockExpires, CancelStep, CancelCheck, CancelWrite, managerVars, tables, liveVars
<1>5. CASE UNCHANGED vars
  BY <1>5, RecordKept DEF vars, managerVars, liveVars
<1>6. ASSUME NEW c \in Calls, CallStep(c) PROVE RecordInv'
  BY <1>6, ManagerRecords, AdapterRecords, RouteRecords DEF CallStep
<1>7. CASE Next
  BY <1>1, <1>2, <1>3, <1>4, <1>6, <1>7, ManagerRecords, Zenon DEF Next
<1> QED BY <1>5, <1>7

(* PostedIsOnRecord: the row, of the approved size, and its audit events    *)
(* come before the post, for any number of deliveries and processes.        *)
THEOREM PostedIsOnRecordHolds ==
    ASSUME LeaseCovers
    PROVE  Spec => []PostedIsOnRecord
<1>1. Init => RecordInv
  BY DEF Init, ManagerInit, RecordInv
<1>2. LiveTypeOK /\ IdempotencyInv /\ RecordInv /\ [Next]_vars => RecordInv'
  BY RecordStep
<1>3. LiveTypeOK /\ IdempotencyInv /\ PostInv /\ RecordInv => PostedIsOnRecord
  <2> SUFFICES ASSUME LiveTypeOK, IdempotencyInv, PostInv, RecordInv, NEW c \in Calls, posts[c] > 0
               PROVE  /\ Exists(IdOf[c])
                      /\ orderSize[IdOf[c]] = approved[IdOf[c]]
                      /\ {"RISK_APPROVED", "ORDER_CREATED"} \X {c} \subseteq events
    BY DEF PostedIsOnRecord
  <2>1. c \in submits
    BY DEF PostInv, PostsCounted
  <2>2. pc[c] # "idle"
    BY <2>1 DEF IdempotencyInv, SubmitsKnown, BeforeSubmit
  <2>3. Exists(IdOf[c]) /\ orderSize[IdOf[c]] = ClampedSize(c)
    BY <2>1 DEF IdempotencyInv, SubmitsPersisted
  <2>4. /\ req[c] = [size |-> approved[IdOf[c]], maxSize |-> approved[IdOf[c]]]
        /\ <<"RISK_APPROVED", c>> \in events /\ <<"ORDER_CREATED", c>> \in events
    BY <2>1, <2>2 DEF RecordInv
  <2>5. ClampedSize(c) = approved[IdOf[c]]
    BY <2>4 DEF ClampedSize
  <2> QED BY <2>3, <2>4, <2>5
<1> QED BY <1>1, <1>2, <1>3, PostInvariant, LiveTypeCorrect, LiveIdempotency, PTL DEF Spec

-----------------------------------------------------------------------------
(***************************************************************************)
(* SurfaceInv: what the row says once a submission has been reconciled.    *)
(***************************************************************************)
Reconciled == {"submitted_event", "outcome_event", "read_before", "read_current",
               "write_position", "opened_event", "release", "returned"}

(* The adapter has two results, and after the update of its status the row  *)
(* of a submission says the result, unless it has been cancelled since.     *)
Surfaced(c) ==
    /\ result[c] \in {None, "rejected", "submitted"}
    /\ c \in submits /\ pc[c] \in Reconciled =>
          /\ result[c] # None
          /\ status[IdOf[c]] \in {result[c], "cancelled"}

SurfaceInv == \A c \in Calls : Surfaced(c)

LEMMA SurfaceKept ==
    ASSUME SurfaceInv,
           UNCHANGED <<status, submits, result>>,
           \A d \in Calls : pc'[d] \in Reconciled => pc[d] \in Reconciled \/ d \notin submits
    PROVE  SurfaceInv'
BY DEF SurfaceInv, Surfaced

(* Reconcile is the only step of a call that changes a row somebody has     *)
(* submitted, and nobody else has submitted the same order.                 *)
LEMMA ReconcileSurfaces ==
    ASSUME LiveTypeOK, IdempotencyInv, SurfaceInv, NEW c \in Calls, Reconcile(c)
    PROVE  SurfaceInv'
<1>1. /\ pc[c] = "reconcile" /\ pc' = [pc EXCEPT ![c] = "submitted_event"]
      /\ status' = [status EXCEPT ![IdOf[c]] = result[c]]
      /\ UNCHANGED <<submits, result>>
  BY DEF Reconcile, Goto, UpdateStatus
<1>2. c \in submits /\ result[c] # None
  BY <1>1 DEF IdempotencyInv, SubmitsKnown, AfterSubmit, ResultKnown
<1>3. ASSUME NEW d \in submits, IdOf[d] = IdOf[c] PROVE d = c
  BY <1>2, <1>3 DEF IdempotencyInv, AtMostOneSubmission
<1> SUFFICES ASSUME NEW d \in Calls PROVE Surfaced(d)'
  BY DEF SurfaceInv
<1>4. CASE d = c
  BY <1>1, <1>2, <1>4 DEF SurfaceInv, Surfaced, LiveTypeOK, TypeOK
<1>5. CASE d # c
  BY <1>1, <1>3, <1>5 DEF SurfaceInv, Surfaced, LiveTypeOK, TypeOK
<1> QED BY <1>4, <1>5

LEMMA CreateSurfaces ==
    ASSUME LiveTypeOK, IdempotencyInv, SurfaceInv, NEW c \in Calls, CreateOrder(c)
    PROVE  SurfaceInv'
<1>1. /\ pc[c] = "create" /\ pc' = [pc EXCEPT ![c] = "created_event"]
      /\ status' = IF Exists(IdOf[c]) THEN status ELSE [status EXCEPT ![IdOf[c]] = "created"]
      /\ UNCHANGED <<submits, result>>
  BY DEF CreateOrder, Goto, FindOrCreate
<1>2. \A d \in submits : IdOf[d] = IdOf[c] => status' = status
  BY <1>1 DEF IdempotencyInv, SubmitsPersisted
<1> SUFFICES ASSUME NEW d \in Calls PROVE Surfaced(d)'
  BY DEF SurfaceInv
<1> QED
  BY <1>1, <1>2 DEF SurfaceInv, Surfaced, Reconciled, LiveTypeOK, TypeOK

LEMMA ManagerSurfaces ==
    ASSUME LiveTypeOK, IdempotencyInv, SurfaceInv, NEW c \in Calls,
           PlacePrepared(c) \/ ManagerMoves(c) \/ LiveFault(c)
    PROVE  SurfaceInv'
<1> USE SurfaceKept DEF LiveTypeOK, TypeOK, Goto, tables, liveVars, Reconciled
<1>1. pc[c] \in {"fast_check", "contended", "recheck"} => c \notin submits
  BY DEF IdempotencyInv, SubmitsKnown, BeforeSubmit, ManagerSteps
<1>2. CASE PlacePrepared(c)
  BY <1>2 DEF PlacePrepared, ApproveSignal
<1>3. CASE LiveFault(c)
  BY <1>3 DEF LiveFault, ManagerFault, Throw, Crash, ManagerSteps, LockedSteps
<1>4. CASE ManagerMoves(c)
  <2>1. CASE FastCheck(c) \/ AcquireLock(c) \/ Contended(c) \/ Recheck(c)
    BY <1>1, <2>1 DEF FastCheck, AcquireLock, Contended, Recheck, RecheckNext
  <2>2. CASE CreatedEvent(c) \/ SubmittedEvent(c) \/ OutcomeEvent(c)
    BY <2>2 DEF CreatedEvent, SubmittedEvent, OutcomeEvent
  <2>3. CASE ReadBefore(c) \/ ReadCurrent(c) \/ WritePosition(c) \/ OpenedEvent(c) \/ ReleaseLock(c)
    BY <2>3 DEF ReadBefore, ReadCurrent, WritePosition, OpenedEvent, ReleaseLock
  <2> QED
    BY <1>4, <2>1, <2>2, <2>3, ReconcileSurfaces, CreateSurfaces DEF ManagerMoves, ManagerStep
<1> QED BY <1>2, <1>3, <1>4

LEMMA AdapterSurfaces ==
    ASSUME LiveTypeOK, IdempotencyInv, SurfaceInv, NEW c \in Calls, LiveStep(c)
    PROVE  SurfaceInv'
<1>1. /\ \A d \in Calls \ {c} : pc'[d] = pc[d] /\ result'[d] = result[d]
      /\ \A d \in Calls \ {c} : d \in submits' => d \in submits
      /\ pc'[c] \notin Reconciled
      /\ result'[c] \in {result[c], "rejected", "submitted"}
      /\ status' = status
  BY DEF LiveTypeOK, TypeOK, Goto, Return, Enter, tables, Reconciled, LiveStep, BuildRejected, Build,
     PostDuplicate, Post, PostResolved, ResolvedStatus, PostRejected, PostAmbiguous, AfterAmbiguity,
     LookupFound, LookupFailed
<1> QED BY <1>1 DEF SurfaceInv, Surfaced

LEMMA SurfaceStep ==
    ASSUME LiveTypeOK, IdempotencyInv, SurfaceInv, [Next]_vars
    PROVE  SurfaceInv'
<1>1. ASSUME NEW c \in Calls, ReadPrepared(c) \/ ConsumePrepared(c) \/ ExchangeDecides(c)
      PROVE  SurfaceInv'
  BY <1>1, SurfaceKept DEF ReadPrepared, ConsumePrepared, ExchangeDecides, managerVars
<1>2. ASSUME NEW c \in Calls, CallStep(c) PROVE SurfaceInv'
  BY <1>1, <1>2, ManagerSurfaces, AdapterSurfaces DEF CallStep, RouteStep
<1>3. ASSUME NEW i \in Ids, Prepare(i) \/ PreparedExpires(i) \/ LockExpires(i) \/ CancelCheck(i)
      PROVE  SurfaceInv'
  BY <1>3, SurfaceKept DEF Prepare, PreparedExpires, LockExpires, CancelCheck, managerVars, tables
<1>4. ASSUME NEW i \in Ids, CancelWrite(i) PROVE SurfaceInv'
  <2>1. /\ status' = [status EXCEPT ![i] = "cancelled"]
        /\ UNCHANGED <<pc, submits, result>>
    BY <1>4 DEF CancelWrite, UpdateStatus
  <2> QED BY <2>1 DEF SurfaceInv, Surfaced, LiveTypeOK, TypeOK
<1>5. CASE UNCHANGED vars
  BY <1>5, SurfaceKept DEF vars, managerVars
<1>6. ASSUME NEW i \in Ids, CancelStep(i) PROVE SurfaceInv'
  BY <1>3, <1>4, <1>6 DEF CancelStep
<1>7. CASE Next
  BY <1>1, <1>2, <1>3, <1>6, <1>7, ManagerSurfaces, Zenon DEF Next
<1> QED BY <1>5, <1>7

(* AcceptedIsSurfaced: what the exchange has accepted is in its row, but    *)
(* for a posting call that is under way, or was ended by an error or crash. *)
THEOREM AcceptedIsSurfacedHolds ==
    ASSUME LeaseCovers
    PROVE  Spec => []AcceptedIsSurfaced
<1>1. Init => SurfaceInv
  BY DEF Init, ManagerInit, SurfaceInv, Surfaced
<1>2. LiveTypeOK /\ IdempotencyInv /\ SurfaceInv /\ [Next]_vars => SurfaceInv'
  BY SurfaceStep
<1>3. LiveTypeOK /\ IdempotencyInv /\ PostInv /\ SurfaceInv => AcceptedIsSurfaced
  <2> SUFFICES ASSUME LiveTypeOK, IdempotencyInv, PostInv, SurfaceInv,
                      NEW c \in Calls, exchange[c] = "accepted", ~Unresolved(c)
               PROVE  status[IdOf[c]] \in {"submitted", "cancelled"}
    BY DEF AcceptedIsSurfaced
  <2>1. c \in submits /\ result[c] \in {None, "submitted"}
    BY DEF PostInv, PostsCounted, ResultMatchesPost, SurfaceInv, Surfaced
  <2>2. pc[c] \notin BeforeSubmit \cup LiveSteps
    BY <2>1 DEF IdempotencyInv, SubmitsKnown, Unresolved, LiveSteps
  <2>3. pc[c] \in Reconciled
    BY <2>2 DEF LiveTypeOK, TypeOK, Pc, ManagerSteps, LockedSteps, LiveSteps, Finished, BeforeSubmit,
       Unresolved, Reconciled
  <2> QED BY <2>1, <2>3 DEF SurfaceInv, Surfaced
<1> QED BY <1>1, <1>2, <1>3, PostInvariant, LiveTypeCorrect, LiveIdempotency, PTL DEF Spec
=============================================================================
