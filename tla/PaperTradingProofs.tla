-------------------------- MODULE PaperTradingProofs --------------------------
(***************************************************************************)
(* Proofs about PaperTrading for any number of calls, orders and positions.*)
(***************************************************************************)
EXTENDS PaperTrading, OrderManagerProofs

USE CancelAssumption, PaperAssumption

-----------------------------------------------------------------------------
(***************************************************************************)
(* Type correctness.                                                       *)
(***************************************************************************)
LEMMA FillableSizeType ==
    ASSUME NEW c \in Calls, req \in [Calls -> Requests], NEW u \in 0..MaxUsd
    PROVE  /\ FillableSize(c, u) \in 0..MaxUsd
           /\ FillableSize(c, u) <= ClampedSize(c)
BY ClampedSizeType DEF FillableSize

LEMMA PaperStepTypeOK ==
    ASSUME TypeOK, NEW c \in Calls, PaperStep(c)
    PROVE  TypeOK'
<1> USE DEF TypeOK, Goto, Pc, LockedSteps, PaperSteps, Statuses, OpenStatuses, TerminalStatuses,
            StatusStep, UpdateStatus, Settle
<1>1. CASE PaperValidate(c)  BY <1>1 DEF PaperValidate
<1>2. CASE PaperSubmitted(c) BY <1>2 DEF PaperSubmitted
<1>3. CASE PaperLive(c)      BY <1>3 DEF PaperLive
<1>4. CASE PaperMatch(c)     BY <1>4, FillableSizeType DEF PaperMatch, tables
<1>5. CASE PaperFilled(c)    BY <1>5 DEF PaperFilled
<1>6. CASE PaperPartial(c)   BY <1>6 DEF PaperPartial
<1>7. CASE PaperExpired(c)   BY <1>7 DEF PaperExpired
<1> QED BY <1>1, <1>2, <1>3, <1>4, <1>5, <1>6, <1>7 DEF PaperStep

LEMMA OtherTypeOK ==
    ASSUME TypeOK, NEW i \in Ids,
           \/ LockExpires(i)
           \/ CancelWrite(i)
           \/ UNCHANGED managerVars
    PROVE  TypeOK'
BY ExpiryTypeOK DEF TypeOK, CancelWrite, UpdateStatus, managerVars, tables, Statuses,
       TerminalStatuses

(* PaperTypeOK: every variable stays in its type; the cfgs check it too. *)
THEOREM PaperTypeCorrect == Spec => []PaperTypeOK
<1>1. Init => PaperTypeOK
  BY InitTypeOK DEF Init, PaperTypeOK, CancelInit, CancelTypeOK
<1>2. PaperTypeOK /\ [Next]_vars => PaperTypeOK'
  <2> SUFFICES ASSUME PaperTypeOK, [Next]_vars PROVE PaperTypeOK'
    OBVIOUS
  <2>1. TypeOK
    BY DEF PaperTypeOK, CancelTypeOK
  <2>2. cancelling \subseteq CancellableIds
    BY DEF PaperTypeOK, CancelTypeOK
  <2>3. ASSUME NEW c \in Calls, PlaceOrder(c), UNCHANGED cancelling PROVE PaperTypeOK'
    BY <2>1, <2>2, <2>3, PlaceTypeOK DEF PaperTypeOK, CancelTypeOK
  <2>4. ASSUME NEW c \in Calls, CallStep(c) PROVE PaperTypeOK'
    <3>1. cancelling' = cancelling
      BY <2>4 DEF CallStep, PaperStep, PaperValidate, PaperSubmitted, PaperLive, PaperMatch,
                  PaperFilled, PaperPartial, PaperExpired, StatusStep, Settle
    <3> QED
      BY <2>1, <2>2, <2>4, <3>1, ManagerTypeOK, PaperStepTypeOK
         DEF PaperTypeOK, CancelTypeOK, CallStep
  <2>5. ASSUME NEW c \in Calls, ManagerFault(c), UNCHANGED cancelling PROVE PaperTypeOK'
    BY <2>1, <2>2, <2>5, FaultTypeOK DEF PaperTypeOK, CancelTypeOK
  <2>6. ASSUME NEW i \in Ids, LockExpires(i), UNCHANGED cancelling PROVE PaperTypeOK'
    BY <2>1, <2>2, <2>6, OtherTypeOK DEF PaperTypeOK, CancelTypeOK
  <2>7. ASSUME NEW i \in Ids, CancelStep(i) PROVE PaperTypeOK'
    <3>1. TypeOK'
      BY <2>1, <2>7, OtherTypeOK DEF CancelCheck, CancelStep
    <3> QED BY <2>2, <2>7, <3>1 DEF PaperTypeOK, CancelTypeOK, CancelCheck, CancelWrite, CancelStep
  <2>8. CASE UNCHANGED vars
    BY <2>1, <2>2, <2>8 DEF PaperTypeOK, CancelTypeOK, TypeOK, vars, managerVars
  <2> QED BY <2>3, <2>4, <2>5, <2>6, <2>7, <2>8 DEF Next
<1> QED BY <1>1, <1>2, PTL DEF Spec

-----------------------------------------------------------------------------
(***************************************************************************)
(* Idempotency: IdempotencyInv is inductive when the lease outlasts every  *)
(* running submission.                                                     *)
(***************************************************************************)
(* The one step that enters the adapter: nobody has submitted this order.   *)
LEMMA ValidateIdempotent ==
    ASSUME TypeOK, IdempotencyInv, NEW c \in Calls, PaperValidate(c)
    PROVE  IdempotencyInv'
<1>1. \A i \in Ids : Exists(i)' <=> Exists(i)
  BY StatusesKnown DEF PaperValidate, Goto, IdempotencyInv, NotSubmitted, Exists, TypeOK
<1>2. "validated" \in AfterSubmit
  BY DEF AfterSubmit, PaperSteps
<1> QED BY <1>1, <1>2, EnterIdempotent DEF PaperValidate, Goto

(* The fill: the call has submitted, and its amount is capped.              *)
LEMMA MatchIdempotent ==
    ASSUME TypeOK, IdempotencyInv, NEW c \in Calls, PaperMatch(c)
    PROVE  IdempotencyInv'
<1> USE DEF IdempotencyInv, TypeOK, InLock, HoldsToken, Exists, BeforeSubmit, AfterSubmit,
            LockedSteps, ManagerSteps, PaperSteps
<1>1. /\ pc[c] = "match" /\ c \in submits
      /\ \A d \in Calls \ {c} : pc'[d] = pc[d] /\ fill'[d] = fill[d]
      /\ pc'[c] \in {"filled", "partial"}
      /\ fill'[c] <= ClampedSize(c)
      /\ UNCHANGED <<req, lock, status, orderSize, submits, result>>
  BY FillableSizeType DEF PaperMatch, Goto, tables, SubmitsKnown
<1>2. TokenHeld'           BY <1>1 DEF TokenHeld
<1>3. StillAbsent'         BY <1>1 DEF StillAbsent
<1>4. NotSubmitted'        BY <1>1 DEF NotSubmitted, ClampedSize
<1>5. SubmitsKnown'        BY <1>1 DEF SubmitsKnown
<1>6. SubmitsPersisted'    BY <1>1 DEF SubmitsPersisted, ClampedSize
<1>7. FillsSubmitted'      BY <1>1 DEF FillsSubmitted, ClampedSize
<1>8. ResultKnown'         BY <1>1 DEF ResultKnown
<1>9. AtMostOneSubmission' BY <1>1 DEF AtMostOneSubmission
<1> QED BY <1>2, <1>3, <1>4, <1>5, <1>6, <1>7, <1>8, <1>9

LEMMA PaperStepIdempotent ==
    ASSUME TypeOK, IdempotencyInv, NEW c \in Calls, PaperStep(c)
    PROVE  IdempotencyInv'
<1> USE StatusesKnown DEF Goto, StatusStep, Settle, AfterSubmit, PaperSteps, TypeOK
<1>1. CASE PaperSubmitted(c) BY <1>1, StatusIdempotent DEF PaperSubmitted
<1>2. CASE PaperLive(c)      BY <1>2, StatusIdempotent DEF PaperLive
<1>3. CASE PaperFilled(c)    BY <1>3, StatusIdempotent DEF PaperFilled
<1>4. CASE PaperPartial(c)   BY <1>4, StatusIdempotent DEF PaperPartial
<1>5. CASE PaperExpired(c)   BY <1>5, StatusIdempotent DEF PaperExpired
<1> QED
  BY <1>1, <1>2, <1>3, <1>4, <1>5, ValidateIdempotent, MatchIdempotent DEF PaperStep

(* No step deletes a row of orders. *)
LEMMA RowsKept ==
    ASSUME TypeOK, IdempotencyInv, [Next]_vars, NEW i \in Ids, Exists(i)
    PROVE  Exists(i)'
<1> USE StatusesKnown DEF TypeOK, Exists, UpdateStatus, tables
<1>1. ASSUME NEW c \in Calls, PaperStep(c) PROVE Exists(i)'
  BY <1>1 DEF PaperStep, PaperValidate, PaperSubmitted, PaperLive, PaperMatch, PaperFilled,
     PaperPartial, PaperExpired, StatusStep, Settle
<1>2. ASSUME NEW j \in Ids, LockExpires(j) \/ CancelStep(j) PROVE Exists(i)'
  BY <1>2 DEF LockExpires, CancelStep, CancelCheck, CancelWrite, managerVars
<1>3. CASE UNCHANGED vars
  BY <1>3 DEF vars, managerVars
<1>4. ASSUME NEW c \in Calls, PlaceOrder(c) \/ ManagerStep(c) \/ ManagerFault(c) PROVE Exists(i)'
  BY <1>4, ManagerKeepsRows
<1> QED BY <1>1, <1>2, <1>3, <1>4 DEF Next, CallStep

LEMMA IdempotencyStep ==
    ASSUME PaperTypeOK, IdempotencyInv, CancelsPersisted, LeaseCovers, [Next]_vars
    PROVE  IdempotencyInv'
<1>1. TypeOK
  BY DEF PaperTypeOK
<1>2. ASSUME NEW c \in Calls, PlaceOrder(c) \/ CallStep(c) \/ ManagerFault(c)
      PROVE  IdempotencyInv'
  BY <1>1, <1>2, ManagerIdempotent, PaperStepIdempotent DEF CallStep
<1>3. ASSUME NEW i \in Ids, CancelWrite(i) PROVE IdempotencyInv'
  BY <1>1, <1>3, CancelIdempotent DEF CancelWrite, CancelsPersisted
<1>4. ASSUME NEW i \in Ids, LockExpires(i) PROVE IdempotencyInv'
  BY <1>1, <1>4, ExpiryIdempotent
<1> QED
  BY <1>2, <1>3, <1>4, StutterIdempotent DEF Next, CancelStep, CancelCheck, vars

LEMMA CancelsStep ==
    ASSUME PaperTypeOK, IdempotencyInv, CancelsPersisted, [Next]_vars
    PROVE  CancelsPersisted'
<1>1. ASSUME NEW i \in cancelling' PROVE i \in Ids /\ Exists(i)
  BY <1>1 DEF Next, CancelStep, CancelCheck, CancelWrite, CancelsPersisted, PaperTypeOK,
     CancelTypeOK, vars, CallStep, PaperStep, PaperValidate, PaperSubmitted, PaperLive, PaperMatch,
     PaperFilled, PaperPartial, PaperExpired, StatusStep, Settle
<1> QED BY <1>1, RowsKept DEF CancelsPersisted, PaperTypeOK

(* IdempotencyInv is an invariant, for any calls, retries, faults, cancels. *)
THEOREM IdempotencyInvariant ==
    ASSUME LeaseCovers
    PROVE  Spec => [](IdempotencyInv /\ CancelsPersisted)
<1>1. Init => IdempotencyInv /\ CancelsPersisted
  BY InitIdempotent DEF Init, CancelInit, CancelsPersisted
<1>2. /\ PaperTypeOK /\ IdempotencyInv /\ CancelsPersisted /\ [Next]_vars
      => (IdempotencyInv /\ CancelsPersisted)'
  BY IdempotencyStep, CancelsStep
<1> QED BY <1>1, <1>2, PaperTypeCorrect, PTL DEF Spec

(* LockExclusive: the Redis lock excludes, whatever crashes and retries.    *)
THEOREM LockExclusiveHolds ==
    ASSUME LeaseCovers
    PROVE  Spec => []LockExclusive
<1>1. IdempotencyInv => LockExclusive
  BY DEF IdempotencyInv, TokenHeld, HoldsToken, LockExclusive
<1> QED BY <1>1, IdempotencyInvariant, PTL

(* AtMostOneSubmission: a clientOrderId reaches the adapter at most once.   *)
THEOREM AtMostOneSubmissionHolds ==
    ASSUME LeaseCovers
    PROVE  Spec => []AtMostOneSubmission
<1>1. IdempotencyInv => AtMostOneSubmission
  BY DEF IdempotencyInv
<1> QED BY <1>1, IdempotencyInvariant, PTL

(* ExecutedWithinApproval: what executes stays within the approved size.    *)
THEOREM ExecutedWithinApprovalHolds ==
    ASSUME LeaseCovers
    PROVE  Spec => []ExecutedWithinApproval
<1>1. PaperTypeOK /\ IdempotencyInv => ExecutedWithinApproval
  <2> SUFFICES ASSUME PaperTypeOK, IdempotencyInv, NEW c \in Calls, fill[c] > 0
               PROVE  /\ fill[c] <= orderSize[IdOf[c]]
                      /\ fill[c] <= req[c].maxSize
                      /\ \A d \in Calls : fill[d] > 0 /\ IdOf[d] = IdOf[c] => d = c
    BY DEF ExecutedWithinApproval
  <2>1. c \in submits /\ fill[c] <= ClampedSize(c) /\ orderSize[IdOf[c]] = ClampedSize(c)
    BY DEF IdempotencyInv, FillsSubmitted, SubmitsPersisted
  <2>2. ClampedSize(c) \in Nat /\ ClampedSize(c) <= req[c].maxSize
    BY ClampedSizeType DEF PaperTypeOK, CancelTypeOK, TypeOK
  <2>3. fill[c] \in Nat /\ req[c].maxSize \in Nat
    BY DEF PaperTypeOK, CancelTypeOK, TypeOK, Requests
  <2>4. \A d \in Calls : fill[d] > 0 /\ IdOf[d] = IdOf[c] => d = c
    BY <2>1 DEF IdempotencyInv, FillsSubmitted, AtMostOneSubmission
  <2> QED BY <2>1, <2>2, <2>3, <2>4
<1> QED BY <1>1, IdempotencyInvariant, PaperTypeCorrect, PTL

-----------------------------------------------------------------------------
(***************************************************************************)
(* BookInv: what every copy of a position holds, the row and the copies    *)
(* that folding calls have read.  It needs no lock.                        *)
(***************************************************************************)
Reading   == {"read_before", "read_current", "write_position"}
PastWrite == {"opened_event", "release", "unwind", "returned", "failed", "crashed"}

(* A call may be in a position once it has written it, with its fill, in the*)
(* position of its own order, and with its events.                          *)
Bookable(c, k) ==
    /\ pc[c] \in PastWrite /\ fill[c] > 0 /\ Key(c) = k
    /\ {"RISK_APPROVED", "ORDER_CREATED", "ORDER_SUBMITTED"} \X {c} \subseteq events

SoundRow(row, k) ==
    row # None => \A c \in Calls : row[c] > 0 => row[c] = 1 /\ Bookable(c, k)

RowsSound ==
    /\ \A k \in Keys : SoundRow(position[k], k)
    /\ \A c \in Calls : SoundRow(snapshot[c], Key(c))

(* The trail of a call as far as it has come.                               *)
OnTrail(c) ==
    /\ pc[c] \in ManagerSteps \cup LockedSteps => <<"RISK_APPROVED", c>> \in events
    /\ pc[c] \in AdapterSteps \cup {"reconcile", "submitted_event", "outcome_event"} \cup Reading
          => <<"ORDER_CREATED", c>> \in events
    /\ pc[c] \in {"outcome_event"} \cup Reading => <<"ORDER_SUBMITTED", c>> \in events
    /\ pc[c] \in Reading => fill[c] > 0

TrailInv == \A c \in Calls : OnTrail(c)

BookInv == TrailInv /\ RowsSound

(* Whoever is in a position stays where it may be: its fill and its events  *)
(* do not go away.                                                          *)
LEMMA RowsKeptSound ==
    ASSUME TypeOK, RowsSound, position' = position,
           \A d \in Calls : snapshot'[d] = snapshot[d] \/ snapshot'[d] = position[Key(d)],
           \A d \in Calls : pc[d] \in PastWrite => pc'[d] \in PastWrite /\ fill'[d] = fill[d],
           events \subseteq events'
    PROVE  RowsSound'
<1>1. ASSUME NEW d \in Calls, NEW k \in Keys, Bookable(d, k) PROVE Bookable(d, k)'
  BY <1>1 DEF Bookable, Key
<1>2. ASSUME NEW row, NEW k \in Keys, SoundRow(row, k)
      PROVE  row # None => \A d \in Calls : row[d] > 0 => row[d] = 1 /\ Bookable(d, k)'
  BY <1>1, <1>2 DEF SoundRow
<1>3. ASSUME NEW k \in Keys PROVE SoundRow(position[k], k)'
  BY <1>2 DEF RowsSound, SoundRow
<1>4. ASSUME NEW d \in Calls PROVE SoundRow(snapshot[d], Key(d))'
  <2>1. Key(d) \in Keys
    BY OrderManagerAssumption DEF Key
  <2>2. SoundRow(snapshot[d], Key(d)) /\ SoundRow(position[Key(d)], Key(d))
    BY <2>1 DEF RowsSound
  <2>3. PICK row : row = snapshot'[d] /\ SoundRow(row, Key(d))
    BY <2>2
  <2>4. row # None => \A e \in Calls : row[e] > 0 => row[e] = 1 /\ Bookable(e, Key(d))'
    BY <1>2, <2>1, <2>3
  <2>5. Key(d)' = Key(d)
    BY DEF Key
  <2> QED BY <2>3, <2>4, <2>5 DEF SoundRow
<1> QED BY <1>3, <1>4 DEF RowsSound

(* The write: the writer is not in the copy it read, and comes in once.     *)
LEMMA WriteSound ==
    ASSUME TypeOK, BookInv, NEW c \in Calls, WritePosition(c)
    PROVE  RowsSound'
<1> USE DEF TypeOK, BookInv
<1>1. CASE position' = position
  BY <1>1, RowsKeptSound DEF WritePosition, Goto, PastWrite, tables
<1>2. CASE position' # position
  <2>1. /\ pc[c] = "write_position"
        /\ \A d \in Calls : pc'[d] = pc[d] \/ (d = c /\ pc'[d] \in {"opened_event", "release"})
        /\ pc'[c] \in PastWrite
        /\ position' = [position EXCEPT ![Key(c)] = Folded(snapshot[c], c)]
        /\ UNCHANGED <<fill, snapshot, events>>
    BY <1>2 DEF WritePosition, Goto, PastWrite, tables
  <2>2. Key(c) \in Keys
    BY OrderManagerAssumption DEF Key
  <2>3. ASSUME NEW d \in Calls, NEW k \in Keys, Bookable(d, k) PROVE Bookable(d, k)'
    BY <2>1, <2>3 DEF Bookable, Key
  <2>4. Bookable(c, Key(c))'
    <3>1. OnTrail(c)
      BY Zenon DEF TrailInv
    <3>2. /\ fill[c] > 0
          /\ <<"RISK_APPROVED", c>> \in events
          /\ <<"ORDER_CREATED", c>> \in events
          /\ <<"ORDER_SUBMITTED", c>> \in events
      BY <2>1, <3>1 DEF OnTrail, Reading, LockedSteps
    <3>3. {"RISK_APPROVED", "ORDER_CREATED", "ORDER_SUBMITTED"} \X {c} \subseteq events
      BY <3>2
    <3> QED BY <2>1, <3>2, <3>3 DEF Bookable, Key
  <2>5. ASSUME NEW row, NEW k \in Keys, SoundRow(row, k)
        PROVE  row # None => \A d \in Calls : row[d] > 0 => row[d] = 1 /\ Bookable(d, k)'
    BY <2>3, <2>5 DEF SoundRow
  <2>6. SoundRow(snapshot[c], Key(c)) /\ snapshot[c] \in Rows
    BY <2>2 DEF RowsSound
  <2>7. snapshot[c] # None => snapshot[c] \in [Calls -> Nat] /\ snapshot[c][c] = 0
    BY <2>1, <2>6 DEF SoundRow, Bookable, PastWrite, Rows
  <2>8. ASSUME NEW d \in Calls, Folded(snapshot[c], c)[d] > 0
        PROVE  Folded(snapshot[c], c)[d] = 1 /\ Bookable(d, Key(c))'
    <3>1. CASE d = c
      BY <2>4, <2>7, <3>1 DEF Folded, Key
    <3>2. CASE d # c /\ snapshot[c] = None
      BY <2>8, <3>2 DEF Folded
    <3>3. CASE d # c /\ snapshot[c] # None
      <4>1. Folded(snapshot[c], c)[d] = snapshot[c][d]
        BY <2>7, <3>3 DEF Folded
      <4> QED BY <2>2, <2>5, <2>6, <2>8, <3>3, <4>1
    <3> QED BY <3>1, <3>2, <3>3
  <2>9. ASSUME NEW k \in Keys PROVE SoundRow(position[k], k)'
    <3>1. CASE k = Key(c)
      <4>1. position'[k] = Folded(snapshot[c], c)
        BY <2>1, <2>2, <3>1
      <4> QED BY <2>8, <3>1, <4>1 DEF SoundRow
    <3>2. CASE k # Key(c)
      <4>1. position'[k] = position[k] /\ SoundRow(position[k], k)
        BY <2>1, <2>2, <3>2 DEF RowsSound
      <4> QED BY <2>5, <4>1 DEF SoundRow
    <3> QED BY <3>1, <3>2
  <2>10. ASSUME NEW d \in Calls PROVE SoundRow(snapshot[d], Key(d))'
    <3>1. Key(d) \in Keys /\ Key(d)' = Key(d) /\ SoundRow(snapshot[d], Key(d)) /\ snapshot' = snapshot
      BY <2>1, OrderManagerAssumption DEF Key, RowsSound
    <3> QED BY <2>5, <3>1 DEF SoundRow
  <2> QED BY <2>9, <2>10 DEF RowsSound
<1> QED BY <1>1, <1>2

LEMMA ManagerSound ==
    ASSUME TypeOK, BookInv, NEW c \in Calls, PlaceOrder(c) \/ ManagerStep(c) \/ ManagerFault(c)
    PROVE  RowsSound'
<1> USE RowsKeptSound DEF TypeOK, BookInv, Goto, PastWrite, tables, Record
<1>1. CASE PlaceOrder(c)
  BY <1>1 DEF PlaceOrder, RejectSignal, ApproveSignal
<1>2. CASE ManagerFault(c)
  BY <1>2 DEF ManagerFault, Throw, Crash, ManagerSteps, LockedSteps
<1>3. CASE FastCheck(c) \/ AcquireLock(c) \/ Contended(c) \/ Recheck(c)
  BY <1>3 DEF FastCheck, AcquireLock, Contended, Recheck, RecheckNext
<1>4. CASE CreateOrder(c) \/ CreatedEvent(c) \/ Reconcile(c) \/ SubmittedEvent(c)
  BY <1>4 DEF CreateOrder, CreatedEvent, Reconcile, SubmittedEvent
<1>5. CASE OutcomeEvent(c) \/ ReadBefore(c) \/ OpenedEvent(c) \/ ReleaseLock(c)
  BY <1>5 DEF OutcomeEvent, ReadBefore, OpenedEvent, ReleaseLock
<1>6. CASE ReadCurrent(c)
  BY <1>6 DEF ReadCurrent
<1> QED
  BY <1>1, <1>2, <1>3, <1>4, <1>5, <1>6, WriteSound DEF ManagerStep

LEMMA AdapterSound ==
    ASSUME TypeOK, BookInv, NEW c \in Calls, PaperStep(c)
    PROVE  RowsSound'
<1> USE RowsKeptSound DEF TypeOK, BookInv, Goto, PastWrite, tables
<1>1. CASE PaperMatch(c)
  BY <1>1 DEF PaperMatch
<1>2. CASE ~PaperMatch(c)
  BY <1>2 DEF PaperStep, PaperValidate, PaperSubmitted, PaperLive, PaperFilled, PaperPartial,
     PaperExpired, StatusStep, Settle
<1> QED BY <1>1, <1>2

(* The trail: each event is recorded before the call goes on.               *)
LEMMA TrailStep ==
    ASSUME TypeOK, TrailInv, NEW c \in Calls,
           PlaceOrder(c) \/ ManagerStep(c) \/ ManagerFault(c) \/ PaperStep(c)
    PROVE  TrailInv'
<1> USE DEF TypeOK, Goto, tables, Record, OnTrail, Reading, ManagerSteps, LockedSteps, PaperSteps
<1> SUFFICES ASSUME OnTrail(c),
                    \A d \in Calls \ {c} : pc'[d] = pc[d] /\ fill'[d] = fill[d],
                    events \subseteq events'
             PROVE  OnTrail(c)'
  <2>1. OnTrail(c) /\ \A d \in Calls : OnTrail(d)
    BY Zenon DEF TrailInv
  <2>2. \A d \in Calls \ {c} : pc'[d] = pc[d] /\ fill'[d] = fill[d]
    BY DEF PlaceOrder, RejectSignal, ApproveSignal, ManagerFault, Throw, Crash, ManagerStep,
       FastCheck, AcquireLock, Contended, Recheck, CreateOrder, CreatedEvent, Reconcile,
       SubmittedEvent, OutcomeEvent, ReadBefore, ReadCurrent, WritePosition, OpenedEvent,
       ReleaseLock, PaperStep, PaperValidate, PaperSubmitted, PaperLive, PaperMatch, PaperFilled,
       PaperPartial, PaperExpired, StatusStep, Settle
  <2>3. events \subseteq events'
    BY DEF PlaceOrder, RejectSignal, ApproveSignal, ManagerFault, Throw, Crash, ManagerStep,
       FastCheck, AcquireLock, Contended, Recheck, CreateOrder, CreatedEvent, Reconcile,
       SubmittedEvent, OutcomeEvent, ReadBefore, ReadCurrent, WritePosition, OpenedEvent,
       ReleaseLock, PaperStep, PaperValidate, PaperSubmitted, PaperLive, PaperMatch, PaperFilled,
       PaperPartial, PaperExpired, StatusStep, Settle
  <2>4. ASSUME NEW d \in Calls \ {c} PROVE OnTrail(d)'
    BY <2>1, <2>2, <2>3, <2>4
  <2> QED BY <2>1, <2>2, <2>3, <2>4 DEF TrailInv
<1>1. CASE PlaceOrder(c)
  BY <1>1 DEF PlaceOrder, RejectSignal, ApproveSignal
<1>2. CASE ManagerFault(c)
  BY <1>2 DEF ManagerFault, Throw, Crash
<1>3. CASE FastCheck(c) \/ AcquireLock(c) \/ Contended(c) \/ Recheck(c)
  BY <1>3 DEF FastCheck, AcquireLock, Contended, Recheck, RecheckNext
<1>4. CASE CreateOrder(c) \/ CreatedEvent(c) \/ Reconcile(c) \/ SubmittedEvent(c)
  BY <1>4 DEF CreateOrder, CreatedEvent, Reconcile, SubmittedEvent
<1>5. CASE OutcomeEvent(c)
  BY <1>5 DEF OutcomeEvent, HasFill
<1>6. CASE ReadBefore(c) \/ ReadCurrent(c) \/ WritePosition(c) \/ OpenedEvent(c) \/ ReleaseLock(c)
  BY <1>6 DEF ReadBefore, ReadCurrent, WritePosition, OpenedEvent, ReleaseLock
<1>7. CASE PaperMatch(c)
  BY <1>7 DEF PaperMatch
<1>8. CASE PaperStep(c) /\ ~PaperMatch(c)
  BY <1>8 DEF PaperStep, PaperValidate, PaperSubmitted, PaperLive, PaperFilled, PaperPartial,
     PaperExpired, StatusStep, Settle
<1> QED BY <1>1, <1>2, <1>3, <1>4, <1>5, <1>6, <1>7, <1>8 DEF ManagerStep

LEMMA BookStep ==
    ASSUME PaperTypeOK, BookInv, [Next]_vars
    PROVE  BookInv'
<1>1. TypeOK /\ TrailInv /\ RowsSound
  BY DEF PaperTypeOK, BookInv
<1>2. ASSUME NEW c \in Calls, PlaceOrder(c) \/ CallStep(c) \/ ManagerFault(c) PROVE BookInv'
  BY <1>1, <1>2, ManagerSound, AdapterSound, TrailStep DEF CallStep, BookInv
<1>3. ASSUME UNCHANGED <<pc, fill, snapshot, position, events>> PROVE BookInv'
  <2>1. RowsSound'
    BY <1>1, <1>3, RowsKeptSound
  <2>2. TrailInv'
    BY <1>1, <1>3 DEF TrailInv, OnTrail
  <2> QED BY <2>1, <2>2 DEF BookInv
<1>4. ASSUME NEW i \in Ids, LockExpires(i) \/ CancelStep(i) PROVE BookInv'
  BY <1>3, <1>4 DEF LockExpires, CancelStep, CancelCheck, CancelWrite, managerVars, tables
<1>5. CASE UNCHANGED vars
  BY <1>3, <1>5 DEF vars, managerVars
<1> QED BY <1>2, <1>4, <1>5 DEF Next

THEOREM BookInvariant == Spec => []BookInv
<1>1. Init => BookInv
  <2> USE DEF Init, ManagerInit
  <2>1. Init => TrailInv
    BY DEF TrailInv, OnTrail, Reading, ManagerSteps, LockedSteps, PaperSteps
  <2>2. Init => RowsSound
    BY OrderManagerAssumption DEF RowsSound, SoundRow, Key
  <2> QED BY <2>1, <2>2 DEF BookInv
<1>2. PaperTypeOK /\ BookInv /\ [Next]_vars => BookInv'
  BY BookStep
<1> QED BY <1>1, <1>2, PaperTypeCorrect, PTL DEF Spec

(* PositionHoldsOnlyFills: a position holds executed fills of its own key,  *)
(* each at most once, even with locks that expire under running calls.      *)
THEOREM PositionHoldsOnlyFillsHolds == Spec => []PositionHoldsOnlyFills
<1>1. BookInv => PositionHoldsOnlyFills
  BY DEF BookInv, RowsSound, SoundRow, Bookable, PositionHoldsOnlyFills
<1> QED BY <1>1, BookInvariant, PTL

(* PositionIsAudited: no position without the events that explain it.       *)
THEOREM PositionIsAuditedHolds == Spec => []PositionIsAudited
<1>1. BookInv => PositionIsAudited
  BY DEF BookInv, RowsSound, SoundRow, Bookable, PositionIsAudited
<1> QED BY <1>1, BookInvariant, PTL

(* PositionInv: the two together.                                           *)
THEOREM PositionInvHolds == Spec => []PositionInv
<1>1. PositionHoldsOnlyFills /\ PositionIsAudited => PositionInv
  BY DEF PositionInv
<1> QED BY <1>1, PositionHoldsOnlyFillsHolds, PositionIsAuditedHolds, PTL

-----------------------------------------------------------------------------
(***************************************************************************)
(* Lifecycle: what the row of a call in its critical section shows, unless *)
(* a cancel has come in between, and that nothing is filled before the     *)
(* match.                                                                  *)
(***************************************************************************)
USE OrderManagerAssumption

Unfilled == BeforeSubmit \cup {"validated", "latency", "match"}

Shows(c, statuses) == status[IdOf[c]] \in statuses \cup {"cancelled"}

OnStage(c) ==
    /\ pc[c] \in {"created_event", "submit"} => Shows(c, {"created"})
    /\ pc[c] = "validated" => Shows(c, {"validated"})
    /\ pc[c] = "latency" => Shows(c, {"submitted"})
    /\ pc[c] \in {"match", "filled", "partial"} => Shows(c, {"live"})
    /\ pc[c] = "resting" => Shows(c, {"partially_filled"})
    /\ pc[c] = "reconcile" => result[c] \in {"filled", "expired"} /\ Shows(c, {result[c]})
    /\ pc[c] \in Unfilled => fill[c] = 0

StageInv == \A c \in Calls : OnStage(c)

Forward ==
    \A i \in Ids : status[i] = "cancelled"
                     \/ LifecycleRank(status[i]) <= LifecycleRank(status'[i])

LEMMA RankType ==
    ASSUME NEW s
    PROVE  LifecycleRank(s) \in 0..7
BY DEF LifecycleRank

LEMMA Ranks ==
    /\ LifecycleRank(None) = 0
    /\ LifecycleRank("created") = 1
    /\ LifecycleRank("validated") = 2
    /\ LifecycleRank("submitted") = 4
    /\ LifecycleRank("live") = 5
    /\ LifecycleRank("partially_filled") = 6
    /\ \A s \in TerminalStatuses : LifecycleRank(s) = 7
<1>1. /\ None \notin Statuses
      /\ \A s \in Statuses : s # None
  OBVIOUS
<1>2. {"created", "validated", "signed", "submitted", "live", "partially_filled"} \subseteq Statuses
  BY DEF Statuses, OpenStatuses
<1>3. TerminalStatuses \subseteq Statuses
  BY DEF Statuses
<1>4. /\ None # "created" /\ None # "validated" /\ None # "signed" /\ None # "submitted"
      /\ None # "live" /\ None # "partially_filled"
  BY <1>1, <1>2
<1>5. /\ LifecycleRank(None) = 0
      /\ LifecycleRank("created") = 1
      /\ LifecycleRank("validated") = 2
      /\ LifecycleRank("submitted") = 4
      /\ LifecycleRank("live") = 5
      /\ LifecycleRank("partially_filled") = 6
  <2>1. LifecycleRank(None) = 0                BY <1>4 DEF LifecycleRank
  <2>2. LifecycleRank("created") = 1           BY <1>4 DEF LifecycleRank
  <2>3. LifecycleRank("validated") = 2         BY <1>4 DEF LifecycleRank
  <2>4. LifecycleRank("submitted") = 4         BY <1>4 DEF LifecycleRank
  <2>5. LifecycleRank("live") = 5              BY <1>4 DEF LifecycleRank
  <2>6. LifecycleRank("partially_filled") = 6  BY <1>4 DEF LifecycleRank
  <2> QED BY <2>1, <2>2, <2>3, <2>4, <2>5, <2>6
<1>6. ASSUME NEW s \in TerminalStatuses PROVE LifecycleRank(s) = 7
  <2>1. /\ s # None /\ s # "created" /\ s # "validated" /\ s # "signed" /\ s # "submitted"
        /\ s # "live" /\ s # "partially_filled"
    BY <1>1, <1>3 DEF TerminalStatuses
  <2> QED BY <2>1 DEF LifecycleRank
<1> QED BY <1>5, <1>6

(* What is enough: the call itself is on its stage again, and it has written*)
(* its own row, forward, only under its lock.                               *)
LEMMA StageFrame ==
    ASSUME TypeOK, IdempotencyInv, StageInv, NEW c \in Calls, OnStage(c)',
           \A d \in Calls \ {c} : pc'[d] = pc[d] /\ fill'[d] = fill[d] /\ result'[d] = result[d],
           \/ status' = status
           \/ /\ InLock(c)
              /\ \E s \in Statuses : /\ status' = [status EXCEPT ![IdOf[c]] = s]
                                     /\ \/ status[IdOf[c]] = "cancelled"
                                        \/ LifecycleRank(status[IdOf[c]]) <= LifecycleRank(s)
    PROVE  StageInv' /\ Forward
<1>1. ASSUME NEW d \in Calls PROVE OnStage(d)'
  <2>1. CASE d = c
    BY <2>1
  <2>2. CASE d # c /\ status'[IdOf[d]] = status[IdOf[d]]
    <3>1. OnStage(d)
      BY DEF StageInv
    <3>2. pc'[d] = pc[d] /\ fill'[d] = fill[d] /\ result'[d] = result[d]
      BY <2>2
    <3> QED BY <2>2, <3>1, <3>2 DEF OnStage, Shows
  <2>3. CASE d # c /\ status'[IdOf[d]] # status[IdOf[d]]
    <3>1. InLock(c) /\ IdOf[d] = IdOf[c]
      <4>1. PICK s \in Statuses : InLock(c) /\ status' = [status EXCEPT ![IdOf[c]] = s]
        BY <2>3
      <4> QED BY <2>3, <4>1 DEF TypeOK
    <3>2. ~InLock(d)
      BY <2>3, <3>1 DEF IdempotencyInv, TokenHeld, HoldsToken
    <3>3. pc'[d] = pc[d] /\ fill'[d] = fill[d]
      BY <2>3
    <3>4. pc[d] \in Unfilled => fill[d] = 0
      BY DEF StageInv, OnStage
    <3> QED BY <3>2, <3>3, <3>4 DEF OnStage, InLock, LockedSteps, PaperSteps
  <2> QED BY <2>1, <2>2, <2>3
<1>2. ASSUME NEW i \in Ids
      PROVE  status[i] = "cancelled" \/ LifecycleRank(status[i]) <= LifecycleRank(status'[i])
  <2>1. CASE status'[i] = status[i]
    BY <2>1, RankType
  <2>2. CASE status'[i] # status[i]
    <3>1. PICK s \in Statuses : /\ status' = [status EXCEPT ![IdOf[c]] = s]
                                /\ \/ status[IdOf[c]] = "cancelled"
                                   \/ LifecycleRank(status[IdOf[c]]) <= LifecycleRank(s)
      BY <2>2
    <3>2. i = IdOf[c] /\ status'[i] = s
      BY <2>2, <3>1 DEF TypeOK
    <3> QED BY <3>1, <3>2
  <2> QED BY <2>1, <2>2
<1>3. StageInv'
  BY <1>1 DEF StageInv
<1>4. Forward
  BY <1>2 DEF Forward
<1> QED BY <1>3, <1>4

(* The manager writes a row twice: when it creates it, and when it repeats  *)
(* what the adapter has written.                                            *)
LEMMA ManagerOnStage ==
    ASSUME TypeOK, IdempotencyInv, StageInv, NEW c \in Calls,
           PlaceOrder(c) \/ ManagerStep(c) \/ ManagerFault(c)
    PROVE  StageInv' /\ Forward
<1> USE DEF TypeOK, Goto, tables, OnStage, Unfilled, BeforeSubmit, ManagerSteps, LockedSteps,
            PaperSteps, Shows
<1>1. OnStage(c)
  BY Zenon DEF StageInv
<1>2. CASE PlaceOrder(c)
  <2>1. OnStage(c)' /\ status' = status /\ UNCHANGED <<fill, result>>
    BY <1>1, <1>2 DEF PlaceOrder, RejectSignal, ApproveSignal
  <2> QED BY <1>2, <2>1, StageFrame DEF PlaceOrder, RejectSignal, ApproveSignal
<1>3. CASE ManagerFault(c)
  <2>1. OnStage(c)' /\ status' = status /\ UNCHANGED <<fill, result>>
    BY <1>1, <1>3 DEF ManagerFault, Throw, Crash
  <2> QED BY <1>3, <2>1, StageFrame DEF ManagerFault, Throw, Crash
<1>4. CASE FastCheck(c) \/ AcquireLock(c) \/ Contended(c) \/ Recheck(c)
  <2>1. OnStage(c)' /\ status' = status /\ UNCHANGED <<fill, result>>
    BY <1>1, <1>4 DEF FastCheck, AcquireLock, Contended, Recheck, RecheckNext
  <2> QED BY <1>4, <2>1, StageFrame DEF FastCheck, AcquireLock, Contended, Recheck
<1>5. CASE CreateOrder(c)
  <2>1. ~Exists(IdOf[c]) /\ InLock(c)
    BY <1>5 DEF CreateOrder, IdempotencyInv, StillAbsent, InLock
  <2>2. status' = [status EXCEPT ![IdOf[c]] = "created"]
    BY <1>5, <2>1 DEF CreateOrder, FindOrCreate
  <2>3. OnStage(c)'
    BY <1>1, <1>5, <2>2 DEF CreateOrder
  <2>4. "created" \in Statuses /\ LifecycleRank(status[IdOf[c]]) <= LifecycleRank("created")
    BY <2>1, Ranks DEF Statuses, OpenStatuses, Exists
  <2> QED BY <1>5, <2>1, <2>2, <2>3, <2>4, StageFrame DEF CreateOrder
<1>6. CASE CreatedEvent(c) \/ SubmittedEvent(c) \/ OutcomeEvent(c)
  <2>1. OnStage(c)' /\ status' = status /\ UNCHANGED <<fill, result>>
    BY <1>1, <1>6 DEF CreatedEvent, SubmittedEvent, OutcomeEvent, Record
  <2> QED BY <1>6, <2>1, StageFrame DEF CreatedEvent, SubmittedEvent, OutcomeEvent
<1>7. CASE Reconcile(c)
  <2>1. /\ InLock(c) /\ result[c] \in {"filled", "expired"}
        /\ status[IdOf[c]] \in {result[c], "cancelled"}
    BY <1>1, <1>7 DEF Reconcile, InLock
  <2>2. status' = [status EXCEPT ![IdOf[c]] = result[c]] /\ result[c] \in Statuses
    BY <1>7, <2>1, StatusesKnown DEF Reconcile, UpdateStatus
  <2>3. OnStage(c)'
    BY <1>1, <1>7 DEF Reconcile
  <2>4. status[IdOf[c]] = "cancelled"
        \/ LifecycleRank(status[IdOf[c]]) <= LifecycleRank(result[c])
    BY <2>1, RankType
  <2> QED BY <1>7, <2>1, <2>2, <2>3, <2>4, StageFrame DEF Reconcile
<1>8. CASE ReadBefore(c) \/ ReadCurrent(c) \/ WritePosition(c) \/ OpenedEvent(c) \/ ReleaseLock(c)
  <2>1. OnStage(c)' /\ status' = status /\ UNCHANGED <<fill, result>>
    BY <1>1, <1>8 DEF ReadBefore, ReadCurrent, WritePosition, OpenedEvent, ReleaseLock
  <2> QED BY <1>8, <2>1, StageFrame DEF ReadBefore, ReadCurrent, WritePosition, OpenedEvent,
             ReleaseLock
<1> QED BY <1>2, <1>3, <1>4, <1>5, <1>6, <1>7, <1>8 DEF ManagerStep

(* A write of the adapter: to s, of a higher rank than all that may show.   *)
LEMMA StatusOnStage ==
    ASSUME TypeOK, IdempotencyInv, StageInv, NEW c \in Calls, pc[c] \in PaperSteps,
           NEW s \in Statuses, status' = [status EXCEPT ![IdOf[c]] = s],
           NEW t, Shows(c, {t}), LifecycleRank(t) <= LifecycleRank(s),
           OnStage(c)',
           \A d \in Calls \ {c} : pc'[d] = pc[d] /\ fill'[d] = fill[d] /\ result'[d] = result[d]
    PROVE  StageInv' /\ Forward
<1>1. InLock(c)
  BY DEF InLock, LockedSteps
<1>2. status[IdOf[c]] = "cancelled" \/ LifecycleRank(status[IdOf[c]]) <= LifecycleRank(s)
  BY RankType DEF Shows
<1> QED BY <1>1, <1>2, StageFrame

LEMMA AdapterOnStage ==
    ASSUME TypeOK, IdempotencyInv, StageInv, NEW c \in Calls, PaperStep(c)
    PROVE  StageInv' /\ Forward
<1> USE StatusesKnown DEF TypeOK, Goto, OnStage, Unfilled, BeforeSubmit, ManagerSteps, PaperSteps,
            Shows, StatusStep, Settle, UpdateStatus
<1>1. OnStage(c)
  BY Zenon DEF StageInv
<1>2. CASE PaperValidate(c)
  <2>1. OnStage(c)'
    BY <1>1, <1>2 DEF PaperValidate
  <2>2. Shows(c, {"created"})
    BY <1>1, <1>2 DEF PaperValidate
  <2>3. LifecycleRank("created") <= LifecycleRank("validated")
    BY Ranks DEF TerminalStatuses
  <2> QED BY <1>2, <2>1, <2>2, <2>3, StatusOnStage DEF PaperValidate
<1>3. CASE PaperSubmitted(c)
  <2>1. OnStage(c)'
    BY <1>1, <1>3 DEF PaperSubmitted
  <2>2. Shows(c, {"validated"})
    BY <1>1, <1>3 DEF PaperSubmitted
  <2>3. LifecycleRank("validated") <= LifecycleRank("submitted")
    BY Ranks DEF TerminalStatuses
  <2> QED BY <1>3, <2>1, <2>2, <2>3, StatusOnStage DEF PaperSubmitted
<1>4. CASE PaperLive(c)
  <2>1. OnStage(c)'
    BY <1>1, <1>4 DEF PaperLive
  <2>2. Shows(c, {"submitted"})
    BY <1>1, <1>4 DEF PaperLive
  <2>3. LifecycleRank("submitted") <= LifecycleRank("live")
    BY Ranks DEF TerminalStatuses
  <2> QED BY <1>4, <2>1, <2>2, <2>3, StatusOnStage DEF PaperLive
<1>5. CASE PaperMatch(c)
  <2>1. OnStage(c)' /\ status' = status
    BY <1>1, <1>5 DEF PaperMatch, tables
  <2> QED BY <1>5, <2>1, StageFrame DEF PaperMatch
<1>6. CASE PaperFilled(c)
  <2>1. OnStage(c)'
    BY <1>1, <1>6 DEF PaperFilled
  <2>2. Shows(c, {"live"})
    BY <1>1, <1>6 DEF PaperFilled
  <2>3. LifecycleRank("live") <= LifecycleRank("filled")
    BY Ranks DEF TerminalStatuses
  <2> QED BY <1>6, <2>1, <2>2, <2>3, StatusOnStage DEF PaperFilled
<1>7. CASE PaperPartial(c)
  <2>1. OnStage(c)'
    BY <1>1, <1>7 DEF PaperPartial
  <2>2. Shows(c, {"live"})
    BY <1>1, <1>7 DEF PaperPartial
  <2>3. LifecycleRank("live") <= LifecycleRank("partially_filled")
    BY Ranks DEF TerminalStatuses
  <2> QED BY <1>7, <2>1, <2>2, <2>3, StatusOnStage DEF PaperPartial
<1>8. CASE PaperExpired(c)
  <2>1. OnStage(c)'
    BY <1>1, <1>8 DEF PaperExpired
  <2>2. Shows(c, {"partially_filled"})
    BY <1>1, <1>8 DEF PaperExpired
  <2>3. LifecycleRank("partially_filled") <= LifecycleRank("expired")
    BY Ranks DEF TerminalStatuses
  <2> QED BY <1>8, <2>1, <2>2, <2>3, StatusOnStage DEF PaperExpired
<1> QED BY <1>2, <1>3, <1>4, <1>5, <1>6, <1>7, <1>8 DEF PaperStep

(* Every step keeps the calls on their stages, and no row goes back.        *)
LEMMA StageStep ==
    ASSUME PaperTypeOK, IdempotencyInv, StageInv, [Next]_vars
    PROVE  StageInv' /\ Forward
<1>1. TypeOK
  BY DEF PaperTypeOK
<1>2. ASSUME NEW c \in Calls, PlaceOrder(c) \/ CallStep(c) \/ ManagerFault(c)
      PROVE  StageInv' /\ Forward
  BY <1>1, <1>2, ManagerOnStage, AdapterOnStage DEF CallStep
<1>3. ASSUME UNCHANGED <<pc, status, fill, result>>
      PROVE  StageInv' /\ Forward
  BY <1>3, RankType DEF StageInv, OnStage, Shows, Forward
<1>4. ASSUME NEW i \in Ids, CancelWrite(i)
      PROVE  StageInv' /\ Forward
  <2>1. status' = [status EXCEPT ![i] = "cancelled"] /\ UNCHANGED <<pc, fill, result>>
    BY <1>4 DEF CancelWrite, UpdateStatus
  <2>2. \A j \in Ids : status'[j] = status[j] \/ status'[j] = "cancelled"
    BY <1>1, <2>1 DEF TypeOK
  <2>3. StageInv'
    BY <2>1, <2>2 DEF StageInv, OnStage, Shows
  <2>4. LifecycleRank("cancelled") = 7
    BY Ranks DEF TerminalStatuses
  <2>5. Forward
    BY <2>2, <2>4, RankType DEF Forward
  <2> QED BY <2>3, <2>5
<1>5. ASSUME NEW i \in Ids, LockExpires(i) \/ CancelCheck(i)
      PROVE  StageInv' /\ Forward
  BY <1>3, <1>5 DEF LockExpires, CancelCheck, managerVars, tables
<1>6. CASE UNCHANGED vars
  BY <1>3, <1>6 DEF vars, managerVars
<1> QED BY <1>2, <1>4, <1>5, <1>6 DEF Next, CancelStep

THEOREM StageInvariant ==
    ASSUME LeaseCovers
    PROVE  Spec => []StageInv
<1>1. Init => StageInv
  BY DEF Init, ManagerInit, StageInv, OnStage
<1>2. PaperTypeOK /\ IdempotencyInv /\ StageInv /\ [Next]_vars => StageInv'
  BY StageStep
<1> QED BY <1>1, <1>2, PaperTypeCorrect, IdempotencyInvariant, PTL DEF Spec

(* LifecycleForward: no retry, late write or recovery sets a row back.      *)
THEOREM LifecycleForwardHolds ==
    ASSUME LeaseCovers
    PROVE  Spec => LifecycleForward
<1>1. PaperTypeOK /\ IdempotencyInv /\ StageInv /\ [Next]_vars
      => [\A i \in Ids : status[i] = "cancelled"
                            \/ LifecycleRank(status[i]) <= LifecycleRank(status'[i])]_vars
  BY StageStep DEF Forward
<1> QED
  BY <1>1, PaperTypeCorrect, IdempotencyInvariant, StageInvariant, PTL DEF Spec, LifecycleForward

-----------------------------------------------------------------------------
(***************************************************************************)
(* The ledger.  A call that submits, a match that fills, and a write of a  *)
(* position are its steps; all others leave it as it is.                   *)
(***************************************************************************)
SeparatePositions == \A i, j \in Ids : KeyOf[i] = KeyOf[j] => i = j

(* The executor of an order is the one call that has submitted it.          *)
LEMMA ExecutorIs ==
    ASSUME AtMostOneSubmission, TypeOK, NEW c \in submits
    PROVE  Submitted(IdOf[c]) /\ Executor(IdOf[c]) = c
<1>1. c \in SubmittersOf(IdOf[c]) /\ \A d \in SubmittersOf(IdOf[c]) : d = c
  BY DEF SubmittersOf, AtMostOneSubmission
<1> QED BY <1>1 DEF Submitted, Executor

LEMMA LedgerFrame ==
    ASSUME UNCHANGED <<submits, fill, position>>,
           \A i \in Ids : Submitted(i) => orderSize'[i] = orderSize[i]
    PROVE  UNCHANGED Ledger!ledgerVars
<1>1. \A i \in Ids : Submitted(i)' = Submitted(i) /\ Executor(i)' = Executor(i)
  BY DEF Submitted, Executor, SubmittersOf
<1>2. \A i \in Ids : Booked(i)' = Booked(i)
  BY <1>1 DEF Booked
<1> QED BY <1>1, <1>2 DEF Ledger!ledgerVars

(* PaperValidate is the submission: nobody has submitted the order before,  *)
(* nothing of it is filled, and it is in no position.                       *)
LEMMA SubmitsToLedger ==
    ASSUME TypeOK, IdempotencyInv, IdempotencyInv', BookInv, BookInv', StageInv, StageInv',
           NEW c \in Calls, PaperValidate(c), TypeOK'
    PROVE  Ledger!Submit(c)
<1> DEFINE i == IdOf[c]
<1>1. /\ pc[c] = "submit" /\ pc'[c] = "validated" /\ submits' = submits \cup {c} /\ i \in Ids
      /\ UNCHANGED <<fill, position, orderSize>>
  BY DEF PaperValidate, Goto, TypeOK
<1>2. SubmittersOf(i) = {} /\ ~Submitted(i)
  BY <1>1 DEF IdempotencyInv, NotSubmitted, SubmittersOf, Submitted, TypeOK
<1>3. Submitted(i)' /\ Executor(i)' = c
  BY <1>1, <1>2 DEF SubmittersOf, Submitted, Executor
<1>4. \A j \in Ids \ {i} : SubmittersOf(j)' = SubmittersOf(j)
  BY <1>1 DEF SubmittersOf
<1>5. \A j \in Ids \ {i} : /\ Submitted(j)' = Submitted(j) /\ Executor(j)' = Executor(j)
                           /\ Booked(j)' = Booked(j)
  <2>1. \A j \in Ids \ {i} : Submitted(j)' = Submitted(j)
    BY <1>4 DEF Submitted
  <2>2. ASSUME NEW j \in Ids \ {i} PROVE Executor(j)' = Executor(j)
    <3>1. CASE ~Submitted(j)
      BY <2>1, <3>1 DEF Executor
    <3>2. CASE Submitted(j)
      <4>1. PICK d \in SubmittersOf(j) : \A e \in SubmittersOf(j) : e = d
        BY <3>2 DEF Submitted, SubmittersOf, IdempotencyInv, AtMostOneSubmission
      <4>2. d \in SubmittersOf(j)' /\ \A e \in SubmittersOf(j)' : e = d
        BY <1>4, <4>1
      <4>3. Executor(j) = d
        BY <3>2, <4>1 DEF Executor
      <4>4. Executor(j)' = d
        BY <2>1, <3>2, <4>2 DEF Executor
      <4> QED BY <4>3, <4>4
    <3> QED BY <3>1, <3>2
  <2> QED BY <1>1, <2>1, <2>2 DEF Booked
<1>6. fill[c] = 0
  BY <1>1 DEF StageInv, OnStage, Unfilled, BeforeSubmit
<1>7. ~Booked(i) /\ ~Booked(i)'
  <2>1. ASSUME Booked(i)' PROVE FALSE
    <3>1. position[KeyOf[i]] # None /\ position[KeyOf[i]][c] > 0
      BY <1>1, <1>3, <2>1 DEF Booked
    <3>2. SoundRow(position[KeyOf[i]], KeyOf[i])
      BY <1>1 DEF BookInv, RowsSound
    <3> QED BY <1>6, <3>1, <3>2 DEF SoundRow, Bookable
  <2> QED BY <1>2, <2>1 DEF Booked
<1>8. orderSize[i] \in 1..MaxUsd
  <2>1. orderSize[i] = ClampedSize(c)
    BY <1>1 DEF IdempotencyInv, NotSubmitted
  <2> QED BY <2>1, ClampedSizeType DEF TypeOK
<1>9. [j \in Ids |-> Executor(j)]' = [[j \in Ids |-> Executor(j)] EXCEPT ![i] = c]
  BY <1>1, <1>3, <1>5
<1>10. [j \in Ids |-> Executor(j)][i] = None
  BY <1>1, <1>2 DEF Executor
<1>11. \E usd \in 1..MaxUsd :
         [j \in Ids |-> IF Submitted(j) THEN orderSize[j] ELSE 0]'
           = [[j \in Ids |-> IF Submitted(j) THEN orderSize[j] ELSE 0] EXCEPT ![i] = usd]
  <2>1. [j \in Ids |-> IF Submitted(j) THEN orderSize[j] ELSE 0]'
          = [[j \in Ids |-> IF Submitted(j) THEN orderSize[j] ELSE 0] EXCEPT ![i] = orderSize[i]]
    BY <1>1, <1>3, <1>5
  <2> QED BY <1>8, <2>1
<1>12. UNCHANGED <<[j \in Ids |-> IF Submitted(j) THEN fill[Executor(j)] ELSE 0],
                   [j \in Ids |-> Booked(j)]>>
  <2>1. \A j \in Ids : (IF Submitted(j) THEN fill[Executor(j)] ELSE 0)'
                         = (IF Submitted(j) THEN fill[Executor(j)] ELSE 0)
    BY <1>1, <1>2, <1>3, <1>5, <1>6
  <2>2. \A j \in Ids : Booked(j)' = Booked(j)
    BY <1>5, <1>7 DEF Booked
  <2> QED BY <2>1, <2>2
<1> QED BY <1>9, <1>10, <1>11, <1>12 DEF Ledger!Submit

(* PaperMatch is the execution, if there is anything to fill.               *)
LEMMA MatchesToLedger ==
    ASSUME TypeOK, IdempotencyInv, StageInv, NEW c \in Calls, PaperMatch(c)
    PROVE  Ledger!Execute(IdOf[c]) \/ UNCHANGED Ledger!ledgerVars
<1> DEFINE i == IdOf[c]
<1>1. PICK fillable \in 0..MaxUsd :
        /\ pc[c] = "match" /\ fill' = [fill EXCEPT ![c] = FillableSize(c, fillable)]
        /\ UNCHANGED <<submits, orderSize, position>>
  BY DEF PaperMatch, Goto, tables
<1> DEFINE usd == FillableSize(c, fillable)
<1>2. i \in Ids /\ c \in submits /\ fill[c] = 0
  BY <1>1 DEF IdempotencyInv, SubmitsKnown, AfterSubmit, PaperSteps, StageInv, OnStage, Unfilled
<1>3. orderSize[i] = ClampedSize(c) /\ usd \in 0..MaxUsd /\ usd <= ClampedSize(c)
      /\ ClampedSize(c) \in 1..MaxUsd
  BY <1>2, FillableSizeType, ClampedSizeType DEF IdempotencyInv, SubmitsPersisted, TypeOK
<1>4. Submitted(i) /\ Executor(i) = c
  BY <1>2, ExecutorIs DEF IdempotencyInv
<1>5. \A j \in Ids : Submitted(j)' = Submitted(j) /\ Executor(j)' = Executor(j)
  BY <1>1 DEF Submitted, Executor, SubmittersOf
<1>6. \A j \in Ids : Submitted(j) => Executor(j) \in Calls /\ IdOf[Executor(j)] = j
  BY DEF Submitted, Executor, SubmittersOf, TypeOK
<1>7. \A j \in Ids \ {i} : Submitted(j) => fill'[Executor(j)] = fill[Executor(j)]
  BY <1>1, <1>2, <1>6 DEF TypeOK
<1>8. fill'[c] = usd
  BY <1>1 DEF TypeOK
<1>9. UNCHANGED <<[j \in Ids |-> Executor(j)], [j \in Ids |-> Booked(j)],
                  [j \in Ids |-> IF Submitted(j) THEN orderSize[j] ELSE 0]>>
  <2>1. \A j \in Ids : Booked(j)' = Booked(j)
    BY <1>1, <1>5 DEF Booked
  <2> QED BY <1>1, <1>5, <2>1
<1>10. [j \in Ids |-> IF Submitted(j) THEN fill[Executor(j)] ELSE 0]'
         = [[j \in Ids |-> IF Submitted(j) THEN fill[Executor(j)] ELSE 0] EXCEPT ![i] = usd]
  BY <1>2, <1>4, <1>5, <1>7, <1>8
<1>11. CASE usd = 0
  <2>1. UNCHANGED [j \in Ids |-> IF Submitted(j) THEN fill[Executor(j)] ELSE 0]
    BY <1>2, <1>4, <1>5, <1>7, <1>8, <1>11
  <2> QED BY <1>9, <2>1 DEF Ledger!ledgerVars
<1>12. CASE usd > 0
  <2>1. usd \in 1..orderSize[i]
    BY <1>3, <1>12
  <2>2. /\ [j \in Ids |-> Executor(j)][i] # None
        /\ [j \in Ids |-> IF Submitted(j) THEN fill[Executor(j)] ELSE 0][i] = 0
        /\ [j \in Ids |-> IF Submitted(j) THEN orderSize[j] ELSE 0][i] = orderSize[i]
    BY <1>2, <1>4
  <2> QED BY <1>9, <1>10, <2>1, <2>2 DEF Ledger!Execute
<1> QED BY <1>3, <1>11, <1>12

(* WritePosition is the booking: of the executor's fill, into the position  *)
(* of this order alone, which did not hold it.                              *)
LEMMA WritesToLedger ==
    ASSUME SeparatePositions, TypeOK, IdempotencyInv, BookInv, NEW c \in Calls, WritePosition(c)
    PROVE  Ledger!Book(IdOf[c]) \/ UNCHANGED Ledger!ledgerVars
<1> DEFINE i == IdOf[c]
<1>1. UNCHANGED <<submits, fill, orderSize>> /\ pc[c] = "write_position"
  BY DEF WritePosition, Goto, tables
<1>2. CASE position' = position
  BY <1>1, <1>2, LedgerFrame
<1>3. CASE position' # position
  <2>1. position' = [position EXCEPT ![KeyOf[i]] = Folded(snapshot[c], c)]
    BY <1>3 DEF WritePosition, tables, Key
  <2>2. i \in Ids /\ KeyOf[i] \in Keys /\ fill[c] > 0 /\ c \in submits
    BY <1>1 DEF BookInv, TrailInv, OnTrail, Reading, IdempotencyInv, FillsSubmitted
  <2>3. Submitted(i) /\ Executor(i) = c
    BY <2>2, ExecutorIs DEF IdempotencyInv
  <2>4. \A j \in Ids : Submitted(j)' = Submitted(j) /\ Executor(j)' = Executor(j)
    BY <1>1 DEF Submitted, Executor, SubmittersOf
  <2>5. ~Booked(i)
    <3>1. SoundRow(position[KeyOf[i]], KeyOf[i])
      BY <2>2 DEF BookInv, RowsSound
    <3> QED BY <1>1, <2>3, <3>1 DEF SoundRow, Bookable, PastWrite, Booked
  <2>6. Booked(i)'
    <3>1. position'[KeyOf[i]] = Folded(snapshot[c], c)
      BY <2>1, <2>2 DEF TypeOK
    <3>2. Folded(snapshot[c], c) \in [Calls -> Nat] /\ Folded(snapshot[c], c)[c] > 0
      BY FoldedType DEF Folded, TypeOK, Rows
    <3> QED BY <2>3, <2>4, <3>1, <3>2 DEF Booked
  <2>7. \A j \in Ids \ {i} : Booked(j)' = Booked(j)
    <3>1. \A j \in Ids \ {i} : position'[KeyOf[j]] = position[KeyOf[j]]
      BY <2>1, <2>2 DEF SeparatePositions, TypeOK
    <3> QED BY <2>4, <3>1 DEF Booked
  <2>8. UNCHANGED <<[j \in Ids |-> Executor(j)],
                    [j \in Ids |-> IF Submitted(j) THEN orderSize[j] ELSE 0],
                    [j \in Ids |-> IF Submitted(j) THEN fill[Executor(j)] ELSE 0]>>
    BY <1>1, <2>4
  <2>9. [j \in Ids |-> Booked(j)]' = [[j \in Ids |-> Booked(j)] EXCEPT ![i] = TRUE]
    <3>1. \A j \in Ids : Booked(j)' = IF j = i THEN TRUE ELSE Booked(j)
      BY <2>6, <2>7 DEF Booked
    <3> QED BY <2>2, <3>1
  <2>10. /\ [j \in Ids |-> IF Submitted(j) THEN fill[Executor(j)] ELSE 0][i] > 0
         /\ ~[j \in Ids |-> Booked(j)][i]
    BY <2>2, <2>3, <2>5
  <2> QED BY <2>8, <2>9, <2>10 DEF Ledger!Book
<1> QED BY <1>2, <1>3

LEMMA LedgerStep ==
    ASSUME SeparatePositions, PaperTypeOK, PaperTypeOK', IdempotencyInv, IdempotencyInv',
           BookInv, BookInv', StageInv, StageInv', [Next]_vars
    PROVE  [Ledger!Next]_(Ledger!ledgerVars)
<1>1. TypeOK /\ TypeOK'
  BY DEF PaperTypeOK
<1>2. \A i \in Ids : Submitted(i) => Exists(i)
  BY DEF Submitted, SubmittersOf, IdempotencyInv, SubmitsPersisted
<1>3. ASSUME UNCHANGED <<submits, fill, position, orderSize>>
      PROVE  UNCHANGED Ledger!ledgerVars
  BY <1>3, LedgerFrame
<1>4. ASSUME NEW c \in Calls, PlaceOrder(c) \/ ManagerFault(c)
      PROVE  UNCHANGED Ledger!ledgerVars
  BY <1>3, <1>4 DEF PlaceOrder, RejectSignal, ApproveSignal, ManagerFault, Throw, Crash, tables
<1>5. ASSUME NEW c \in Calls, ManagerStep(c)
      PROVE  [Ledger!Next]_(Ledger!ledgerVars)
  <2>1. CASE WritePosition(c)
    BY <1>1, <2>1, WritesToLedger DEF Ledger!Next
  <2>2. CASE CreateOrder(c)
    <3>1. \A i \in Ids : Submitted(i) => orderSize'[i] = orderSize[i]
      BY <1>1, <1>2, <2>2 DEF CreateOrder, FindOrCreate, TypeOK
    <3> QED BY <2>2, <3>1, LedgerFrame DEF CreateOrder
  <2> QED
    BY <1>3, <1>5, <2>1, <2>2 DEF ManagerStep, FastCheck, AcquireLock, Contended, Recheck,
       CreatedEvent, Reconcile, SubmittedEvent, OutcomeEvent, ReadBefore, ReadCurrent, OpenedEvent,
       ReleaseLock, tables
<1>6. ASSUME NEW c \in Calls, PaperStep(c)
      PROVE  [Ledger!Next]_(Ledger!ledgerVars)
  <2>1. CASE PaperValidate(c)
    BY <1>1, <2>1, SubmitsToLedger DEF Ledger!Next
  <2>2. CASE PaperMatch(c)
    BY <1>1, <2>2, MatchesToLedger DEF Ledger!Next
  <2> QED
    BY <1>3, <1>6, <2>1, <2>2 DEF PaperStep, PaperSubmitted, PaperLive, PaperFilled, PaperPartial,
       PaperExpired, StatusStep, Settle
<1>7. ASSUME NEW i \in Ids, LockExpires(i) \/ CancelStep(i)
      PROVE  UNCHANGED Ledger!ledgerVars
  BY <1>3, <1>7 DEF LockExpires, CancelStep, CancelCheck, CancelWrite, managerVars, tables
<1>8. CASE UNCHANGED vars
  BY <1>3, <1>8 DEF vars, managerVars
<1> QED BY <1>4, <1>5, <1>6, <1>7, <1>8 DEF Next, CallStep

(* ImplementsLedger: whatever calls, locks, retries, crashes and cancels do,*)
(* an order is submitted, executed and booked at most once, in this order.  *)
THEOREM ImplementsLedgerHolds ==
    ASSUME LeaseCovers, SeparatePositions
    PROVE  Spec => ImplementsLedger
<1>1. Init => Ledger!Init
  BY DEF Init, ManagerInit, Ledger!Init, Submitted, SubmittersOf, Executor, Booked
<1>2. /\ PaperTypeOK /\ PaperTypeOK' /\ IdempotencyInv /\ IdempotencyInv' /\ BookInv /\ BookInv'
      /\ StageInv /\ StageInv' /\ [Next]_vars
      => [Ledger!Next]_(Ledger!ledgerVars)
  BY LedgerStep
<1> QED
  BY <1>1, <1>2, PaperTypeCorrect, IdempotencyInvariant, BookInvariant, StageInvariant, PTL
     DEF Spec, ImplementsLedger, Ledger!Spec
=============================================================================
