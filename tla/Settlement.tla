------------------------------ MODULE Settlement -------------------------------
(***************************************************************************)
(* SettlementWorker.settleOnce of services/settlement with its database    *)
(* ports: a sweep over the markets that have expired and are not resolved, *)
(* which closes their positions at 0 or 1 once the exchange has a winner.  *)
(* Its workers run beside MarketScanner, which writes the same flags, and  *)
(* beside PositionsRepository.applyFill, which writes the same positions.  *)
(*                                                                         *)
(* A price is an integer of which One stands for 1.0, a size a number of   *)
(* shares.  Of two fills of one position the second starts after the first.*)
(***************************************************************************)
EXTENDS MarketScanner, Integers

CONSTANTS
    Workers,        \* processes of the service: two while one replaces another
    Positions,      \* (user, market, side) triples
    MarketOf, SideOf,
    MaxShares,      \* bound on the shares a position buys
    Price,          \* what each of them costs
    One

Rows == [size : 0..MaxShares, avg : 0..One, pnl : Int]

ASSUME SettlementAssumption ==
    /\ MarketOf \in [Positions -> Markets]
    /\ SideOf \in [Positions -> Sides]
    /\ MaxShares \in Nat /\ One \in Nat \ {0} /\ Price \in 1..One
    /\ None \notin Workers \cup Positions \cup Rows

VARIABLES
    book,       \* the rows of positions, or None
    folding,    \* positions an applyFill is writing: the row it has read
    sweep,      \* where a worker's settleOnce is
    todo,       \* candidates it has not come to
    market,     \* the candidate it is settling
    open,       \* the sizes of its positions, as listOpenForMarket found them
    current,    \* the position closePosition is at, and the row it has read
    closed,     \* positions with a POSITION_CLOSED event
    bought,     \* shares folded into a position (history)
    late,       \* markets with a fill folded in after their time (history)
    settled,    \* markets that a sweep has marked resolved (history)
    unrecorded  \* positions whose close was written and its event not (history)

workerVars == <<sweep, todo, market, open, current>>
bookVars   == <<book, folding, bought, late>>
vars == <<worldVars, scannerVars, rows, workerVars, bookVars, closed, settled, unrecorded>>

SweepPc == {"idle", "next", "list", "close", "write", "record"}
NoRow   == [size |-> 0, avg |-> 0, pnl |-> 0]
Idle    == [position |-> None, row |-> NoRow]

SettlementTypeOK ==
    /\ ScannerTypeOK
    /\ book \in [Positions -> Rows \cup {None}]
    /\ folding \in [Positions -> Rows \cup {None}]
    /\ sweep \in [Workers -> SweepPc]
    /\ todo \in [Workers -> SUBSET Markets]
    /\ market \in [Workers -> Markets \cup {None}]
    /\ open \in [Workers -> [Positions -> 0..MaxShares]]
    /\ current \in [Workers -> [position : Positions \cup {None}, row : Rows]]
    /\ closed \subseteq Positions
    /\ bought \in [Positions -> 0..MaxShares]
    /\ late \subseteq Markets /\ settled \subseteq Markets
    /\ unrecorded \subseteq Positions

Init ==
    /\ ScannerInit
    /\ book = [p \in Positions |-> None]
    /\ folding = [p \in Positions |-> None]
    /\ sweep = [w \in Workers |-> "idle"]
    /\ todo = [w \in Workers |-> {}]
    /\ market = [w \in Workers |-> None]
    /\ open = [w \in Workers |-> [p \in Positions |-> 0]]
    /\ current = [w \in Workers |-> Idle]
    /\ closed = {}
    /\ bought = [p \in Positions |-> 0]
    /\ late = {} /\ settled = {}
    /\ unrecorded = {}

-----------------------------------------------------------------------------
(***************************************************************************)
(* lib/position-math.ts.                                                   *)
(***************************************************************************)
Opening(row, price, size) ==
    [row EXCEPT !.size = @ + size,
                !.avg  = (row.avg * row.size + price * size) \div (row.size + size)]

Closing(row, price, size) ==
    [size |-> row.size - size,
     avg  |-> IF row.size > size THEN row.avg ELSE 0,
     pnl  |-> row.pnl + (price - row.avg) * size]

-----------------------------------------------------------------------------
(***************************************************************************)
(* PositionsRepository.applyFill: a read, then a write of what it computed.*)
(* A fill of an order may come at any time, also after the market's end.   *)
(***************************************************************************)
FillRead(p) ==
    /\ rows[MarketOf[p]] # None
    /\ folding[p] = None /\ bought[p] < MaxShares
    /\ folding' = [folding EXCEPT ![p] = IF book[p] = None THEN NoRow ELSE book[p]]
    /\ UNCHANGED <<book, bought, late>>

FillWrite(p) ==
    /\ folding[p] # None
    /\ folding' = [folding EXCEPT ![p] = None]
    /\ book' = [book EXCEPT ![p] = Opening(folding[p], Price, 1)]
    /\ bought' = [bought EXCEPT ![p] = @ + 1]
    /\ late' = IF MarketOf[p] \in expired THEN late \cup {MarketOf[p]} ELSE late

Fill(p) ==
    /\ FillRead(p) \/ FillWrite(p)
    /\ UNCHANGED <<worldVars, scannerVars, rows, workerVars, closed, settled, unrecorded>>

-----------------------------------------------------------------------------
(***************************************************************************)
(* settleOnce.                                                             *)
(***************************************************************************)
Go(w, from, to) == sweep[w] = from /\ sweep' = [sweep EXCEPT ![w] = to]

NotClosed(m) == rows[m] # None /\ ~rows[m].closed     \* wrong: the other flag
Candidate(m) == rows[m] # None /\ ~rows[m].resolved

ListExpiredUnresolved(w) ==
    /\ Go(w, "idle", "next")
    /\ todo' = [todo EXCEPT ![w] = {m \in expired : Candidate(m)}]
    /\ UNCHANGED <<market, open, current, rows, bookVars, closed, settled>>

(* getResolution rejects, does not find the market, or finds no winner.     *)
StillUnresolved(w, m) ==
    /\ m \in todo[w] /\ Go(w, "next", "next")
    /\ todo' = [todo EXCEPT ![w] = @ \ {m}]
    /\ UNCHANGED <<market, open, current, rows, bookVars, closed, settled>>

(* getResolution: listed, closed, and one side has won.                     *)
HasResolved(m) == exchange[m] # None /\ exchange[m].closed /\ exchange[m].winner # None

Resolved(w, m) ==
    /\ m \in todo[w] /\ HasResolved(m)
    /\ Go(w, "next", "list")
    /\ todo' = [todo EXCEPT ![w] = @ \ {m}]
    /\ market' = [market EXCEPT ![w] = m]
    /\ UNCHANGED <<open, current, rows, bookVars, closed, settled>>

IsOpen(row) == row # None /\ row.size > 0

ListOpenForMarket(w) ==
    /\ Go(w, "list", "close")
    /\ open' = [open EXCEPT ![w] = [p \in Positions |->
                  IF MarketOf[p] = market[w] /\ IsOpen(book[p]) THEN book[p].size ELSE 0]]
    /\ UNCHANGED <<todo, market, current, rows, bookVars, closed, settled>>

(* closePosition: the row is read again ...                                 *)
ReadPosition(w, p) ==
    /\ open[w][p] > 0
    /\ Go(w, "close", "write")
    /\ current' = [current EXCEPT ![w] = [position |-> p, row |-> book[p]]]
    /\ UNCHANGED <<todo, market, open, rows, bookVars, closed, settled>>

(* ... and written back without the shares that were listed, as far as it   *)
(* still has them.  None left is an error of applyClosingFill.              *)
Payoff(p) == IF SideOf[p] = winner[MarketOf[p]] THEN One ELSE 0

CloseListed(w, p)  == open[w][p]          \* wrong: not capped by what is held
ClosedSize(w, p)   == IF open[w][p] <= current[w].row.size
                      THEN open[w][p] ELSE current[w].row.size

WritePosition(w) ==
    LET p == current[w].position IN
        /\ Go(w, "write", "record")
        /\ ClosedSize(w, p) > 0
        /\ book' = [book EXCEPT ![p] = Closing(current[w].row, Payoff(p), ClosedSize(w, p))]
        /\ UNCHANGED <<todo, market, open, current, rows, folding, bought, late, closed, settled>>

(* recordSettlementEvent: the row of risk_events, and its publication.      *)
RecordSettlementEvent(w) ==
    LET p == current[w].position IN
        /\ Go(w, "record", "close")
        /\ closed' = closed \cup {p}
        /\ open' = [open EXCEPT ![w][p] = 0]
        /\ current' = [current EXCEPT ![w] = Idle]
        /\ UNCHANGED <<todo, market, rows, bookVars, settled>>

(* wrong: the market is marked resolved before its positions are closed     *)
MarkAtOnce(w) == sweep[w] = "close"
AllClosed(w)  == sweep[w] = "close" /\ \A p \in Positions : open[w][p] = 0

MarkResolved(w) ==
    /\ AllClosed(w)
    /\ Go(w, "close", "next")
    /\ rows' = [rows EXCEPT ![market[w]] = [active |-> FALSE, closed |-> TRUE, resolved |-> TRUE]]
    /\ settled' = settled \cup {market[w]}
    /\ market' = [market EXCEPT ![w] = None]
    /\ UNCHANGED <<todo, open, current, bookVars, closed>>

SweepEnds(w) ==
    /\ sweep' = [sweep EXCEPT ![w] = "idle"]
    /\ todo' = [todo EXCEPT ![w] = {}]
    /\ market' = [market EXCEPT ![w] = None]
    /\ open' = [open EXCEPT ![w] = [p \in Positions |-> 0]]
    /\ current' = [current EXCEPT ![w] = Idle]
    /\ UNCHANGED <<rows, bookVars, closed, settled>>

SweepDone(w) == sweep[w] = "next" /\ todo[w] = {} /\ SweepEnds(w)

(* An exception ends the sweep with the markets after it: runTick logs it,  *)
(* and the next one starts over.  So does the worker that replaces it.      *)
NothingToClose(w) == sweep[w] = "write" /\ ClosedSize(w, current[w].position) = 0

SweepFails(w) ==
    /\ NothingToClose(w) \/ (MayFail /\ sweep[w] # "idle")
    /\ SweepEnds(w)

Settles(w) ==
    \/ ListExpiredUnresolved(w) \/ ListOpenForMarket(w) \/ WritePosition(w)
    \/ RecordSettlementEvent(w) \/ MarkResolved(w) \/ SweepDone(w)
    \/ \E m \in Markets : StillUnresolved(w, m) \/ Resolved(w, m)
    \/ \E p \in Positions : ReadPosition(w, p)

WorkerStep(w) ==
    /\ \/ Settles(w) /\ UNCHANGED unrecorded
       \/ /\ SweepFails(w)
          /\ unrecorded' = IF sweep[w] = "record" THEN unrecorded \cup {current[w].position}
                                                  ELSE unrecorded
    /\ UNCHANGED <<worldVars, scannerVars>>

-----------------------------------------------------------------------------
Scanning ==
    (ScanStep \/ ScanFails) /\ UNCHANGED <<workerVars, bookVars, closed, settled, unrecorded>>

Next ==
    \/ \E m \in Markets : WorldStep(m) /\ UNCHANGED <<workerVars, bookVars, closed, settled, unrecorded>>
    \/ Scanning
    \/ \E p \in Positions : Fill(p)
    \/ \E w \in Workers : WorkerStep(w)

Spec == Init /\ [][Next]_vars

(* The interval starts sweep after sweep; an await that is tried again and  *)
(* again succeeds at last, and the exchange is found to have resolved.      *)
Alone(A) == A /\ UNCHANGED <<unrecorded, worldVars, scannerVars>>

Fairness ==
    \A w \in Workers :
        /\ WF_vars(Alone(ListExpiredUnresolved(w)))
        /\ WF_vars(Alone(\E m \in Markets : StillUnresolved(w, m) \/ Resolved(w, m)))
        /\ \A m \in Markets : SF_vars(Alone(Resolved(w, m)))
        /\ SF_vars(Alone(ListOpenForMarket(w)))
        /\ \A p \in Positions : SF_vars(Alone(ReadPosition(w, p)))
        /\ SF_vars(Alone(WritePosition(w)))
        /\ SF_vars(Alone(RecordSettlementEvent(w)))
        /\ SF_vars(Alone(MarkResolved(w)))
        /\ WF_vars(Alone(SweepDone(w)))
        /\ WF_vars(NothingToClose(w) /\ WorkerStep(w))

FairSpec == Spec /\ Fairness

-----------------------------------------------------------------------------
(***************************************************************************)
(* Properties.                                                             *)
(***************************************************************************)
MarkedResolved(m) == rows[m] # None /\ rows[m].resolved

(* Realized P&L is always what some of the bought shares have won or lost,  *)
(* each paid once and at the outcome: no crash, retry, second worker or     *)
(* racing fill pays a share twice, and nothing is paid before there is a    *)
(* winner.                                                                  *)
Paid(row, shares, payoff, known) ==
    \E paid \in 0..shares :
        /\ paid + row.size <= shares
        /\ row.pnl = paid * (payoff - Price)
        /\ paid > 0 => known

PaidFor(p, row) == Paid(row, bought[p], Payoff(p), winner[MarketOf[p]] # None)

NothingPaidTwice == \A p \in Positions : book[p] # None => PaidFor(p, book[p])

(* Why: every copy of a row, in the table or in a local variable, is paid   *)
(* up as above, and carries the price its shares were bought at.            *)
Sound(p, row) == PaidFor(p, row) /\ (row.size > 0 => row.avg = Price)

RowsAreSound ==
    \A p \in Positions :
        /\ book[p] # None => Sound(p, book[p])
        /\ folding[p] # None => bought[p] < MaxShares /\ Sound(p, folding[p])

MarketIsDecided ==
    \A w \in Workers : sweep[w] \in {"list", "close", "write", "record"} =>
        market[w] # None /\ winner[market[w]] # None

ListIsOfMarket ==
    \A w \in Workers, p \in Positions : open[w][p] > 0 =>
        /\ sweep[w] \in {"close", "write", "record"}
        /\ MarketOf[p] = market[w] /\ book[p] # None

CopyIsSound ==
    \A w \in Workers : sweep[w] \in {"write", "record"} =>
        LET p == current[w].position IN
            p # None /\ MarketOf[p] = market[w] /\ Sound(p, current[w].row)

PaidInv ==
    RowsAreSound /\ MarketIsDecided /\ ListIsOfMarket /\ CopyIsSound

(* A market that a sweep has marked resolved is settled to the last share,  *)
(* if all its fills came in time; each close is on record or being recorded,*)
(* unless the sweep was interrupted between the write and the event.        *)
SettledExactly ==
    \A p \in Positions : MarketOf[p] \in settled \ late /\ bought[p] > 0 =>
        /\ book[p].size = 0
        /\ book[p].pnl = bought[p] * (Payoff(p) - Price)
        /\ \/ p \in closed \cup unrecorded
           \/ \E w \in Workers : sweep[w] = "record" /\ current[w].position = p

(* Whatever fails along the way, a market with a winner is settled at last, *)
(* unless it is no longer listed or the scanner has taken it out of the     *)
(* candidates.                                                              *)
SettlesAtLast ==
    \A m \in Markets :
        rows[m] # None /\ m \in expired /\ winner[m] # None
            ~> m \in settled \/ exchange[m] = None \/ MarkedResolved(m)

(* Rows, listings and events of the scanner, and every copy of a position,  *)
(* are as the sweep's arithmetic needs them, whoever else writes between    *)
(* its awaits: the flags are genuine, a market is announced once, nothing   *)
(* is paid twice.  Inductive.                                               *)
SettlementInv == SettlementTypeOK /\ ScanInv /\ PaidInv
=============================================================================
