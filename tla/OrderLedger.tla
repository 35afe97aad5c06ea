----------------------------- MODULE OrderLedger ------------------------------
(***************************************************************************)
(* What order placement promises, without locks, rows, retries or crashes: *)
(* a clientOrderId is submitted by at most one call, executes at most once *)
(* and within its limit, and is booked into a position at most once and    *)
(* only after it executed.  PaperTrading is shown to implement it.         *)
(***************************************************************************)
EXTENDS Naturals

CONSTANTS Calls, Ids, IdOf, MaxUsd, None

VARIABLES
    executor,   \* the call that submitted the order, or None
    limit,      \* the size it was submitted with
    executed,   \* the USD executed
    booked      \* whether the position includes it

ledgerVars == <<executor, limit, executed, booked>>

Init ==
    /\ executor = [i \in Ids |-> None]
    /\ limit = [i \in Ids |-> 0]
    /\ executed = [i \in Ids |-> 0]
    /\ booked = [i \in Ids |-> FALSE]

Submit(c) ==
    /\ executor[IdOf[c]] = None
    /\ executor' = [executor EXCEPT ![IdOf[c]] = c]
    /\ \E usd \in 1..MaxUsd : limit' = [limit EXCEPT ![IdOf[c]] = usd]
    /\ UNCHANGED <<executed, booked>>

Execute(i) ==
    /\ executor[i] # None /\ executed[i] = 0
    /\ \E usd \in 1..limit[i] : executed' = [executed EXCEPT ![i] = usd]
    /\ UNCHANGED <<executor, limit, booked>>

Book(i) ==
    /\ executed[i] > 0 /\ ~booked[i]
    /\ booked' = [booked EXCEPT ![i] = TRUE]
    /\ UNCHANGED <<executor, limit, executed>>

Next == (\E c \in Calls : Submit(c)) \/ (\E i \in Ids : Execute(i) \/ Book(i))

Spec == Init /\ [][Next]_ledgerVars
=============================================================================
