------------------------------- MODULE RedisLink -------------------------------
(***************************************************************************)
(* The one ioredis connection of each process (packages/redis), which the  *)
(* loops that read streams share with every other command.  Redis answers  *)
(* the commands of a connection in turn, and an XREADGROUP with BLOCK holds*)
(* its turn until there is an event or the block time is over.             *)
(*                                                                         *)
(* Time goes by in ticks; what is not blocked is answered within one.      *)
(***************************************************************************)
EXTENDS Integers, FiniteSets, Sequences

CONSTANTS
    Readers,        \* the loops over createConsumerGroupReader
    ReaderOf,       \* the process of each
    Processes,
    Block           \* the ticks an XREADGROUP blocks

ASSUME LinkAssumption ==
    /\ IsFiniteSet(Readers) /\ ReaderOf \in [Readers -> Processes]
    /\ Block \in Nat

VARIABLES
    line,           \* commands sent and not answered: the first has its turn
    blocked,        \* ticks for which the first, a read, has blocked
    loop            \* of each reader: what it does next, or awaits

linkVars == <<line, blocked, loop>>

OwnReaders(p) == {r \in Readers : ReaderOf[r] = p}

(* A command waits for the reads before it, one of each loop at most.       *)
LongestWait(p) == Cardinality(OwnReaders(p)) * Block

(* made: ticks since the value it carries was made; nth: a number it carries*)
Command(by, made, nth) == [by |-> by, waited |-> 0, made |-> made, nth |-> nth]

LinkInit ==
    /\ line = [p \in Processes |-> <<>>]
    /\ blocked = [p \in Processes |-> 0]
    /\ loop = [r \in Readers |-> "ready"]

Send(p, command) == line' = [line EXCEPT ![p] = Append(@, command)]

Turn(p, by) == line[p] # <<>> /\ Head(line[p]).by = by

Answer(p) ==
    /\ line' = [line EXCEPT ![p] = Tail(@)]
    /\ blocked' = [blocked EXCEPT ![p] = 0]

(* What a continuation sends at once goes to the end of the line.           *)
AnswerAndSend(p, command) ==
    /\ line' = [line EXCEPT ![p] = Append(Tail(@), command)]
    /\ blocked' = [blocked EXCEPT ![p] = 0]

(* The first readNext of a loop, and the one after its back-off.            *)
Ask(r) ==
    /\ loop[r] = "ready" /\ loop' = [loop EXCEPT ![r] = "reading"]
    /\ Send(ReaderOf[r], Command(r, 0, 0))
    /\ UNCHANGED blocked

(* A read ends with events at any time, which are acknowledged one by one,  *)
(* and with none once the block time is over; the next read follows.        *)
ReadsAhead(r) ==     \* wrong: the next read does not wait for this one's acks
    LET p == ReaderOf[r]
    IN  /\ Turn(p, r)
        /\ line' = [line EXCEPT ![p] = Tail(@) \o <<Command(r, 0, 0), Command(r, 0, 0)>>]
        /\ blocked' = [blocked EXCEPT ![p] = 0]
        /\ UNCHANGED loop

Answered(r) ==
    LET p == ReaderOf[r]
    IN  /\ Turn(p, r)
        /\ AnswerAndSend(p, Command(r, 0, 0))
        /\ \/ loop' = [loop EXCEPT ![r] = "acking"]
           \/ /\ loop[r] = "acking" \/ blocked[p] = Block
              /\ loop' = [loop EXCEPT ![r] = "reading"]

(* The connection is lost: with no offline queue and two retries, what was  *)
(* sent on it rejects, and the loops back off for a second.                 *)
Lost(p) ==
    /\ line[p] # <<>>
    /\ line' = [line EXCEPT ![p] = <<>>]
    /\ blocked' = [blocked EXCEPT ![p] = 0]
    /\ loop' = [r \in Readers |->
                  IF ReaderOf[r] = p /\ loop[r] \in {"reading", "acking"} THEN "resting" ELSE loop[r]]

BlockedRead(p) ==
    \E r \in OwnReaders(p) : Turn(p, r) /\ loop[r] = "reading" /\ blocked[p] < Block

(* Nothing that could be sent or answered is left for a later tick.         *)
MayTick ==
    /\ \A p \in Processes : line[p] = <<>> \/ BlockedRead(p)
    /\ \A r \in Readers : loop[r] # "ready"

LinkTick ==
    /\ MayTick
    /\ line' = [p \in Processes |-> [i \in DOMAIN line[p] |->
                  [line[p][i] EXCEPT !.waited = @ + 1, !.made = @ + 1]]]
    /\ blocked' = [p \in Processes |-> IF BlockedRead(p) THEN blocked[p] + 1 ELSE blocked[p]]
    /\ loop' = [r \in Readers |-> IF loop[r] = "resting" THEN "ready" ELSE loop[r]]

-----------------------------------------------------------------------------
(* A command waits for one read of each loop of its process, and no longer, *)
(* however many commands there are.                                         *)
WaitIsBounded ==
    \A p \in Processes : \A i \in DOMAIN line[p] : line[p][i].waited <= LongestWait(p)
=============================================================================
