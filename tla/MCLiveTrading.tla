---------------------------- MODULE MCLiveTrading -----------------------------
(***************************************************************************)
(* Small instances of LiveTrading for TLC.                                 *)
(***************************************************************************)
EXTENDS LiveTrading

CONSTANTS c1, c2, c3, i1, i2, k1, p1, p2

(* c1 and c2 deliver the submit of i1 to two API processes, c3 that of i2.  *)
MCIdOf   == [c \in Calls |-> IF c = c3 THEN i2 ELSE i1]
MCKeyOf  == [i \in Ids |-> k1]
MCProcOf == [c \in Calls |-> IF c = c2 THEN p2 ELSE p1]

(* Or all to one process.                                                   *)
MCOneProc == [c \in Calls |-> p1]
=============================================================================
