---------------------------- MODULE MCPaperTrading ----------------------------
(***************************************************************************)
(* Small instances of PaperTrading for TLC.                                *)
(***************************************************************************)
EXTENDS PaperTrading

CONSTANTS c1, c2, c3, i1, i2, k1, k2

(* A retry of order i1 and an order i2 of its own, in one position.         *)
MCRetryId  == [c \in Calls |-> IF c = c3 THEN i2 ELSE i1]
MCOneKey   == [i \in Ids |-> k1]
=============================================================================
