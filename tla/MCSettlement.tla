----------------------------- MODULE MCSettlement ------------------------------
(***************************************************************************)
(* Small instances of Settlement for TLC.                                  *)
(***************************************************************************)
EXTENDS ScannerEvents, TLC

CONSTANTS m1, p1, p2, w1, w2

(* One position on each side of one market.                                 *)
MCOneMarket == [p \in Positions |-> m1]
MCSideOf    == [p \in Positions |-> IF p = p1 THEN "YES" ELSE "NO"]

(* Nothing tells the workers apart.                                         *)
WorkerSymmetry == Permutations(Workers)
=============================================================================
