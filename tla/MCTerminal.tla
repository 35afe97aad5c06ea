------------------------------ MODULE MCTerminal ------------------------------
(***************************************************************************)
(* A small instance of Terminal: one tab, two accounts of one person.      *)
(***************************************************************************)
EXTENDS Terminal, TLC

CONSTANTS u1, u2, a1, a2, t1

Interchangeable == Permutations(Users) \cup Permutations(Addresses)
=============================================================================
