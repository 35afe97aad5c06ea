------------------------------ MODULE AccountBook -----------------------------
(***************************************************************************)
(* What the wallet and account routes promise, one atomic step per answer: *)
(* an address that was linked to an account stays with it, and an account  *)
(* is opened to live trading only once it has a linked address.  WalletLink*)
(* implements this; the browser of Terminal is written against it.         *)
(***************************************************************************)
CONSTANTS
    Users,
    Addresses,
    None

ASSUME BookAssumption == None \notin Users

VARIABLES
    linked,     \* the account each address is verified for, or None
    live        \* the accounts that have live trading enabled

bookVars == <<linked, live>>

BookTypeOK ==
    /\ linked \in [Addresses -> Users \cup {None}]
    /\ live \subseteq Users

WalletsOf(u) == {a \in Addresses : linked[a] = u}

BookInit ==
    /\ linked = [a \in Addresses |-> None]
    /\ live = {}

(* POST /api/wallet/link/verify answers 200.                                *)
LinkWallet(u, a) ==
    /\ linked[a] \in {None, u}
    /\ linked' = [linked EXCEPT ![a] = u]
    /\ UNCHANGED live

(* POST /api/account/live-trading, enabled: true.                           *)
TurnOn(u) ==
    /\ WalletsOf(u) # {}
    /\ live' = live \cup {u}
    /\ UNCHANGED linked

(* POST /api/account/live-trading, enabled: false.                          *)
TurnOff(u) ==
    /\ live' = live \ {u}
    /\ UNCHANGED linked

BookNext ==
    \E u \in Users :
        \/ \E a \in Addresses : LinkWallet(u, a)
        \/ TurnOn(u)
        \/ TurnOff(u)

BookSpec == BookInit /\ [][BookNext]_bookVars
=============================================================================
