------------------------------ MODULE MCAccounts ------------------------------
(***************************************************************************)
(* Small instances of Accounts, of WalletLink and of Broadcast, the three  *)
(* parts of apps/api beside its orders.  They share no state: a behaviour  *)
(* has the traffic of one of them.                                         *)
(***************************************************************************)
EXTENDS Accounts, WalletLink, Broadcast, TLC

CONSTANTS n1, n2, n3, e1, e2, r1, r2, r3, u1, u2, a1, o1, c1, c2, c3

VARIABLE traffic

(* n1 has an account with e1; n2 and n3 have none yet.                      *)
MCAccounts0 == {<<n1, e1>>}

(* One person has a wallet and two accounts.                                *)
MCLower == [a \in Addresses |-> a]
MCHolds == {<<u1, a1>>, <<u2, a1>>}

(* c1 and c3 are sockets of the order's user, c2 is somebody else's.        *)
MCSees == (c1 :> {o1} @@ c2 :> {} @@ c3 :> {o1})

MCInit ==
    /\ AccountsInit /\ WalletInit /\ BroadcastInit
    /\ traffic \in {"sign-in", "linking", "sockets"}

MCNext ==
    \/ traffic = "sign-in" /\ AccountsNext /\ UNCHANGED <<walletVars, broadcastVars, traffic>>
    \/ traffic = "linking" /\ WalletNext /\ UNCHANGED <<accountVars, broadcastVars, traffic>>
    \/ traffic = "sockets" /\ BroadcastNext /\ UNCHANGED <<accountVars, walletVars, traffic>>

MCSpec == MCInit /\ [][MCNext]_<<accountVars, walletVars, broadcastVars, traffic>>

(* Calls and Requests are one set.                                          *)
Interchangeable == Permutations(Requests)
=============================================================================
