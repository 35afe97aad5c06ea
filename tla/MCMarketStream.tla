---------------------------- MODULE MCMarketStream -----------------------------
(***************************************************************************)
(* Small instances of the two feeds of market-stream, MarketStream and     *)
(* PriceFeed, which share no state here: a behaviour is of one of them, and*)
(* of prices it is with countdowns or with orders.                         *)
(***************************************************************************)
EXTENDS MarketStream, PriceFeed, TLC

CONSTANTS m1, s1, a1, a2

VARIABLE carried

(* One loop reads in market-stream, two of the API's four read there.       *)
MCReaderOf == (s1 :> stream @@ a1 :> api @@ a2 :> api)

MCInit == Init /\ PriceInit /\ carried \in {"markets", "countdowns", "orders"}

NoCountdown == \A i \in DOMAIN line[stream] : line[stream][i].by # "countdown"

MCNext ==
    /\ UNCHANGED carried
    /\ \/ carried = "markets" /\ Next /\ UNCHANGED priceVars
       \/ carried = "countdowns" /\ PriceNext /\ request' = "none" /\ UNCHANGED vars
       \/ carried = "orders" /\ PriceNext /\ NoCountdown' /\ UNCHANGED vars

MCSpec == MCInit /\ [][MCNext]_<<vars, priceVars, carried>>

Interchangeable == Permutations({a1, a2})
=============================================================================
