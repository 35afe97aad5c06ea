------------------------------ MODULE MCRiskGate ------------------------------
(* Instances of RiskGate.  One is 20, so a price step is 0.05.              *)
EXTENDS RiskGate

CONSTANTS r1, r2, r3, k1, k2, k3

MCKeyOf    == [r \in Requests |-> CASE r = r1 -> k1 [] r = r2 -> k2 [] r = r3 -> k3]
MCSizeOf   == [r \in Requests |-> CASE r = r1 -> 4 [] r = r2 -> 2 [] r = r3 -> 3]
LiveModeOf  == [r \in Requests |-> IF r = r3 THEN "LIVE" ELSE "PAPER"]

(* One small position, which may be settled before anything else happens.   *)
MCHeldBefore == {[k \in Keys |-> IF k = k3 THEN 1 ELSE 0]}

MCPriceOf  == [r \in Requests |-> CASE r = r1 -> 16 [] r = r2 -> 12 [] r = r3 -> 16]

Level(price, usd) == [price |-> price, usd |-> usd]
Entry(bid, ask, usd, age) ==
    [summary |-> Summarize({Level(bid, usd)}, {Level(ask, usd), Level(18, 10)}), age |-> age]

Good == [own |-> Entry(8, 10, 50, 1000), other |-> Entry(8, 11, 20, 2000), feedAge |-> 1500,
         sinceStart |-> 500, timeLeft |-> 60000, countdownAge |-> 2000, active |-> TRUE, closed |-> FALSE,
         database |-> TRUE, redis |-> TRUE]

(* A good market; the same at a worse price, with just the least time left  *)
(* and a countdown of the greatest age; a countdown that is too old; and an *)
(* expired summary, old prices and a database that does not answer.         *)
MCReadings ==
    {Good,
     [Good EXCEPT !.own = Entry(10, 12, 60, 2500), !.timeLeft = 25000, !.countdownAge = 5000],
     [Good EXCEPT !.timeLeft = 19000, !.countdownAge = 12000],
     [Good EXCEPT !.own.age = CACHE_TTL_MS + 1, !.feedAge = 2001, !.database = FALSE]}
=============================================================================
