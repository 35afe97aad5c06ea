-------------------------------- MODULE MCAgent --------------------------------
(***************************************************************************)
(* The agent, live and replayed: small instances of SignalEngine, of       *)
(* Discovery, whose client of Polymarket retries by the same rules as that *)
(* of xAI, and of Backtester.  They share no state: a behaviour has the    *)
(* traffic of one of them.                                                 *)
(***************************************************************************)
EXTENDS SignalEngine, Discovery, MCBacktester

CONSTANTS r1, r2, e1, e2, e3, e4, e5

VARIABLE traffic

Five == [valid |-> TRUE, names |-> {"BTC"}, dollars |-> "number", threshold |-> TRUE,
         start |-> 1000, end |-> 1300, outcomes |-> {"yes", "no"},
         active |-> TRUE, closed |-> FALSE, won |-> FALSE]

(* A market of five minutes, one at the edge that is resolved, one that     *)
(* names both assets, a threshold without a number, and another shape.      *)
MCRawOf == [e \in Entries |->
    CASE e = e1 -> Five
      [] e = e2 -> [Five EXCEPT !.names = {"ETH"}, !.dollars = "none", !.threshold = FALSE,
                                !.end = 1270, !.closed = TRUE, !.won = TRUE]
      [] e = e3 -> [Five EXCEPT !.names = {"BTC", "ETH"}]
      [] e = e4 -> [Five EXCEPT !.dollars = "none"]
      [] e = e5 -> [Five EXCEPT !.valid = FALSE]]

MCFirstListings == {<<e1, e5, e2>>, <<e5, e3>>, <<e4, e1>>, <<>>}

(* Of the two that have no traffic one initial state is enough.             *)
MCInit ==
    /\ Init /\ DiscoveryInit /\ BacktestInit
    /\ traffic \in {"analyses", "discovery", "backtest"}
    /\ traffic # "analyses" => port = "grok"
    /\ traffic # "discovery" => listing = <<>>
    /\ traffic # "backtest" => engines[1].outcome = "NO" /\ engines[2].outcome = "YES"

MCNext ==
    \/ traffic = "analyses" /\ Next /\ UNCHANGED <<discoveryVars, backtestVars, traffic>>
    \/ traffic = "discovery" /\ DiscoveryNext /\ UNCHANGED <<vars, backtestVars, traffic>>
    \/ traffic = "backtest" /\ BacktestNext /\ UNCHANGED <<vars, discoveryVars, traffic>>

MCSpec == /\ MCInit /\ [][MCNext]_<<vars, discoveryVars, backtestVars, traffic>>
          /\ traffic = "analyses" => Fairness
          /\ traffic = "discovery" => DiscoveryFairness

(* Analyses and fetches end, by the rules of retries the two clients share. *)
RetriesEnd == AnalysisEnds /\ FetchEnds
=============================================================================
