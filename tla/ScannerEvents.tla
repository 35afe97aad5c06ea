----------------------------- MODULE ScannerEvents -----------------------------
(***************************************************************************)
(* The scanner, with the settlement worker writing the same rows, does what*)
(* the listeners of market.events rely on.                                 *)
(***************************************************************************)
EXTENDS Settlement

Told(type, m, flags) ==
    [type |-> type, market |-> m, active |-> IsActive(flags)]

(* The event scanOnce is about to publish.                                  *)
News ==
    CASE scan = "publish" ->
            Told(IF item.prior = None THEN "MARKET_DISCOVERED" ELSE "MARKET_LIFECYCLE_CHANGED",
                 item.market, FlagsOf(found[item.market]))
      [] scan = "vanished" -> Told("MARKET_LIFECYCLE_CHANGED", item.market, item.prior)
      [] OTHER -> None

Listeners ==
    INSTANCE MarketEvents WITH
        live <- [m \in Markets |-> IF rows[m] = None THEN None ELSE IsActive(rows[m])],
        news <- News,
        log  <- [i \in DOMAIN log |-> Told(log[i].type, log[i].market, log[i].next)]

ASSUME NewsAssumption == None \notin BOOLEAN \cup Listeners!MarketEvent

(* Whatever fails, and whoever else writes the rows, an event comes after   *)
(* the row it tells of and before the next one's, and a market is discovered*)
(* with its first row.                                                      *)
ImplementsEvents == Listeners!EventsSpec
=============================================================================
