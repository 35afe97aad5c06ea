---------------------------- MODULE SettlementProofs ---------------------------
(***************************************************************************)
(* Proofs about Settlement and MarketScanner for any number of markets,    *)
(* positions, workers and scans.                                           *)
(***************************************************************************)
EXTENDS ScannerEvents, TLAPS

USE ScannerAssumption, SettlementAssumption

-----------------------------------------------------------------------------
(***************************************************************************)
(* Arithmetic of a row.  A row that is sound for n shares ...              *)
(***************************************************************************)
RowSound(row, n, payoff, known) ==
    Paid(row, n, payoff, known) /\ (row.size > 0 => row.avg = Price)

LEMMA Quotient ==
    ASSUME NEW a \in Nat, NEW b \in Nat \ {0}
    PROVE  (a * b) \div b = a
OBVIOUS

(* ... is sound for more of them, and when the winner becomes known,        *)
LEMMA SoundKeeps ==
    ASSUME NEW row \in Rows, NEW n \in Nat, NEW k \in Nat, n <= k,
           NEW payoff \in Int, NEW known \in BOOLEAN,
           NEW payoff2 \in Int, NEW known2 \in BOOLEAN,
           known => known2 /\ payoff2 = payoff,
           RowSound(row, n, payoff, known)
    PROVE  RowSound(row, k, payoff2, known2)
<1>1. PICK paid \in 0..n : /\ paid + row.size <= n
                           /\ row.pnl = paid * (payoff - Price)
                           /\ paid > 0 => known
  BY DEF RowSound, Paid
<1>2. paid \in 0..k /\ paid + row.size <= k
  BY <1>1 DEF Rows
<1>3. row.pnl = paid * (payoff2 - Price)
  <2>1. CASE known BY <1>1, <2>1
  <2>2. CASE ~known
    <3>1. paid = 0 BY <1>1, <2>2
    <3> QED BY <1>1, <3>1
  <2> QED BY <2>1, <2>2
<1> QED BY <1>1, <1>2, <1>3 DEF RowSound, Paid

(* a row of no shares is sound,                                             *)
LEMMA NoRowSound ==
    ASSUME NEW n \in Nat, NEW payoff \in Int, NEW known \in BOOLEAN
    PROVE  RowSound(NoRow, n, payoff, known) /\ NoRow \in Rows
<1>1. 0 \in 0..n /\ 0 + NoRow.size <= n /\ NoRow.pnl = 0 * (payoff - Price)
  BY DEF NoRow
<1> QED BY <1>1 DEF RowSound, Paid, NoRow, Rows

(* one share more leaves it sound for one share more,                       *)
LEMMA OpeningSound ==
    ASSUME NEW row \in Rows, NEW n \in 0..MaxShares, n < MaxShares,
           NEW payoff \in Int, NEW known \in BOOLEAN,
           RowSound(row, n, payoff, known)
    PROVE  /\ RowSound(Opening(row, Price, 1), n + 1, payoff, known)
           /\ Opening(row, Price, 1) \in Rows
<1> DEFINE new == Opening(row, Price, 1)
<1>0. row.size \in Nat /\ row.avg \in Nat /\ row.pnl \in Int
  BY DEF Rows
<1>1. /\ new.size = row.size + 1
      /\ new.avg = (row.avg * row.size + Price * 1) \div (row.size + 1)
      /\ new.pnl = row.pnl
  BY DEF Opening, Rows
<1>2. row.avg * row.size + Price * 1 = Price * (row.size + 1)
  <2>1. CASE row.size = 0 BY <2>1, <1>0
  <2>2. CASE row.size > 0 BY <2>2, <1>0 DEF RowSound
  <2> QED BY <2>1, <2>2, <1>0
<1>3. new.avg = Price
  <2>1. new.avg = (Price * (row.size + 1)) \div (row.size + 1)
    BY <1>1, <1>2, Zenon
  <2>2. Price \in Nat /\ row.size + 1 \in Nat \ {0}
    BY <1>0, SettlementAssumption
  <2> QED BY <2>1, <2>2, Quotient, Zenon
<1>4. PICK paid \in 0..n : /\ paid + row.size <= n
                           /\ row.pnl = paid * (payoff - Price)
                           /\ paid > 0 => known
  BY DEF RowSound, Paid
<1>5. paid \in 0..(n + 1) /\ paid + new.size <= n + 1 /\ new.pnl = paid * (payoff - Price)
  BY <1>0, <1>1, <1>4
<1>6. new.size \in 0..MaxShares
  BY <1>0, <1>1, <1>4
<1>7. new \in Rows
  <2>1. new = [row EXCEPT !.size = new.size, !.avg = new.avg]
    BY DEF Opening, Rows
  <2>2. new.avg \in 0..One
    BY <1>3
  <2> HIDE DEF new
  <2> QED BY <1>6, <2>1, <2>2 DEF Rows
<1> QED BY <1>3, <1>4, <1>5, <1>7 DEF RowSound, Paid

(* and so does closing some of its shares at the outcome.                   *)
LEMMA ClosingSound ==
    ASSUME NEW row \in Rows, NEW n \in Nat, NEW payoff \in Int,
           NEW size \in Nat, size > 0, size <= row.size,
           RowSound(row, n, payoff, TRUE)
    PROVE  /\ RowSound(Closing(row, payoff, size), n, payoff, TRUE)
           /\ Closing(row, payoff, size) \in Rows
<1> DEFINE new == Closing(row, payoff, size)
<1>0. row.size \in 0..MaxShares /\ row.avg \in 0..One /\ row.pnl \in Int
  BY DEF Rows
<1>1. /\ new.size = row.size - size
      /\ new.avg = IF row.size > size THEN row.avg ELSE 0
      /\ new.pnl = row.pnl + (payoff - row.avg) * size
  BY DEF Closing
<1>2. PICK paid \in 0..n : paid + row.size <= n /\ row.pnl = paid * (payoff - Price)
  BY DEF RowSound, Paid
<1>3. row.avg = Price
  BY <1>0 DEF RowSound
<1>4. new.pnl = (paid + size) * (payoff - Price)
  BY <1>0, <1>1, <1>2, <1>3
<1>5. paid + size \in 0..n /\ (paid + size) + new.size <= n
  BY <1>0, <1>1, <1>2
<1>6. new.size > 0 => new.avg = Price
  BY <1>0, <1>1, <1>3
<1>7. new \in Rows
  BY <1>0 DEF Closing, Rows
<1> QED BY <1>4, <1>5, <1>6, <1>7 DEF RowSound, Paid

-----------------------------------------------------------------------------
(***************************************************************************)
(* The scanner and the world keep their types.                             *)
(***************************************************************************)
LEMMA FlagsOfType ==
    ASSUME NEW listing \in Listings PROVE FlagsOf(listing) \in Flags
BY DEF Listings, Flags, FlagsOf

LEMMA ListingsClosed ==
    ASSUME NEW listing \in Listings, NEW active \in BOOLEAN, NEW side \in Sides
    PROVE  /\ [listing EXCEPT !.closed = TRUE, !.active = active] \in Listings
           /\ [listing EXCEPT !.winner = side] \in Listings
BY DEF Listings

LEMMA WorldTypeOK ==
    ASSUME ScannerTypeOK, NEW m \in Markets, WorldStep(m)
    PROVE  ScannerTypeOK'
<1>0. UNCHANGED <<rows, scannerVars>>
  BY DEF WorldStep
<1>1. /\ exchange' \in [Markets -> Listings \cup {None}]
      /\ winner' \in [Markets -> Sides \cup {None}]
      /\ expired' \subseteq Markets
  <2> USE DEF ScannerTypeOK
  <2>1. CASE List(m)
    <3>1. [active |-> TRUE, closed |-> FALSE, winner |-> None] \in Listings
      BY DEF Listings
    <3> QED BY <2>1, <3>1 DEF List
  <2>2. CASE Expire(m)  BY <2>2 DEF Expire
  <2>3. CASE Close(m)
    <3>1. exchange[m] \in Listings BY <2>3 DEF Close
    <3>2. PICK active \in BOOLEAN :
             exchange' = [exchange EXCEPT ![m] =
                            [exchange[m] EXCEPT !.closed = TRUE, !.active = active]]
      BY <2>3 DEF Close
    <3>3. \A side \in {"YES"} : [exchange[m] EXCEPT !.closed = TRUE, !.active = active] \in Listings
      BY <3>1, ListingsClosed DEF Sides
    <3> QED BY <2>3, <3>2, <3>3 DEF Close
  <2>4. CASE Resolve(m)
    <3>1. exchange[m] \in Listings BY <2>4 DEF Resolve
    <3>2. PICK side \in Sides :
             /\ winner' = [winner EXCEPT ![m] = side]
             /\ exchange' = [exchange EXCEPT ![m] = [exchange[m] EXCEPT !.winner = side]]
      BY <2>4 DEF Resolve
    <3>3. [exchange[m] EXCEPT !.winner = side] \in Listings BY <3>1, ListingsClosed
    <3> QED BY <2>4, <3>2, <3>3 DEF Resolve
  <2>5. CASE Delist(m)  BY <2>5 DEF Delist
  <2> QED BY <2>1, <2>2, <2>3, <2>4, <2>5 DEF WorldStep
<1> QED BY <1>0, <1>1 DEF ScannerTypeOK, scannerVars

LEMMA ScanEndsType == ASSUME ScannerTypeOK, ScanEnds PROVE ScannerTypeOK'
BY DEF ScannerTypeOK, ScanEnds, worldVars, ScanPc, Nothing

LEMMA PublishType ==
    ASSUME ScannerTypeOK, item.market \in Markets, NEW flags \in Flags,
           NEW type \in {"MARKET_DISCOVERED", "MARKET_LIFECYCLE_CHANGED"}, Publish(type, flags)
    PROVE  log' \in Seq(Events)
BY DEF ScannerTypeOK, Publish, Events

LEMMA ScanTypeOK ==
    ASSUME ScannerTypeOK, ItemIsListed, ScanStep \/ ScanFails
    PROVE  ScannerTypeOK'
<1> USE DEF ScannerTypeOK, worldVars, ScanPc
<1>1. CASE FetchAllPages
  BY <1>1 DEF FetchAllPages
<1>2. CASE ListActive
  BY <1>2 DEF ListActive
<1>3. ASSUME NEW m \in Markets, FindPrior(m) PROVE ScannerTypeOK'
  <2>1. [market |-> m, prior |-> PriorRow(m)] \in Items
    BY DEF PriorRow, Items
  <2> QED BY <1>3, <2>1 DEF FindPrior
<1>4. CASE Upsert
  <2>1. FlagsOf(found[item.market]) \in Flags
    BY <1>4, FlagsOfType DEF Upsert, ItemIsListed
  <2> QED BY <1>4, <2>1 DEF Upsert
<1>5. CASE PublishItem
  <2>1. item.market \in Markets /\ FlagsOf(found[item.market]) \in Flags
    BY <1>5, FlagsOfType DEF PublishItem, ItemIsListed
  <2>2. log' \in Seq(Events)
    BY <1>5, <2>1, PublishType DEF PublishItem
  <2> QED BY <1>5, <2>2 DEF PublishItem
<1>6. CASE ItemsDone
  BY <1>6 DEF ItemsDone
<1>7. ASSUME NEW m \in Markets, Vanish(m) PROVE ScannerTypeOK'
  <2>1. rows[m] \in Flags
    BY <1>7 DEF Vanish, ItemIsListed
  <2>2. [rows[m] EXCEPT !.active = FALSE, !.closed = TRUE] \in Flags
    BY <2>1 DEF Flags
  <2>3. rows' \in [Markets -> Flags \cup {None}] /\ rows'[m] \in Flags
    BY <1>7, <2>2 DEF Vanish
  <2>4. item' \in Items
    BY <1>7, <2>3 DEF Vanish, Items
  <2> QED BY <1>7, <2>3, <2>4 DEF Vanish
<1>8. CASE PublishVanished
  <2>1. item.market \in Markets /\ item.prior \in Flags
    BY <1>8 DEF PublishVanished, ItemIsListed, Items, NoItem
  <2>2. log' \in Seq(Events)
    BY <1>8, <2>1, PublishType DEF PublishVanished
  <2> QED BY <1>8, <2>2 DEF PublishVanished
<1>9. CASE ScanDone \/ ScanFails
  BY <1>9, ScanEndsType DEF ScanDone, ScanFails
<1> QED BY <1>1, <1>2, <1>3, <1>4, <1>5, <1>6, <1>7, <1>8, <1>9 DEF ScanStep

-----------------------------------------------------------------------------
(***************************************************************************)
(* ScanInv.                                                                *)
(***************************************************************************)
LEMMA WorldScanInv ==
    ASSUME ScannerTypeOK, ScanInv, NEW m \in Markets, WorldStep(m)
    PROVE  /\ ScanInv'
           /\ \A n \in Markets : winner[n] # None => winner'[n] = winner[n]
<1>0. UNCHANGED <<rows, scannerVars>>
  BY DEF WorldStep
<1>1. /\ expired \subseteq expired'
      /\ \A n \in Markets : winner[n] # None => winner'[n] = winner[n]
      /\ ListingsAreGenuine'
  <2> USE <1>0 DEF ScannerTypeOK, ScanInv, ListingsAreGenuine, Genuine, scannerVars
  <2>1. CASE List(m)    BY <2>1 DEF List
  <2>2. CASE Expire(m)  BY <2>2 DEF Expire
  <2>3. CASE Close(m)
    <3>1. PICK active \in BOOLEAN :
             exchange' = [exchange EXCEPT ![m] =
                            [exchange[m] EXCEPT !.closed = TRUE, !.active = active]]
      BY <2>3 DEF Close
    <3>2. exchange[m] \in Listings
      BY <2>3 DEF Close
    <3>3. exchange'[m].winner = exchange[m].winner
      BY <3>1, <3>2 DEF Listings
    <3> QED BY <2>3, <3>1, <3>2, <3>3 DEF Close
  <2>4. CASE Resolve(m)
    <3>1. PICK side \in Sides :
             /\ winner' = [winner EXCEPT ![m] = side]
             /\ exchange' = [exchange EXCEPT ![m] = [exchange[m] EXCEPT !.winner = side]]
      BY <2>4 DEF Resolve
    <3>2. exchange[m] \in Listings /\ exchange[m].closed
      BY <2>4 DEF Resolve
    <3>3. exchange'[m].closed /\ winner'[m] # None
      BY <3>1, <3>2 DEF Listings
    <3> QED BY <2>4, <3>1, <3>2, <3>3 DEF Resolve
  <2>5. CASE Delist(m)  BY <2>5 DEF Delist
  <2> QED BY <2>1, <2>2, <2>3, <2>4, <2>5 DEF WorldStep
<1>2. FlagsAreGenuine'
  BY <1>0, <1>1 DEF ScanInv, FlagsAreGenuine
<1>3. DiscoveredOnce' /\ ItemIsListed' /\ EventsFollowRows'
  BY <1>0, <1>1 DEF ScanInv, DiscoveredOnce, ItemIsListed, EventsFollowRows, Discovered, scannerVars
<1> QED BY <1>1, <1>2, <1>3 DEF ScanInv

LEMMA FlagsOfGenuine ==
    ASSUME ScannerTypeOK, NEW m \in Markets, NEW listing \in Listings, Genuine(m, listing)
    PROVE  /\ FlagsOf(listing).resolved => winner[m] # None
           /\ FlagsOf(listing).closed => m \in expired
BY DEF FlagsOf, Genuine, Listings

LEMMA AppendedEvent ==
    ASSUME ScannerTypeOK, NEW flags, NEW type, Publish(type, flags)
    PROVE  /\ DOMAIN log' = 1..(Len(log) + 1) /\ DOMAIN log = 1..Len(log)
           /\ \A i \in DOMAIN log : log'[i] = log[i]
           /\ log'[Len(log) + 1].type = type /\ log'[Len(log) + 1].market = item.market
BY DEF ScannerTypeOK, Publish

LEMMA FoundIsGenuine ==
    ASSUME ScannerTypeOK, ScanInv, ScanStep \/ ScanFails
    PROVE  ListingsAreGenuine'
<1>1. UNCHANGED worldVars /\ \A m \in Markets : found'[m] \in {found[m], exchange[m], None}
  BY DEF ScannerTypeOK, ScanStep, ScanFails, ScanDone, ScanEnds, FetchAllPages, ListActive, FindPrior, Upsert,
         PublishItem, ItemsDone, Vanish, PublishVanished, Nothing
<1> QED BY <1>1 DEF ScanInv, ListingsAreGenuine, Genuine, worldVars

LEMMA RowsAreGenuine ==
    ASSUME ScannerTypeOK, ScanInv, ScanStep \/ ScanFails
    PROVE  FlagsAreGenuine' /\ \A m \in Markets : rows[m] # None => rows'[m] # None
<1> USE DEF ScannerTypeOK, ScanInv, FlagsAreGenuine, worldVars
<1>1. CASE Upsert
  <2>1. item.market \in Markets /\ found[item.market] \in Listings
    BY <1>1 DEF Upsert, ItemIsListed
  <2>2. Genuine(item.market, found[item.market])
    BY <2>1 DEF ListingsAreGenuine
  <2>3. FlagsOf(found[item.market]) # None
    BY <2>1, FlagsOfType
  <2> QED BY <1>1, <2>1, <2>2, <2>3, FlagsOfGenuine DEF Upsert
<1>2. ASSUME NEW m \in Markets, Vanish(m)
      PROVE  FlagsAreGenuine' /\ \A n \in Markets : rows[n] # None => rows'[n] # None
  <2>1. rows[m] \in Flags /\ m \in expired
    BY <1>2 DEF Vanish, ItemIsListed
  <2> DEFINE new == [rows[m] EXCEPT !.active = FALSE, !.closed = TRUE]
  <2>2. new \in Flags /\ new.resolved = rows[m].resolved
    BY <2>1 DEF Flags
  <2>3. rows' = [rows EXCEPT ![m] = new] /\ UNCHANGED worldVars
    BY <1>2 DEF Vanish
  <2> HIDE DEF new
  <2> QED BY <2>1, <2>2, <2>3
<1>3. CASE ~Upsert /\ \A m \in Markets : ~Vanish(m)
  <2>1. UNCHANGED <<rows, worldVars>>
    BY <1>3 DEF ScanStep, ScanFails, ScanDone, ScanEnds, FetchAllPages, ListActive, FindPrior,
                PublishItem, ItemsDone, PublishVanished
  <2> QED BY <2>1
<1> QED BY <1>1, <1>2, <1>3

LEMMA ItemsAreListed ==
    ASSUME ScannerTypeOK, ScanInv, ScanStep \/ ScanFails
    PROVE  ItemIsListed'
<1>0. \A m \in Markets : rows[m] # None => rows'[m] # None
  BY RowsAreGenuine
<1> USE <1>0 DEF ScannerTypeOK, ScanInv, ItemIsListed, worldVars
<1>1. CASE FetchAllPages   BY <1>1 DEF FetchAllPages
<1>2. CASE ListActive      BY <1>2 DEF ListActive, IsActive, Listed
<1>3. ASSUME NEW m \in Markets, FindPrior(m) PROVE ItemIsListed'
  BY <1>3 DEF FindPrior
<1>4. CASE Upsert          BY <1>4 DEF Upsert
<1>5. CASE PublishItem     BY <1>5 DEF PublishItem
<1>6. CASE ItemsDone       BY <1>6 DEF ItemsDone, TimeOver
<1>7. ASSUME NEW m \in Markets, Vanish(m) PROVE ItemIsListed'
  <2>1. item'.market = m /\ item'.prior = rows'[m] /\ rows[m] # None
    BY <1>7 DEF Vanish
  <2> QED BY <1>7, <2>1 DEF Vanish
<1>8. CASE PublishVanished BY <1>8 DEF PublishVanished
<1>9. CASE ScanDone \/ ScanFails
  BY <1>9 DEF ScanDone, ScanFails, ScanEnds, Nothing
<1> QED BY <1>1, <1>2, <1>3, <1>4, <1>5, <1>6, <1>7, <1>8, <1>9 DEF ScanStep

LEMMA DiscoveryOnce ==
    ASSUME ScannerTypeOK, ScanInv, ScanStep \/ ScanFails
    PROVE  DiscoveredOnce' /\ EventsFollowRows'
<1>0. \A m \in Markets : rows[m] # None => rows'[m] # None
  BY RowsAreGenuine
<1> USE DEF ScanInv
<1>1. CASE PublishItem
  <2> DEFINE type == IF item.prior = None THEN "MARKET_DISCOVERED" ELSE "MARKET_LIFECYCLE_CHANGED"
  <2>1. /\ DOMAIN log' = 1..(Len(log) + 1) /\ DOMAIN log = 1..Len(log) /\ Len(log) \in Nat
        /\ \A i \in DOMAIN log : log'[i] = log[i]
        /\ log'[Len(log) + 1].type = type /\ log'[Len(log) + 1].market = item.market
    BY <1>1, AppendedEvent DEF PublishItem, ScannerTypeOK
  <2>2. /\ item.prior = None => ~Discovered(item.market)
        /\ rows[item.market] # None
        /\ UNCHANGED rows /\ scan' = "items"
    BY <1>1 DEF PublishItem, EventsFollowRows
  <2>3. DiscoveredOnce'
    BY <2>1, <2>2 DEF DiscoveredOnce, Discovered
  <2>4. \A m \in Markets : Discovered(m)' => Discovered(m) \/ m = item.market
    BY <2>1 DEF Discovered
  <2> QED BY <2>2, <2>3, <2>4 DEF EventsFollowRows
<1>2. CASE PublishVanished
  <2>1. /\ DOMAIN log' = 1..(Len(log) + 1) /\ DOMAIN log = 1..Len(log) /\ Len(log) \in Nat
        /\ \A i \in DOMAIN log : log'[i] = log[i]
        /\ log'[Len(log) + 1].type = "MARKET_LIFECYCLE_CHANGED"
    BY <1>2, AppendedEvent DEF PublishVanished, ScannerTypeOK
  <2>2. UNCHANGED rows /\ scan' = "missing"
    BY <1>2 DEF PublishVanished
  <2>3. DiscoveredOnce'
    BY <2>1 DEF DiscoveredOnce
  <2>4. \A m \in Markets : Discovered(m)' => Discovered(m)
    BY <2>1 DEF Discovered
  <2> QED BY <2>2, <2>3, <2>4 DEF EventsFollowRows
<1>3. CASE UNCHANGED log
  <2>1. DiscoveredOnce' /\ \A m : Discovered(m)' <=> Discovered(m)
    BY <1>3 DEF DiscoveredOnce, Discovered
  <2>2. \A m \in Markets : Discovered(m)' => rows'[m] # None
    BY <1>0, <2>1 DEF EventsFollowRows
  <2>3. scan' = "publish" => item.market \in Markets /\ rows'[item'.market] # None
    BY <1>3, FlagsOfType DEF ScanStep, ScanFails, ScanDone, ScanEnds, FetchAllPages, ListActive, FindPrior,
         Upsert, ItemsDone, Vanish, PublishItem, PublishVanished, ScannerTypeOK, ItemIsListed
  <2>4. scan' \in {"upsert", "publish"} /\ item'.prior = None => ~Discovered(item'.market)
    <3>1. CASE Upsert
      BY <3>1 DEF Upsert, EventsFollowRows
    <3>2. ASSUME NEW m \in Markets, FindPrior(m), item'.prior = None PROVE ~Discovered(item'.market)
      <4>1. item'.market = m /\ rows[m] = None
        BY <3>2 DEF FindPrior, PriorRow
      <4> QED BY <4>1 DEF EventsFollowRows
    <3>3. CASE ~Upsert /\ \A m \in Markets : ~FindPrior(m)
      BY <1>3, <3>3 DEF ScanStep, ScanFails, ScanDone, ScanEnds, FetchAllPages, ListActive,
           ItemsDone, Vanish, PublishItem, PublishVanished
    <3> QED BY <3>1, <3>2, <3>3
  <2> QED BY <2>1, <2>2, <2>3, <2>4 DEF EventsFollowRows
<1>4. PublishItem \/ PublishVanished \/ UNCHANGED log
  BY DEF ScanStep, ScanFails, ScanDone, ScanEnds, FetchAllPages, ListActive, FindPrior, Upsert,
         ItemsDone, Vanish
<1> QED BY <1>1, <1>2, <1>3, <1>4

LEMMA ScanKeepsInv ==
    ASSUME ScannerTypeOK, ScanInv, ScanStep \/ ScanFails
    PROVE  ScanInv'
BY FoundIsGenuine, RowsAreGenuine, ItemsAreListed, DiscoveryOnce DEF ScanInv

-----------------------------------------------------------------------------
(***************************************************************************)
(* Fills and sweeps keep their types.                                      *)
(***************************************************************************)
LEMMA SoundForm ==
    ASSUME SettlementTypeOK, NEW p \in Positions
    PROVE  /\ Payoff(p) \in Int /\ MarketOf[p] \in Markets /\ bought[p] \in 0..MaxShares
           /\ \A row : Sound(p, row) <=>
                 RowSound(row, bought[p], Payoff(p), winner[MarketOf[p]] # None)
BY DEF Sound, RowSound, PaidFor, Payoff, SettlementTypeOK

(* What FillWrite and WritePosition write.                                  *)
LEMMA FillWritesSound ==
    ASSUME SettlementTypeOK, PaidInv, NEW p \in Positions, FillWrite(p)
    PROVE  /\ bought[p] < MaxShares /\ bought[p] \in 0..MaxShares
           /\ book' = [book EXCEPT ![p] = Opening(folding[p], Price, 1)]
           /\ Opening(folding[p], Price, 1) \in Rows
           /\ RowSound(Opening(folding[p], Price, 1), bought[p] + 1,
                        Payoff(p), winner[MarketOf[p]] # None)
<1>1. folding[p] \in Rows /\ bought[p] < MaxShares /\ Sound(p, folding[p])
  BY DEF FillWrite, SettlementTypeOK, PaidInv, RowsAreSound
<1>2. bought[p] \in 0..MaxShares /\ Payoff(p) \in Int
  BY SoundForm
<1>3. RowSound(folding[p], bought[p], Payoff(p), winner[MarketOf[p]] # None)
  BY <1>1, SoundForm
<1> QED BY <1>1, <1>2, <1>3, OpeningSound DEF FillWrite

LEMMA CloseWritesSound ==
    ASSUME SettlementTypeOK, PaidInv, NEW w \in Workers, WritePosition(w),
           NEW p, p = current[w].position
    PROVE  /\ p \in Positions /\ MarketOf[p] = market[w] /\ winner[MarketOf[p]] # None
           /\ book' = [book EXCEPT ![p] = Closing(current[w].row, Payoff(p), ClosedSize(w, p))]
           /\ Closing(current[w].row, Payoff(p), ClosedSize(w, p)) \in Rows
           /\ RowSound(Closing(current[w].row, Payoff(p), ClosedSize(w, p)), bought[p], Payoff(p), TRUE)
<1> DEFINE row == current[w].row
<1>1. /\ sweep[w] = "write"
      /\ ClosedSize(w, p) > 0
      /\ book' = [book EXCEPT ![p] = Closing(row, Payoff(p), ClosedSize(w, p))]
  BY DEF WritePosition, Go
<1>2. p \in Positions /\ row \in Rows
  BY <1>1 DEF SettlementTypeOK, PaidInv, CopyIsSound
<1>3. MarketOf[p] = market[w] /\ winner[market[w]] # None /\ Sound(p, row)
  BY <1>1 DEF PaidInv, CopyIsSound, MarketIsDecided
<1>4. RowSound(row, bought[p], Payoff(p), TRUE) /\ Payoff(p) \in Int /\ bought[p] \in Nat
  <2>1. RowSound(row, bought[p], Payoff(p), winner[MarketOf[p]] # None)
    BY <1>2, <1>3, SoundForm
  <2>2. RowSound(row, bought[p], Payoff(p), TRUE)
    BY <1>3, <2>1 DEF RowSound, Paid
  <2>3. Payoff(p) \in Int /\ bought[p] \in Nat
    BY <1>2, SoundForm
  <2> QED BY <2>2, <2>3
<1>5. ClosedSize(w, p) \in Nat /\ ClosedSize(w, p) <= row.size
  BY <1>2 DEF ClosedSize, SettlementTypeOK, Rows
<1> QED BY <1>1, <1>2, <1>3, <1>4, <1>5, ClosingSound

LEMMA FillTypeOK ==
    ASSUME SettlementTypeOK, PaidInv, NEW p \in Positions, Fill(p)
    PROVE  SettlementTypeOK'
<1>1. UNCHANGED <<worldVars, scannerVars, rows, workerVars, closed, settled, unrecorded>>
  BY DEF Fill
<1>2. ScannerTypeOK'
  BY <1>1 DEF SettlementTypeOK, ScannerTypeOK, worldVars, scannerVars
<1>3. CASE FillRead(p)
  <2>1. NoRow \in Rows
    BY DEF NoRow, Rows
  <2> QED BY <1>1, <1>2, <1>3, <2>1 DEF FillRead, SettlementTypeOK, workerVars
<1>4. CASE FillWrite(p)
  <2>1. book' \in [Positions -> Rows \cup {None}]
    <3>1. PICK row \in Rows : book' = [book EXCEPT ![p] = row]
      BY <1>4, FillWritesSound
    <3>2. book \in [Positions -> Rows \cup {None}]
      BY DEF SettlementTypeOK
    <3> QED BY <3>1, <3>2
  <2>2. bought' \in [Positions -> 0..MaxShares]
    <3>1. bought[p] + 1 \in 0..MaxShares
      BY <1>4, FillWritesSound
    <3> QED BY <1>4, <3>1 DEF FillWrite, SettlementTypeOK
  <2>3. folding' \in [Positions -> Rows \cup {None}]
    BY <1>4 DEF FillWrite, SettlementTypeOK
  <2>4. late' \subseteq Markets
    BY <1>4 DEF FillWrite, SettlementTypeOK
  <2> QED BY <1>1, <1>2, <2>1, <2>2, <2>3, <2>4 DEF SettlementTypeOK, workerVars
<1> QED BY <1>3, <1>4 DEF Fill

LEMMA SettlesTypeOK ==
    ASSUME SettlementTypeOK, PaidInv, NEW w \in Workers, Settles(w) \/ SweepFails(w),
           UNCHANGED <<worldVars, scannerVars>>, unrecorded' \subseteq Positions
    PROVE  SettlementTypeOK'
<1>0. ScannerTypeOK
  BY DEF SettlementTypeOK
<1>1. CASE UNCHANGED rows
  <2>1. ScannerTypeOK'
    BY <1>0, <1>1 DEF ScannerTypeOK, worldVars, scannerVars
  <2>2. NoRow \in Rows
    BY DEF NoRow, Rows
  <2> USE <1>1, <2>1 DEF SettlementTypeOK, Go, SweepPc, Idle, bookVars
  <2>3. CASE ListExpiredUnresolved(w) BY <2>3, <1>0 DEF ListExpiredUnresolved, ScannerTypeOK
  <2>4. CASE ListOpenForMarket(w)
    <3>1. \A p \in Positions : IsOpen(book[p]) => book[p].size \in 0..MaxShares
      BY DEF IsOpen, Rows
    <3> QED BY <2>4, <3>1 DEF ListOpenForMarket
  <2>5. CASE WritePosition(w)
    <3>1. book' \in [Positions -> Rows \cup {None}]
      <4> DEFINE p == current[w].position
      <4>1. /\ book' = [book EXCEPT ![p] = Closing(current[w].row, Payoff(p), ClosedSize(w, p))]
            /\ Closing(current[w].row, Payoff(p), ClosedSize(w, p)) \in Rows
        BY <2>5, CloseWritesSound
      <4> QED BY <4>1
    <3> QED BY <2>5, <3>1 DEF WritePosition
  <2>6. CASE RecordSettlementEvent(w)
    <3>1. current[w].position \in Positions
      BY <2>6 DEF RecordSettlementEvent, PaidInv, CopyIsSound
    <3> QED BY <2>6, <2>2, <3>1 DEF RecordSettlementEvent
  <2>7. CASE SweepDone(w) \/ SweepFails(w)
    <3>1. SweepEnds(w)
      BY <2>7 DEF SweepDone, SweepFails
    <3>2. [p \in Positions |-> 0] \in [Positions -> 0..MaxShares]
      OBVIOUS
    <3>3. [position |-> None, row |-> NoRow] \in [position : Positions \cup {None}, row : Rows]
      BY <2>2
    <3>4. sweep' \in [Workers -> SweepPc] /\ todo' \in [Workers -> SUBSET Markets]
      BY <3>1 DEF SweepEnds
    <3>5. open' \in [Workers -> [Positions -> 0..MaxShares]]
      BY <3>1, <3>2 DEF SweepEnds
    <3>6. current' \in [Workers -> [position : Positions \cup {None}, row : Rows]]
      BY <3>1, <3>3 DEF SweepEnds
    <3>7. market' \in [Workers -> Markets \cup {None}]
      BY <3>1 DEF SweepEnds
    <3> QED BY <3>1, <3>4, <3>5, <3>6, <3>7 DEF SweepEnds
  <2>8. ASSUME NEW m \in Markets, StillUnresolved(w, m) \/ Resolved(w, m) PROVE SettlementTypeOK'
    <3>1. todo' = [todo EXCEPT ![w] = todo[w] \ {m}] /\ todo[w] \ {m} \in SUBSET Markets
      BY <2>8 DEF StillUnresolved, Resolved
    <3>2. todo' \in [Workers -> SUBSET Markets]
      BY <3>1
    <3>3. CASE StillUnresolved(w, m) BY <3>2, <3>3 DEF StillUnresolved
    <3>4. CASE Resolved(w, m)        BY <3>2, <3>4 DEF Resolved
    <3> QED BY <2>8, <3>3, <3>4
  <2>9. ASSUME NEW p \in Positions, ReadPosition(w, p) PROVE SettlementTypeOK'
    <3>1. book[p] \in Rows
      BY <2>9 DEF ReadPosition, PaidInv, ListIsOfMarket
    <3>2. [position |-> p, row |-> book[p]] \in [position : Positions \cup {None}, row : Rows]
      BY <3>1
    <3> QED BY <2>9, <3>2 DEF ReadPosition
  <2>10. CASE MarkResolved(w)
    BY <2>10 DEF MarkResolved, AllClosed, PaidInv, MarketIsDecided
  <2> QED BY <2>3, <2>4, <2>5, <2>6, <2>7, <2>8, <2>9, <2>10 DEF Settles
<1>2. CASE MarkResolved(w)
  <2>1. market[w] \in Markets
    BY <1>2 DEF MarkResolved, AllClosed, PaidInv, MarketIsDecided, SettlementTypeOK
  <2>2. [active |-> FALSE, closed |-> TRUE, resolved |-> TRUE] \in Flags
    BY DEF Flags
  <2>3. ScannerTypeOK'
    BY <1>0, <1>2, <2>2 DEF MarkResolved, ScannerTypeOK, worldVars, scannerVars
  <2> QED BY <1>2, <2>1, <2>3 DEF MarkResolved, Go, SettlementTypeOK, SweepPc, bookVars
<1>3. MarkResolved(w) \/ UNCHANGED rows
  BY DEF Settles, ListExpiredUnresolved, ListOpenForMarket, WritePosition, RecordSettlementEvent, SweepDone,
         SweepFails, SweepEnds, StillUnresolved, Resolved, ReadPosition
<1> QED BY <1>1, <1>2, <1>3

-----------------------------------------------------------------------------
(***************************************************************************)
(* PaidInv.                                                                *)
(***************************************************************************)
WinnersAreFinal == \A m \in Markets : winner[m] # None => winner'[m] = winner[m]

(* A row that stays sound, while shares are bought and winners appear.      *)
LEMMA SoundStays ==
    ASSUME SettlementTypeOK, SettlementTypeOK', WinnersAreFinal,
           NEW p \in Positions, bought[p] <= bought'[p],
           NEW row \in Rows, Sound(p, row)
    PROVE  RowSound(row, bought'[p], Payoff(p)', winner'[MarketOf[p]] # None)
<1>1. RowSound(row, bought[p], Payoff(p), winner[MarketOf[p]] # None)
  BY SoundForm
<1>2. /\ bought[p] \in Nat /\ bought'[p] \in Nat
      /\ Payoff(p) \in Int /\ Payoff(p)' \in Int
  BY DEF SettlementTypeOK, Payoff
<1>3. winner[MarketOf[p]] # None => winner'[MarketOf[p]] # None /\ Payoff(p)' = Payoff(p)
  BY DEF WinnersAreFinal, Payoff
<1> DEFINE known  == winner[MarketOf[p]] # None
           known2 == winner'[MarketOf[p]] # None
<1>4. known \in BOOLEAN /\ known2 \in BOOLEAN /\ (known => known2 /\ Payoff(p)' = Payoff(p))
  BY <1>3
<1>5. RowSound(row, bought[p], Payoff(p), known)
  BY <1>1
<1> HIDE DEF known, known2
<1>6. RowSound(row, bought'[p], Payoff(p)', known2)
  BY <1>2, <1>4, <1>5, SoundKeeps
<1> QED BY <1>6 DEF known2

(* Rows and copies that a step does not touch stay sound.                   *)
LEMMA RowsStay ==
    ASSUME SettlementTypeOK, SettlementTypeOK', PaidInv, WinnersAreFinal,
           NEW p \in Positions, bought[p] <= bought'[p]
    PROVE  /\ book[p] # None /\ book'[p] = book[p] => Sound(p, book[p])'
           /\ folding[p] # None /\ folding'[p] = folding[p] => Sound(p, folding[p])'
<1>1. ASSUME book[p] # None, book'[p] = book[p] PROVE Sound(p, book[p])'
  <2>1. book[p] \in Rows /\ Sound(p, book[p])
    BY <1>1 DEF SettlementTypeOK, PaidInv, RowsAreSound
  <2> QED BY <1>1, <2>1, SoundStays DEF Sound, PaidFor, RowSound
<1>2. ASSUME folding[p] # None, folding'[p] = folding[p] PROVE Sound(p, folding[p])'
  <2>1. folding[p] \in Rows /\ Sound(p, folding[p])
    BY <1>2 DEF SettlementTypeOK, PaidInv, RowsAreSound
  <2> QED BY <1>2, <2>1, SoundStays DEF Sound, PaidFor, RowSound
<1> QED BY <1>1, <1>2

LEMMA CopyStays ==
    ASSUME SettlementTypeOK, SettlementTypeOK', PaidInv, WinnersAreFinal,
           \A p \in Positions : bought[p] <= bought'[p],
           NEW w \in Workers, sweep[w] \in {"write", "record"}, current'[w] = current[w]
    PROVE  Sound(current[w].position, current[w].row)'
<1> DEFINE p == current[w].position
<1>1. p \in Positions /\ current[w].row \in Rows /\ Sound(p, current[w].row)
  BY DEF SettlementTypeOK, PaidInv, CopyIsSound
<1> QED BY <1>1, SoundStays DEF Sound, PaidFor, RowSound

(* Steps of the world, of the scanner and of fills.                         *)
LEMMA OutsideKeepsPaid ==
    ASSUME SettlementTypeOK, SettlementTypeOK', PaidInv, WinnersAreFinal, UNCHANGED workerVars,
           \A p \in Positions : book[p] # None => book'[p] # None,
           \A p \in Positions : bought[p] <= bought'[p],
           RowsAreSound'
    PROVE  PaidInv'
<1> USE DEF PaidInv, workerVars
<1>1. MarketIsDecided'
  <2>1. ASSUME NEW w \in Workers, sweep[w] \in {"list", "close", "write", "record"}
        PROVE  market[w] # None /\ winner'[market[w]] # None
    <3>1. market[w] \in Markets /\ winner[market[w]] # None
      BY <2>1 DEF MarketIsDecided, SettlementTypeOK
    <3> QED BY <3>1 DEF WinnersAreFinal
  <2> QED BY <2>1 DEF MarketIsDecided
<1>2. ListIsOfMarket'
  BY DEF ListIsOfMarket
<1>3. CopyIsSound'
  BY CopyStays DEF CopyIsSound
<1> QED BY <1>1, <1>2, <1>3

LEMMA FillKeepsPaid ==
    ASSUME SettlementTypeOK, SettlementTypeOK', PaidInv, NEW p \in Positions, Fill(p)
    PROVE  PaidInv'
<1>1. UNCHANGED workerVars /\ WinnersAreFinal /\ UNCHANGED winner
  BY DEF Fill, WinnersAreFinal, worldVars
<1>2. CASE FillRead(p)
  <2>1. UNCHANGED <<book, bought>> /\ bought[p] < MaxShares
    BY <1>2 DEF FillRead
  <2>2. \A q \in Positions : bought[q] <= bought'[q]
    BY <2>1 DEF SettlementTypeOK
  <2>3. Sound(p, folding[p])'
    <3>1. CASE book[p] = None
      <4>1. folding'[p] = NoRow
        BY <1>2, <3>1 DEF FillRead, SettlementTypeOK
      <4>2. RowSound(NoRow, bought'[p], Payoff(p)', winner'[MarketOf[p]] # None)
        <5>1. bought'[p] \in Nat /\ Payoff(p)' \in Int
          BY DEF SettlementTypeOK, Payoff
        <5> DEFINE known == winner'[MarketOf[p]] # None
        <5>2. known \in BOOLEAN
          OBVIOUS
        <5> HIDE DEF known
        <5>3. RowSound(NoRow, bought'[p], Payoff(p)', known)
          BY <5>1, <5>2, NoRowSound
        <5> QED BY <5>3 DEF known
      <4> QED BY <4>1, <4>2 DEF Sound, PaidFor, RowSound
    <3>2. CASE book[p] # None
      <4>1. folding'[p] = book[p] /\ book'[p] = book[p]
        BY <1>2, <3>2 DEF FillRead, SettlementTypeOK
      <4>2. Sound(p, book[p])'
        BY <3>2, <4>1, <1>1, <2>2, RowsStay
      <4> QED BY <4>1, <4>2 DEF Sound, PaidFor
    <3> QED BY <3>1, <3>2
  <2>4. ASSUME NEW q \in Positions
        PROVE  /\ book'[q] # None => Sound(q, book[q])'
               /\ folding'[q] # None => bought'[q] < MaxShares /\ Sound(q, folding[q])'
    <3>1. book'[q] # None => Sound(q, book[q])'
      BY <1>1, <2>1, <2>2, RowsStay
    <3>2. CASE q = p
      BY <2>1, <2>3, <3>1, <3>2
    <3>3. CASE q # p
      <4>1. folding'[q] = folding[q]
        BY <1>2, <3>3 DEF FillRead, SettlementTypeOK
      <4>2. folding[q] # None => bought[q] < MaxShares /\ Sound(q, folding[q])'
        BY <1>1, <2>2, <4>1, RowsStay DEF PaidInv, RowsAreSound
      <4> QED BY <2>1, <3>1, <4>1, <4>2
    <3> QED BY <3>2, <3>3
  <2> QED BY <1>1, <2>1, <2>2, <2>4, OutsideKeepsPaid DEF RowsAreSound
<1>3. CASE FillWrite(p)
  <2>1. /\ book' = [book EXCEPT ![p] = Opening(folding[p], Price, 1)]
        /\ bought' = [bought EXCEPT ![p] = bought[p] + 1]
        /\ folding' = [folding EXCEPT ![p] = None]
    BY <1>3 DEF FillWrite
  <2>2. \A q \in Positions : bought[q] <= bought'[q]
    BY <2>1 DEF SettlementTypeOK
  <2>3. /\ book'[p] = Opening(folding[p], Price, 1) /\ book'[p] \in Rows
        /\ bought'[p] = bought[p] + 1
    <3>1. book \in [Positions -> Rows \cup {None}] /\ bought \in [Positions -> 0..MaxShares]
      BY DEF SettlementTypeOK
    <3>2. Opening(folding[p], Price, 1) \in Rows
      BY <1>3, FillWritesSound
    <3> QED BY <2>1, <3>1, <3>2
  <2>4. Sound(p, book[p])'
    <3>1. Payoff(p)' = Payoff(p)
      BY <1>1 DEF Payoff
    <3>2. RowSound(book'[p], bought'[p], Payoff(p)', winner'[MarketOf[p]] # None)
      BY <1>1, <1>3, <2>3, <3>1, FillWritesSound
    <3> QED BY <3>2 DEF Sound, PaidFor, RowSound
  <2>5. ASSUME NEW q \in Positions
        PROVE  /\ book'[q] # None => Sound(q, book[q])'
               /\ folding'[q] # None => bought'[q] < MaxShares /\ Sound(q, folding[q])'
    <3>1. CASE q = p
      <4>1. folding'[q] = None
        BY <2>1, <3>1 DEF SettlementTypeOK
      <4> QED BY <2>4, <3>1, <4>1
    <3>2. CASE q # p
      <4>1. book'[q] = book[q] /\ folding'[q] = folding[q] /\ bought'[q] = bought[q]
        BY <2>1, <3>2 DEF SettlementTypeOK
      <4> QED BY <1>1, <2>2, <4>1, RowsStay DEF PaidInv, RowsAreSound
    <3> QED BY <3>1, <3>2
  <2>6. \A q \in Positions : book[q] # None => book'[q] # None
    BY <2>1, <2>3 DEF SettlementTypeOK
  <2> QED BY <1>1, <2>2, <2>5, <2>6, OutsideKeepsPaid DEF RowsAreSound
<1> QED BY <1>2, <1>3 DEF Fill

(* Steps of a worker: what they leave alone.                                *)
LEMMA WorkerFrame ==
    ASSUME SettlementTypeOK, PaidInv, NEW w \in Workers, Settles(w) \/ SweepFails(w),
           UNCHANGED <<worldVars, scannerVars>>
    PROVE  /\ UNCHANGED <<winner, expired, folding, bought>> /\ WinnersAreFinal
           /\ \A p \in Positions : bought[p] <= bought'[p]
           /\ \A v \in Workers \ {w} : /\ sweep'[v] = sweep[v] /\ market'[v] = market[v]
                                       /\ open'[v] = open[v] /\ current'[v] = current[v]
           /\ UNCHANGED book \/ WritePosition(w)
<1>1. UNCHANGED <<folding, bought>> /\ (UNCHANGED book \/ WritePosition(w))
  BY DEF Settles, SweepFails, ListExpiredUnresolved, ListOpenForMarket, WritePosition, RecordSettlementEvent,
         MarkResolved, SweepDone, SweepEnds, StillUnresolved, Resolved, ReadPosition, bookVars
<1>2. \A p \in Positions : bought[p] <= bought'[p]
  BY <1>1 DEF SettlementTypeOK
<1>3. \A v \in Workers \ {w} : /\ sweep'[v] = sweep[v] /\ market'[v] = market[v]
                               /\ open'[v] = open[v] /\ current'[v] = current[v]
  BY DEF SettlementTypeOK, Settles, SweepFails, ListExpiredUnresolved, ListOpenForMarket, WritePosition,
         RecordSettlementEvent, MarkResolved, SweepDone, SweepEnds, StillUnresolved, Resolved, ReadPosition,
         Go
<1> QED BY <1>1, <1>2, <1>3 DEF worldVars, WinnersAreFinal

LEMMA SettlesKeepsRows ==
    ASSUME SettlementTypeOK, SettlementTypeOK', PaidInv, NEW w \in Workers, Settles(w) \/ SweepFails(w),
           UNCHANGED <<worldVars, scannerVars>>
    PROVE  RowsAreSound' /\ \A p \in Positions : book[p] # None => book'[p] # None
<1>1. /\ UNCHANGED <<winner, expired, folding, bought>> /\ WinnersAreFinal
      /\ \A p \in Positions : bought[p] <= bought'[p]
      /\ UNCHANGED book \/ WritePosition(w)
  BY WorkerFrame
<1>2. ASSUME NEW p \in Positions, folding[p] # None PROVE bought'[p] < MaxShares /\ Sound(p, folding[p])'
  BY <1>1, <1>2, RowsStay DEF PaidInv, RowsAreSound
<1>3. CASE UNCHANGED book
  BY <1>1, <1>2, <1>3, RowsStay DEF RowsAreSound
<1>4. CASE WritePosition(w)
  <2> DEFINE q   == current[w].position
             new == Closing(current[w].row, Payoff(q), ClosedSize(w, q))
  <2>1. /\ q \in Positions /\ winner[MarketOf[q]] # None
        /\ book' = [book EXCEPT ![q] = new]
        /\ new \in Rows
        /\ RowSound(new, bought[q], Payoff(q), TRUE)
    BY <1>4, CloseWritesSound
  <2> HIDE DEF q, new
  <2>2. book'[q] = new /\ \A p \in Positions \ {q} : book'[p] = book[p]
    BY <2>1 DEF SettlementTypeOK
  <2>3. Sound(q, book[q])'
    <3>0. q' = q
      BY <1>4 DEF WritePosition, q
    <3>1. Payoff(q)' = Payoff(q)
      BY <1>1, <3>0 DEF Payoff
    <3>2. winner'[MarketOf[q]] # None
      BY <1>1, <2>1
    <3>3. RowSound(book'[q], bought'[q], Payoff(q)', TRUE)
      BY <1>1, <2>1, <2>2, <3>1
    <3> QED BY <3>0, <3>2, <3>3 DEF Sound, PaidFor, RowSound, Paid
  <2>4. ASSUME NEW p \in Positions, book'[p] # None PROVE Sound(p, book[p])'
    <3>1. CASE p = q
      <4>1. q' = q
        BY <1>4 DEF WritePosition, q
      <4> QED BY <2>3, <3>1, <4>1 DEF Sound, PaidFor, Payoff
    <3>2. CASE p # q BY <1>1, <2>2, <2>4, <3>2, RowsStay
    <3> QED BY <3>1, <3>2
  <2> QED BY <1>1, <1>2, <2>1, <2>2, <2>4 DEF RowsAreSound
<1> QED BY <1>1, <1>3, <1>4

LEMMA SettlesKeepsPaid ==
    ASSUME SettlementTypeOK, SettlementTypeOK', ListingsAreGenuine, PaidInv,
           NEW w \in Workers, Settles(w) \/ SweepFails(w), UNCHANGED <<worldVars, scannerVars>>
    PROVE  PaidInv'
<1>1. /\ UNCHANGED <<winner, expired, folding, bought>> /\ WinnersAreFinal
      /\ \A p \in Positions : bought[p] <= bought'[p]
      /\ \A v \in Workers \ {w} : /\ sweep'[v] = sweep[v] /\ market'[v] = market[v]
                                  /\ open'[v] = open[v] /\ current'[v] = current[v]
  BY WorkerFrame
<1>2. RowsAreSound' /\ \A p \in Positions : book[p] # None => book'[p] # None
  BY SettlesKeepsRows
<1>3. MarketIsDecided'
  <2>1. ASSUME NEW v \in Workers \ {w}, sweep'[v] \in {"list", "close", "write", "record"}
        PROVE  market'[v] # None /\ winner'[market'[v]] # None
    BY <1>1, <2>1 DEF PaidInv, MarketIsDecided
  <2>2. ASSUME sweep'[w] \in {"list", "close", "write", "record"}
        PROVE  market'[w] # None /\ winner'[market'[w]] # None
    <3>1. ASSUME NEW m \in Markets, Resolved(w, m) PROVE market'[w] # None /\ winner'[market'[w]] # None
      <4>1. market'[w] = m /\ winner[m] # None
        BY <3>1 DEF Resolved, HasResolved, ListingsAreGenuine, Genuine, SettlementTypeOK
      <4> QED BY <1>1, <4>1
    <3>2. CASE \A m \in Markets : ~Resolved(w, m)
      <4>1. sweep[w] \in {"list", "close", "write", "record"} /\ market'[w] = market[w]
        BY <2>2, <3>2 DEF SettlementTypeOK, Settles, SweepFails, ListExpiredUnresolved, ListOpenForMarket,
           WritePosition, RecordSettlementEvent, MarkResolved, SweepDone, SweepEnds, StillUnresolved,
           ReadPosition, Go
      <4> QED BY <1>1, <4>1 DEF PaidInv, MarketIsDecided
    <3> QED BY <3>1, <3>2
  <2> QED BY <2>1, <2>2 DEF MarketIsDecided
<1>4. ListIsOfMarket'
  <2>1. ASSUME NEW v \in Workers \ {w}, NEW p \in Positions, open'[v][p] > 0
        PROVE  /\ sweep'[v] \in {"close", "write", "record"}
               /\ MarketOf[p] = market'[v] /\ book'[p] # None
    BY <1>1, <1>2, <2>1 DEF PaidInv, ListIsOfMarket
  <2>2. ASSUME NEW p \in Positions, open'[w][p] > 0
        PROVE  /\ sweep'[w] \in {"close", "write", "record"}
               /\ MarketOf[p] = market'[w] /\ book'[p] # None
    <3> USE <1>1, <1>2, <2>2 DEF SettlementTypeOK, PaidInv, ListIsOfMarket, Go
    <3>1. CASE ListOpenForMarket(w)
      BY <3>1 DEF ListOpenForMarket, IsOpen
    <3>2. CASE ListExpiredUnresolved(w) \/ \E m \in Markets : StillUnresolved(w, m) \/ Resolved(w, m)
      BY <3>2 DEF ListExpiredUnresolved, StillUnresolved, Resolved
    <3>3. CASE WritePosition(w) \/ \E q \in Positions : ReadPosition(w, q)
      BY <3>3 DEF WritePosition, ReadPosition
    <3>4. CASE RecordSettlementEvent(w)
      <4>1. current[w].position \in Positions
        BY <3>4 DEF RecordSettlementEvent, CopyIsSound
      <4>2. open[w][p] > 0
        BY <3>4, <4>1 DEF RecordSettlementEvent
      <4> QED BY <3>4, <4>2 DEF RecordSettlementEvent
    <3>5. CASE MarkResolved(w)
      BY <3>5 DEF MarkResolved, AllClosed
    <3>6. CASE SweepDone(w) \/ SweepFails(w)
      BY <3>6 DEF SweepDone, SweepFails, SweepEnds
    <3> QED BY <3>1, <3>2, <3>3, <3>4, <3>5, <3>6 DEF Settles
  <2> QED BY <2>1, <2>2 DEF ListIsOfMarket
<1>5. CopyIsSound'
  <2>1. ASSUME NEW v \in Workers \ {w}, sweep'[v] \in {"write", "record"}
        PROVE  LET p == current[v].position IN
                 (p # None /\ MarketOf[p] = market[v] /\ Sound(p, current[v].row))'
    BY <1>1, <2>1, CopyStays DEF PaidInv, CopyIsSound
  <2>2. ASSUME sweep'[w] \in {"write", "record"}
        PROVE  LET p == current[w].position IN
                 (p # None /\ MarketOf[p] = market[w] /\ Sound(p, current[w].row))'
    <3>1. ASSUME NEW q \in Positions, ReadPosition(w, q)
          PROVE  LET p == current[w].position IN
                   (p # None /\ MarketOf[p] = market[w] /\ Sound(p, current[w].row))'
      <4>1. /\ current'[w].position = q /\ current'[w].row = book[q]
            /\ UNCHANGED <<book, market>> /\ open[w][q] > 0
        BY <3>1 DEF ReadPosition, SettlementTypeOK, bookVars
      <4>2. MarketOf[q] = market[w] /\ book[q] # None
        BY <4>1 DEF PaidInv, ListIsOfMarket
      <4>3. Sound(q, book[q])'
        BY <1>2, <4>1, <4>2 DEF RowsAreSound
      <4> QED BY <4>1, <4>2, <4>3 DEF Sound, PaidFor, Payoff
    <3>2. CASE \A q \in Positions : ~ReadPosition(w, q)
      <4>1. sweep[w] \in {"write", "record"} /\ market'[w] = market[w] /\ current'[w] = current[w]
        BY <2>2, <3>2 DEF SettlementTypeOK, Settles, SweepFails, ListExpiredUnresolved, ListOpenForMarket,
           WritePosition, RecordSettlementEvent, MarkResolved, SweepDone, SweepEnds, StillUnresolved,
           Resolved, Go
      <4> QED BY <1>1, <4>1, CopyStays DEF PaidInv, CopyIsSound
    <3> QED BY <3>1, <3>2
  <2> QED BY <2>1, <2>2 DEF CopyIsSound
<1> QED BY <1>2, <1>3, <1>4, <1>5 DEF PaidInv

-----------------------------------------------------------------------------
(***************************************************************************)
(* The theorems.                                                           *)
(***************************************************************************)
LEMMA InitInv == ASSUME Init PROVE SettlementInv
<1> USE DEF Init, ScannerInit, Nothing
<1>1. SettlementTypeOK
  <2>1. NoRow \in Rows
    BY DEF NoRow, Rows
  <2>2. ScannerTypeOK
    BY DEF ScannerTypeOK, ScanPc
  <2>3. Idle \in [position : Positions \cup {None}, row : Rows]
    BY <2>1 DEF Idle
  <2>4. [p \in Positions |-> 0] \in [Positions -> 0..MaxShares]
    OBVIOUS
  <2>5. open \in [Workers -> [Positions -> 0..MaxShares]]
    BY <2>4
  <2>6. current \in [Workers -> [position : Positions \cup {None}, row : Rows]]
    BY <2>3
  <2> QED BY <2>2, <2>4, <2>5, <2>6 DEF SettlementTypeOK, SweepPc
<1>2. ScanInv
  BY DEF ScanInv, FlagsAreGenuine, DiscoveredOnce, ListingsAreGenuine, Genuine, ItemIsListed,
         EventsFollowRows, Discovered
<1>3. PaidInv
  BY DEF PaidInv, RowsAreSound, MarketIsDecided, ListIsOfMarket, CopyIsSound
<1> QED BY <1>1, <1>2, <1>3 DEF SettlementInv

(* MarkResolved writes a row that the scanner could have written.           *)
LEMMA WorkerScanInv ==
    ASSUME SettlementInv, NEW w \in Workers, Settles(w) \/ SweepFails(w),
           UNCHANGED <<worldVars, scannerVars>>
    PROVE  ScanInv'
<1> USE DEF SettlementInv, ScanInv, worldVars, scannerVars
<1>1. /\ FlagsAreGenuine'
      /\ \A m \in Markets : rows[m] # None => rows'[m] # None
  <2>1. CASE MarkResolved(w)
    <3> DEFINE flags == [active |-> FALSE, closed |-> TRUE, resolved |-> TRUE]
    <3>1. market[w] \in Markets /\ winner[market[w]] # None
      BY <2>1 DEF MarkResolved, AllClosed, PaidInv, MarketIsDecided, SettlementTypeOK
    <3>2. market[w] \in expired
      BY <3>1 DEF ListingsAreGenuine
    <3>3. flags \in Flags /\ flags.resolved /\ flags.closed
      BY DEF Flags
    <3>4. rows' = [rows EXCEPT ![market[w]] = flags]
      BY <2>1 DEF MarkResolved
    <3> HIDE DEF flags
    <3> QED BY <3>1, <3>2, <3>3, <3>4 DEF FlagsAreGenuine, SettlementTypeOK, ScannerTypeOK
  <2>2. CASE UNCHANGED rows
    BY <2>2 DEF FlagsAreGenuine
  <2>3. MarkResolved(w) \/ UNCHANGED rows
    BY DEF Settles, SweepFails, ListExpiredUnresolved, ListOpenForMarket, WritePosition,
           RecordSettlementEvent, SweepDone, SweepEnds, StillUnresolved, Resolved, ReadPosition
  <2> QED BY <2>1, <2>2, <2>3
<1>2. DiscoveredOnce' /\ ListingsAreGenuine'
  BY DEF DiscoveredOnce, ListingsAreGenuine, Genuine
<1>3. ItemIsListed'
  <2>1. pending \subseteq Markets
    BY DEF SettlementTypeOK, ScannerTypeOK
  <2>2. \A m \in Markets : believed'[m] # None => rows'[m] # None
    BY <1>1 DEF ItemIsListed
  <2>3. scan' \in {"missing", "vanished"} => \A m \in pending' : m \in expired' /\ rows'[m] # None
    BY <1>1, <2>1 DEF ItemIsListed
  <2> QED BY <2>2, <2>3 DEF ItemIsListed
<1>4. EventsFollowRows'
  BY <1>1 DEF EventsFollowRows, Discovered, ItemIsListed
<1> QED BY <1>1, <1>2, <1>3, <1>4

LEMMA StepInv == ASSUME SettlementInv, [Next]_vars PROVE SettlementInv'
<1> USE DEF SettlementInv
<1>0. ScannerTypeOK
  BY DEF SettlementTypeOK
<1>1. ASSUME ScannerTypeOK', ScanInv', WinnersAreFinal,
             UNCHANGED <<workerVars, bookVars, closed, settled, unrecorded>>
      PROVE  SettlementInv'
  <2>1. SettlementTypeOK'
    BY <1>1 DEF SettlementTypeOK, workerVars, bookVars
  <2>2. \A p \in Positions : bought[p] <= bought'[p]
    BY <1>1 DEF SettlementTypeOK, bookVars
  <2>3. RowsAreSound'
    BY <1>1, <2>1, <2>2, RowsStay DEF RowsAreSound, PaidInv, bookVars
  <2> QED BY <1>1, <2>1, <2>2, <2>3, OutsideKeepsPaid DEF bookVars
<1>2. ASSUME NEW m \in Markets, WorldStep(m), UNCHANGED <<workerVars, bookVars, closed, settled, unrecorded>>
      PROVE  SettlementInv'
  BY <1>0, <1>1, <1>2, WorldTypeOK, WorldScanInv DEF WinnersAreFinal
<1>3. CASE Scanning
  <2>1. ScanStep \/ ScanFails
    BY <1>3 DEF Scanning
  <2>2. UNCHANGED winner
    BY <2>1 DEF ScanStep, ScanFails, ScanDone, ScanEnds, FetchAllPages, ListActive, FindPrior, Upsert,
         PublishItem, ItemsDone, Vanish, PublishVanished, worldVars
  <2>3. ScannerTypeOK' /\ ScanInv'
    BY <1>0, <2>1, ScanTypeOK, ScanKeepsInv DEF ScanInv
  <2> QED BY <1>1, <1>3, <2>2, <2>3 DEF Scanning, WinnersAreFinal
<1>4. ASSUME NEW p \in Positions, Fill(p) PROVE SettlementInv'
  <2>1. SettlementTypeOK' /\ PaidInv'
    BY <1>4, FillTypeOK, FillKeepsPaid
  <2>2. ScanInv'
    BY <1>4 DEF Fill, ScanInv, worldVars, scannerVars, FlagsAreGenuine, DiscoveredOnce, ListingsAreGenuine,
         Genuine, ItemIsListed, EventsFollowRows, Discovered
  <2> QED BY <2>1, <2>2
<1>5. ASSUME NEW w \in Workers, WorkerStep(w) PROVE SettlementInv'
  <2>1. /\ Settles(w) \/ SweepFails(w)
        /\ UNCHANGED <<worldVars, scannerVars>>
    BY <1>5 DEF WorkerStep
  <2> unrecorded' \subseteq Positions
    <3>1. sweep[w] = "record" => current[w].position \in Positions
      BY DEF SettlementInv, SettlementTypeOK, PaidInv, CopyIsSound
    <3> QED BY <1>5, <3>1 DEF WorkerStep, SettlementTypeOK, SettlementInv
  <2>2. SettlementTypeOK'
    BY <2>1, SettlesTypeOK
  <2>3. PaidInv'
    BY <2>1, <2>2, SettlesKeepsPaid DEF ScanInv
  <2> QED BY <2>1, <2>2, <2>3, WorkerScanInv
<1>6. CASE UNCHANGED vars
  <2>1. ScannerTypeOK' /\ ScanInv'
    BY <1>0, <1>6 DEF vars, ScannerTypeOK, ScanInv, worldVars, scannerVars, FlagsAreGenuine, DiscoveredOnce,
         ListingsAreGenuine, Genuine, ItemIsListed, EventsFollowRows, Discovered
  <2> QED BY <1>1, <1>6, <2>1 DEF vars, worldVars, WinnersAreFinal
<1> QED BY <1>2, <1>3, <1>4, <1>5, <1>6 DEF Next

(* SettlementInv is an invariant: rows, listings and events of the scanner, *)
(* and every copy of a position, stay as the sweep's arithmetic needs them. *)
THEOREM SettlementInvariant == Spec => []SettlementInv
<1>1. Init => SettlementInv
  BY InitInv
<1>2. SettlementInv /\ [Next]_vars => SettlementInv'
  BY StepInv
<1> QED BY <1>1, <1>2, PTL DEF Spec

(* SettlementTypeOK: every row, every copy of one and every list of a sweep *)
(* is one of the schema, of a size from zero to MaxShares.                  *)
THEOREM SettlementTypeCorrect == Spec => []SettlementTypeOK
<1>1. SettlementInv => SettlementTypeOK
  BY DEF SettlementInv
<1> QED BY <1>1, SettlementInvariant, PTL

(* NothingPaidTwice: no number of workers, failures, restarts and racing    *)
(* fills makes closePosition pay a share twice or before it is decided.     *)
THEOREM NothingPaidTwiceHolds == Spec => []NothingPaidTwice
<1>1. SettlementInv => NothingPaidTwice
  BY DEF SettlementInv, PaidInv, RowsAreSound, Sound, NothingPaidTwice
<1> QED BY <1>1, SettlementInvariant, PTL

(* FlagsAreGenuine: whoever writes the flags of a row, scanner or sweep.    *)
THEOREM FlagsAreGenuineHolds == Spec => []FlagsAreGenuine
<1>1. SettlementInv => FlagsAreGenuine
  BY DEF SettlementInv, ScanInv
<1> QED BY <1>1, SettlementInvariant, PTL

(* DiscoveredOnce: scanOnce announces a market at most once, ever.          *)
THEOREM DiscoveredOnceHolds == Spec => []DiscoveredOnce
<1>1. SettlementInv => DiscoveredOnce
  BY DEF SettlementInv, ScanInv
<1> QED BY <1>1, SettlementInvariant, PTL

-----------------------------------------------------------------------------
(***************************************************************************)
(* SettledExactly.  Why: as long as no fill has come after the end of its  *)
(* market, a row has either all the shares bought and nothing realized, or *)
(* none of them and the whole outcome; a sweep lists all of them or none.  *)
(***************************************************************************)
Full(p, row) == row.size = bought[p] /\ row.pnl = 0

Done(p, row) ==
    row.size = 0 /\ row.pnl = bought[p] * (Payoff(p) - Price) /\ winner[MarketOf[p]] # None

OnRecord(p) ==
    p \in closed \cup unrecorded \/ \E w \in Workers : sweep[w] = "record" /\ current[w].position = p

BookExact(p) ==
    IF bought[p] = 0 THEN book[p] = None
    ELSE book[p] # None /\ (Full(p, book[p]) \/ (Done(p, book[p]) /\ OnRecord(p)))

FoldExact(p) == MarketOf[p] \notin expired /\ folding[p] # None => Full(p, folding[p])

CopyExact(p, w) ==
    current[w].position = p =>
        /\ sweep[w] = "write" => Full(p, current[w].row) \/ Done(p, current[w].row)
        /\ sweep[w] = "record" => Done(p, book[p])

ListExact(p, w) ==
    sweep[w] \in {"close", "write", "record"} /\ market[w] = MarketOf[p] /\ bought[p] > 0 =>
        IF open[w][p] = 0 THEN Done(p, book[p]) ELSE open[w][p] = bought[p]

MarkExact(p) ==
    MarketOf[p] \in settled =>
        winner[MarketOf[p]] # None /\ (bought[p] > 0 => Done(p, book[p]))

Exact(p) ==
    /\ BookExact(p) /\ FoldExact(p) /\ MarkExact(p)
    /\ \A w \in Workers : CopyExact(p, w) /\ ListExact(p, w)

ExactInv == \A p \in Positions : MarketOf[p] \notin late => Exact(p)

LEMMA ExactOutside ==
    ASSUME SettlementInv, ExactInv, WinnersAreFinal, expired \subseteq expired',
           UNCHANGED <<workerVars, bookVars, closed, settled, unrecorded>>
    PROVE  ExactInv'
<1> SUFFICES ASSUME NEW p \in Positions, MarketOf[p] \notin late PROVE Exact(p)'
  BY DEF ExactInv, bookVars
<1>1. Exact(p) /\ MarketOf[p] \in Markets
  BY DEF ExactInv
<1> USE DEF workerVars, bookVars
<1>2. \A row : (Full(p, row) <=> Full(p, row)') /\ (Done(p, row) => Done(p, row)')
  BY <1>1 DEF Full, Done, Payoff, WinnersAreFinal
<1>3. BookExact(p)' /\ FoldExact(p)'
  BY <1>1, <1>2 DEF Exact, BookExact, FoldExact, OnRecord
<1>4. MarkExact(p)'
  BY <1>1, <1>2 DEF Exact, MarkExact, WinnersAreFinal
<1>5. ASSUME NEW w \in Workers PROVE CopyExact(p, w)' /\ ListExact(p, w)'
  BY <1>1, <1>2 DEF Exact, CopyExact, ListExact
<1> QED BY <1>3, <1>4, <1>5 DEF Exact

(* A market that is settled, or that a sweep is at, has expired.            *)
LEMMA DecidedExpired ==
    ASSUME SettlementInv, NEW p \in Positions, MarketOf[p] \notin expired
    PROVE  /\ winner[MarketOf[p]] = None /\ \A row : ~Done(p, row)
           /\ \A w \in Workers :
                 /\ sweep[w] \in {"close", "write", "record"} => market[w] # MarketOf[p]
                 /\ sweep[w] \in {"write", "record"} => current[w].position # p
<1>1. MarketOf[p] \in Markets
  OBVIOUS
<1>2. winner[MarketOf[p]] = None
  BY <1>1 DEF SettlementInv, ScanInv, ListingsAreGenuine
<1>3. \A w \in Workers : sweep[w] \in {"close", "write", "record"} => market[w] # MarketOf[p]
  BY <1>2 DEF SettlementInv, PaidInv, MarketIsDecided
<1>4. \A w \in Workers : sweep[w] \in {"write", "record"} => current[w].position # p
  BY <1>3 DEF SettlementInv, PaidInv, CopyIsSound
<1> QED BY <1>2, <1>3, <1>4 DEF Done

LEMMA ExactFill ==
    ASSUME SettlementInv, ExactInv, NEW q \in Positions, Fill(q)
    PROVE  ExactInv'
<1>0. UNCHANGED <<worldVars, workerVars, closed, settled, unrecorded>> /\ late \subseteq late'
  BY DEF Fill, FillRead, FillWrite
<1> SUFFICES ASSUME NEW p \in Positions, MarketOf[p] \notin late' PROVE Exact(p)'
  BY DEF ExactInv
<1>1. Exact(p) /\ MarketOf[p] \in Markets /\ bought[p] \in Nat /\ bought[q] \in Nat
  BY <1>0 DEF ExactInv, SettlementInv, SettlementTypeOK
<1> USE DEF worldVars, workerVars
<1>2. CASE bought'[p] = bought[p] /\ book'[p] = book[p] /\ folding'[p] \in {folding[p], None}
  <2>1. \A row : (Full(p, row) <=> Full(p, row)') /\ (Done(p, row) <=> Done(p, row)')
    BY <1>0, <1>2 DEF Full, Done, Payoff
  <2>2. BookExact(p)' /\ FoldExact(p)'
    BY <1>0, <1>1, <1>2, <2>1 DEF Exact, BookExact, FoldExact, OnRecord
  <2>3. MarkExact(p)'
    BY <1>0, <1>1, <1>2, <2>1 DEF Exact, MarkExact
  <2>4. ASSUME NEW w \in Workers PROVE CopyExact(p, w)' /\ ListExact(p, w)'
    BY <1>0, <1>1, <1>2, <2>1 DEF Exact, CopyExact, ListExact
  <2> QED BY <2>2, <2>3, <2>4 DEF Exact
<1>3. CASE p = q /\ FillRead(q)
  <2>1. /\ bought' = bought /\ book' = book
        /\ folding'[p] = IF book[p] = None THEN NoRow ELSE book[p]
    BY <1>3 DEF FillRead, SettlementInv, SettlementTypeOK
  <2>2. \A row : (Full(p, row) <=> Full(p, row)') /\ (Done(p, row) <=> Done(p, row)')
    BY <1>0, <2>1 DEF Full, Done, Payoff
  <2>3. BookExact(p)'
    BY <1>0, <1>1, <2>1, <2>2 DEF Exact, BookExact, OnRecord
  <2>4. FoldExact(p)'
    <3>1. CASE book[p] = None
      <4>1. bought[p] = 0 /\ folding'[p] = NoRow
        BY <1>1, <2>1, <3>1 DEF Exact, BookExact
      <4> QED BY <2>1, <4>1 DEF FoldExact, Full, NoRow
    <3>2. CASE book[p] # None
      <4>1. folding'[p] = book[p] /\ (Full(p, book[p]) \/ Done(p, book[p]))
        BY <1>1, <2>1, <3>2 DEF Exact, BookExact
      <4>2. MarketOf[p] \notin expired => Full(p, book[p])
        BY <4>1, DecidedExpired
      <4> QED BY <1>0, <2>2, <4>1, <4>2 DEF FoldExact
    <3> QED BY <3>1, <3>2
  <2>5. MarkExact(p)'
    BY <1>0, <1>1, <2>1, <2>2 DEF Exact, MarkExact
  <2>6. ASSUME NEW w \in Workers PROVE CopyExact(p, w)' /\ ListExact(p, w)'
    BY <1>0, <1>1, <2>1, <2>2 DEF Exact, CopyExact, ListExact
  <2> QED BY <2>3, <2>4, <2>5, <2>6 DEF Exact
<1>4. CASE p = q /\ FillWrite(q)
  <2>1. MarketOf[p] \notin expired
    BY <1>1, <1>4 DEF FillWrite
  <2>2. Full(p, folding[p]) /\ folding[p] \in Rows
    BY <1>1, <1>4, <2>1 DEF FillWrite, Exact, FoldExact, SettlementInv, SettlementTypeOK
  <2>3. /\ folding'[p] = None /\ bought'[p] = bought[p] + 1
        /\ book'[p] = Opening(folding[p], Price, 1)
    BY <1>4 DEF FillWrite, SettlementInv, SettlementTypeOK
  <2>4. Opening(folding[p], Price, 1).size = folding[p].size + 1
        /\ Opening(folding[p], Price, 1).pnl = folding[p].pnl
    BY <2>2 DEF Opening, Rows
  <2>5. Full(p, book[p])'
    BY <2>2, <2>3, <2>4 DEF Full
  <2>6. book'[p] # None
    <3>1. Opening(folding[p], Price, 1) \in Rows
      BY <1>4, FillWritesSound DEF SettlementInv
    <3> QED BY <2>3, <3>1
  <2>7. BookExact(p)' /\ FoldExact(p)'
    BY <1>1, <2>3, <2>5, <2>6 DEF BookExact, FoldExact
  <2>8. MarkExact(p)'
    BY <1>0, <1>1, <2>1, DecidedExpired DEF MarkExact, Exact
  <2>9. ASSUME NEW w \in Workers PROVE CopyExact(p, w)' /\ ListExact(p, w)'
    BY <1>0, <2>1, DecidedExpired DEF CopyExact, ListExact
  <2> QED BY <2>7, <2>8, <2>9 DEF Exact
<1>5. CASE p # q
  <2>1. bought'[p] = bought[p] /\ book'[p] = book[p] /\ folding'[p] = folding[p]
    BY <1>5 DEF Fill, FillRead, FillWrite, SettlementInv, SettlementTypeOK
  <2> QED BY <1>2, <2>1
<1> QED BY <1>3, <1>4, <1>5 DEF Fill

(* A sweep closes the shares it has listed, which are all of them.          *)
LEMMA ClosesAll ==
    ASSUME SettlementInv, ExactInv, NEW w \in Workers, WritePosition(w),
           NEW p \in Positions, p = current[w].position, MarketOf[p] \notin late
    PROVE  /\ bought[p] > 0 /\ book'[p].size = 0 /\ book'[p] # None
           /\ book'[p].pnl = bought[p] * (Payoff(p) - Price) /\ winner[MarketOf[p]] # None
<1> DEFINE row == current[w].row
           new == Closing(row, Payoff(p), ClosedSize(w, p))
<1>1. /\ sweep[w] = "write" /\ ClosedSize(w, p) > 0 /\ Exact(p)
      /\ book' = [book EXCEPT ![p] = new] /\ book \in [Positions -> Rows \cup {None}]
      /\ new \in Rows /\ winner[MarketOf[p]] # None /\ MarketOf[p] = market[w]
  BY CloseWritesSound DEF WritePosition, Go, ExactInv, SettlementInv, SettlementTypeOK
<1>2. book'[p] = new /\ new # None
  BY <1>1
<1>3. /\ row \in Rows /\ open[w][p] \in Nat /\ bought[p] \in Nat /\ Payoff(p) \in Int
      /\ row.size \in Nat /\ row.pnl \in Int
  BY DEF SettlementInv, SettlementTypeOK, Payoff, Rows
<1>4. row.size > 0 => row.avg = Price
  BY <1>1 DEF SettlementInv, PaidInv, CopyIsSound, Sound
<1>5. ClosedSize(w, p) \in Nat /\ ClosedSize(w, p) <= open[w][p] /\ ClosedSize(w, p) <= row.size
  BY <1>3 DEF ClosedSize
<1>6. row.size = bought[p] /\ row.pnl = 0
  <2>1. Full(p, row) \/ Done(p, row)
    BY <1>1 DEF Exact, CopyExact
  <2>2. ~Done(p, row)
    BY <1>1, <1>3, <1>5 DEF Done
  <2> QED BY <2>1, <2>2 DEF Full
<1>7. bought[p] > 0
  BY <1>1, <1>3, <1>5, <1>6 DEF ClosedSize
<1>8. open[w][p] = bought[p]
  <2>1. open[w][p] # 0
    BY <1>1, <1>3, <1>5 DEF ClosedSize
  <2> QED BY <1>1, <1>7, <2>1 DEF Exact, ListExact
<1>9. ClosedSize(w, p) = bought[p] /\ row.avg = Price
  BY <1>3, <1>4, <1>6, <1>7, <1>8 DEF ClosedSize
<1>10. new.size = 0 /\ new.pnl = 0 + (Payoff(p) - Price) * bought[p]
  BY <1>3, <1>6, <1>9 DEF Closing
<1> QED BY <1>1, <1>2, <1>3, <1>7, <1>10

LEMMA ExactWorker ==
    ASSUME SettlementInv, ExactInv, NEW w \in Workers, WorkerStep(w)
    PROVE  ExactInv'
<1>0. /\ Settles(w) \/ SweepFails(w)
      /\ UNCHANGED <<worldVars, scannerVars>>
  BY DEF WorkerStep
<1>1. /\ UNCHANGED <<winner, expired, folding, bought>>
      /\ \A v \in Workers \ {w} : /\ sweep'[v] = sweep[v] /\ market'[v] = market[v]
                                  /\ open'[v] = open[v] /\ current'[v] = current[v]
      /\ UNCHANGED book \/ WritePosition(w)
  BY <1>0, WorkerFrame DEF SettlementInv
<1>2. UNCHANGED late
  BY <1>0 DEF Settles, SweepFails, ListExpiredUnresolved, ListOpenForMarket, WritePosition,
         RecordSettlementEvent, MarkResolved, SweepDone, SweepEnds, StillUnresolved, Resolved,
         ReadPosition, bookVars
<1> SUFFICES ASSUME NEW p \in Positions, MarketOf[p] \notin late PROVE Exact(p)'
  BY <1>2 DEF ExactInv
<1>3. Exact(p) /\ MarketOf[p] \in Markets /\ bought[p] \in Nat
  BY DEF ExactInv, SettlementInv, SettlementTypeOK
<1>4. \A row : (Full(p, row) <=> Full(p, row)') /\ (Done(p, row) <=> Done(p, row)')
  BY <1>1 DEF Full, Done, Payoff
<1>5. FoldExact(p)'
  BY <1>1, <1>3, <1>4 DEF Exact, FoldExact
(* What becomes of the row.                                                 *)
<1>6. book'[p] = book[p] \/ (WritePosition(w) /\ current[w].position = p /\ bought[p] > 0
                             /\ book'[p] # None /\ Done(p, book'[p]))
  <2>1. CASE UNCHANGED book BY <2>1
  <2>2. CASE WritePosition(w) /\ current[w].position # p
    BY <2>2 DEF WritePosition, SettlementInv, SettlementTypeOK
  <2>3. CASE WritePosition(w) /\ current[w].position = p
    BY <2>3, ClosesAll DEF Done
  <2> QED BY <1>1, <2>1, <2>2, <2>3
<1>7. Done(p, book[p]) => Done(p, book'[p])
  BY <1>6
<1>8. OnRecord(p) \/ (WritePosition(w) /\ current[w].position = p) => OnRecord(p)'
  <2>1. CASE WritePosition(w)
    <3>1. /\ sweep' = [sweep EXCEPT ![w] = "record"] /\ current' = current
          /\ closed' = closed /\ unrecorded' = unrecorded
      BY <2>1 DEF WritePosition, Go, WorkerStep, SweepFails, NothingToClose, SweepEnds, SettlementInv,
                  SettlementTypeOK, Settles
    <3>2. \A v \in Workers : sweep[v] = "record" => sweep'[v] = "record"
      BY <3>1 DEF SettlementInv, SettlementTypeOK
    <3>3. sweep'[w] = "record"
      BY <3>1 DEF SettlementInv, SettlementTypeOK
    <3> QED BY <3>1, <3>2, <3>3 DEF OnRecord
  <2>2. CASE ~WritePosition(w)
    <3>1. /\ closed \subseteq closed' /\ unrecorded \subseteq unrecorded'
          /\ sweep[w] = "record" => current[w].position \in closed' \cup unrecorded'
      BY DEF WorkerStep, Settles, SweepFails, ListExpiredUnresolved, ListOpenForMarket, WritePosition,
         RecordSettlementEvent, MarkResolved, SweepDone, SweepEnds, StillUnresolved, Resolved,
         ReadPosition, Go
    <3>2. CASE p \in closed \cup unrecorded
      BY <3>1, <3>2 DEF OnRecord
    <3>3. ASSUME NEW v \in Workers, sweep[v] = "record", current[v].position = p PROVE OnRecord(p)'
      BY <1>1, <3>1, <3>3 DEF OnRecord
    <3> QED BY <2>2, <3>2, <3>3 DEF OnRecord
  <2> QED BY <2>1, <2>2
<1>9. BookExact(p)'
  <2>1. CASE book'[p] = book[p]
    <3>1. OnRecord(p) => OnRecord(p)'
      BY <1>8
    <3>2. bought' = bought /\ winner' = winner
      BY <1>1
    <3>3. CASE bought[p] = 0
      BY <1>3, <2>1, <3>2, <3>3 DEF Exact, BookExact
    <3>4. CASE bought[p] # 0 /\ Full(p, book[p])
      BY <1>3, <2>1, <3>2, <3>4 DEF Exact, BookExact, Full
    <3>5. CASE bought[p] # 0 /\ Done(p, book[p]) /\ OnRecord(p)
      BY <1>3, <2>1, <3>1, <3>2, <3>5 DEF Exact, BookExact, Done, Payoff
    <3> QED BY <1>3, <3>3, <3>4, <3>5 DEF Exact, BookExact
  <2>2. CASE book'[p] # book[p]
    <3>1. OnRecord(p)' /\ book'[p] # None /\ bought'[p] # 0 /\ Done(p, book'[p])
      BY <1>1, <1>6, <1>8, <2>2
    <3>2. Done(p, book[p])'
      BY <1>1, <3>1 DEF Done, Payoff
    <3> QED BY <3>1, <3>2 DEF BookExact
  <2> QED BY <2>1, <2>2
(* The other workers.                                                       *)
<1>10. ASSUME NEW v \in Workers \ {w} PROVE CopyExact(p, v)' /\ ListExact(p, v)'
  <2>1. CopyExact(p, v) /\ ListExact(p, v)
    BY <1>3 DEF Exact
  <2>2. CopyExact(p, v)'
    BY <1>1, <1>4, <1>7, <2>1 DEF CopyExact
  <2>3. ListExact(p, v)'
    BY <1>1, <1>4, <1>7, <2>1 DEF ListExact
  <2> QED BY <2>2, <2>3
(* This worker.                                                             *)
<1>11. CopyExact(p, w)'
  <2> SUFFICES ASSUME current'[w].position = p
               PROVE  /\ sweep'[w] = "write" => Full(p, current'[w].row) \/ Done(p, current'[w].row)
                      /\ sweep'[w] = "record" => Done(p, book'[p])
    BY <1>4 DEF CopyExact
  <2>1. CASE WritePosition(w)
    <3>1. sweep'[w] = "record" /\ current'[w].position = current[w].position
      BY <2>1 DEF WritePosition, Go, SettlementInv, SettlementTypeOK
    <3> QED BY <1>4, <2>1, <3>1, ClosesAll DEF Done
  <2>2. ASSUME NEW q \in Positions, ReadPosition(w, q)
        PROVE  sweep'[w] = "write" /\ (Full(p, current'[w].row) \/ Done(p, current'[w].row))
    <3>1. /\ current'[w].position = q /\ current'[w].row = book[q]
          /\ open[w][q] > 0 /\ sweep'[w] = "write"
      BY <2>2 DEF ReadPosition, Go, SettlementInv, SettlementTypeOK
    <3>2. book[p] # None
      BY <3>1 DEF SettlementInv, PaidInv, ListIsOfMarket
    <3> QED BY <1>3, <3>1, <3>2 DEF Exact, BookExact
  <2>3. CASE ~WritePosition(w) /\ \A q \in Positions : ~ReadPosition(w, q)
    <3>1. sweep'[w] \notin {"write", "record"}
      BY <1>0, <2>3 DEF Settles, SweepFails, ListExpiredUnresolved, ListOpenForMarket, RecordSettlementEvent,
         MarkResolved, SweepDone, SweepEnds, StillUnresolved, Resolved, Go, SettlementInv, SettlementTypeOK
    <3> QED BY <3>1
  <2> QED BY <2>1, <2>2, <2>3
<1>12. ListExact(p, w)'
  <2> SUFFICES ASSUME sweep'[w] \in {"close", "write", "record"}, market'[w] = MarketOf[p], bought[p] > 0
               PROVE  IF open'[w][p] = 0 THEN Done(p, book'[p]) ELSE open'[w][p] = bought[p]
    BY <1>1, <1>4 DEF ListExact
  <2>1. CASE ListOpenForMarket(w)
    <3>1. /\ open'[w][p] = IF IsOpen(book[p]) THEN book[p].size ELSE 0
          /\ book' = book
      BY <2>1 DEF ListOpenForMarket, bookVars, SettlementInv, SettlementTypeOK
    <3>2. book[p] # None /\ (Full(p, book[p]) \/ Done(p, book[p]))
      BY <1>3 DEF Exact, BookExact
    <3> QED BY <1>3, <3>1, <3>2 DEF IsOpen, Full, Done
  <2>2. CASE RecordSettlementEvent(w)
    <3>1. /\ sweep[w] = "record" /\ market'[w] = market[w] /\ book' = book
          /\ open' = [open EXCEPT ![w][current[w].position] = 0]
      BY <2>2 DEF RecordSettlementEvent, Go, bookVars
    <3>2. current[w].position \in Positions
      BY <3>1 DEF SettlementInv, PaidInv, CopyIsSound, SettlementTypeOK
    <3>3. open'[w][p] = IF p = current[w].position THEN 0 ELSE open[w][p]
      BY <3>1, <3>2 DEF SettlementInv, SettlementTypeOK
    <3>4. CASE p = current[w].position
      BY <1>3, <3>1, <3>3, <3>4 DEF Exact, CopyExact
    <3>5. CASE p # current[w].position
      BY <1>3, <3>1, <3>3, <3>5 DEF Exact, ListExact
    <3> QED BY <3>4, <3>5
  <2>3. CASE WritePosition(w) \/ \E q \in Positions : ReadPosition(w, q)
    <3>1. /\ sweep[w] \in {"close", "write"} /\ market'[w] = market[w] /\ open'[w] = open[w]
      BY <2>3 DEF WritePosition, ReadPosition, Go
    <3> QED BY <1>3, <1>7, <3>1 DEF Exact, ListExact
  <2>4. CASE ~ListOpenForMarket(w) /\ ~RecordSettlementEvent(w) /\ ~WritePosition(w)
             /\ \A q \in Positions : ~ReadPosition(w, q)
    <3>1. sweep'[w] \notin {"close", "write", "record"}
      BY <1>0, <2>4 DEF Settles, SweepFails, ListExpiredUnresolved, MarkResolved, SweepDone, SweepEnds,
         StillUnresolved, Resolved, Go, SettlementInv, SettlementTypeOK
    <3> QED BY <3>1
  <2> QED BY <2>1, <2>2, <2>3, <2>4
<1>13. MarkExact(p)'
  <2>1. CASE settled' = settled
    BY <1>1, <1>3, <1>4, <1>7, <2>1 DEF Exact, MarkExact
  <2>2. CASE MarkResolved(w)
    <3>1. /\ sweep[w] = "close" /\ open[w][p] = 0 /\ settled' = settled \cup {market[w]} /\ book' = book
      BY <2>2 DEF MarkResolved, AllClosed, bookVars
    <3>2. market[w] = MarketOf[p] =>
             winner[MarketOf[p]] # None /\ (bought[p] > 0 => Done(p, book[p]))
      BY <1>3, <3>1 DEF Exact, ListExact, SettlementInv, PaidInv, MarketIsDecided
    <3> QED BY <1>1, <1>3, <1>4, <3>1, <3>2 DEF Exact, MarkExact
  <2> QED BY <1>0, <2>1, <2>2 DEF Settles, SweepFails, ListExpiredUnresolved, ListOpenForMarket,
         WritePosition, RecordSettlementEvent, SweepDone, SweepEnds, StillUnresolved, Resolved, ReadPosition
<1> QED BY <1>5, <1>9, <1>10, <1>11, <1>12, <1>13 DEF Exact

LEMMA ExactStep == ASSUME SettlementInv, ExactInv, [Next]_vars PROVE ExactInv'
<1>1. ASSUME NEW m \in Markets, WorldStep(m), UNCHANGED <<workerVars, bookVars, closed, settled, unrecorded>>
      PROVE  ExactInv'
  <2>1. WinnersAreFinal
    BY <1>1, WorldScanInv DEF WinnersAreFinal, SettlementInv, SettlementTypeOK
  <2>2. expired \subseteq expired'
    BY <1>1 DEF WorldStep, List, Expire, Close, Resolve, Delist
  <2> QED BY <1>1, <2>1, <2>2, ExactOutside
<1>2. CASE Scanning
  <2>1. UNCHANGED worldVars
    BY <1>2 DEF Scanning, ScanStep, ScanFails, ScanDone, ScanEnds, FetchAllPages, ListActive, FindPrior, Upsert,
         PublishItem, ItemsDone, Vanish, PublishVanished
  <2> QED BY <1>2, <2>1, ExactOutside DEF Scanning, WinnersAreFinal, worldVars
<1>3. CASE UNCHANGED vars
  BY <1>3, ExactOutside DEF vars, WinnersAreFinal, worldVars
<1> QED BY <1>1, <1>2, <1>3, ExactFill, ExactWorker DEF Next

LEMMA InitExact == ASSUME Init PROVE ExactInv
BY DEF Init, ScannerInit, ExactInv, Exact, BookExact, FoldExact, CopyExact, ListExact, MarkExact

(* SettledExactly: no failure, restart, second worker or racing scan leaves *)
(* a share of a settled market unpaid or a close without its event, unless  *)
(* the sweep stopped just there or a fill came too late.                    *)
THEOREM SettledExactlyHolds == Spec => []SettledExactly
<1>1. Init => SettlementInv /\ ExactInv
  BY InitInv, InitExact
<1>2. (SettlementInv /\ ExactInv) /\ [Next]_vars => (SettlementInv /\ ExactInv)'
  BY StepInv, ExactStep
<1>3. SettlementInv /\ ExactInv => SettledExactly
  <2> SUFFICES ASSUME SettlementInv, ExactInv, NEW p \in Positions,
                      MarketOf[p] \in settled \ late, bought[p] > 0
               PROVE  /\ book[p].size = 0 /\ book[p].pnl = bought[p] * (Payoff(p) - Price)
                      /\ \/ p \in closed \cup unrecorded
                         \/ \E w \in Workers : sweep[w] = "record" /\ current[w].position = p
    BY DEF SettledExactly
  <2>1. Exact(p)
    BY DEF ExactInv
  <2>2. Done(p, book[p])
    BY <2>1 DEF Exact, MarkExact
  <2>3. ~Full(p, book[p])
    BY <2>2 DEF Full, Done
  <2>4. OnRecord(p)
    BY <2>1, <2>2, <2>3 DEF Exact, BookExact
  <2> QED BY <2>2, <2>4 DEF Done, OnRecord
<1> QED BY <1>1, <1>2, <1>3, PTL DEF Spec

-----------------------------------------------------------------------------
(***************************************************************************)
(* ImplementsEvents.  Why: at its write the scanner still knows whether the*)
(* row was there, since rows do not go away and a sweep marks none that is *)
(* not there.                                                              *)
(***************************************************************************)
EventsInv ==
    /\ scan = "upsert" => (item.prior = None <=> rows[item.market] = None)
    /\ \A w \in Workers :
          /\ \A m \in todo[w] : rows[m] # None
          /\ market[w] # None => rows[market[w]] # None

SameRows == \A m \in Markets : rows'[m] = None <=> rows[m] = None

LEMMA EventsKeep ==
    ASSUME SettlementInv, EventsInv, UNCHANGED <<scan, item>>, SameRows,
           \A w \in Workers : todo'[w] \subseteq todo[w] /\ market'[w] \in todo[w] \cup {None, market[w]}
    PROVE  EventsInv'
<1>1. scan' = "upsert" => (item'.prior = None <=> rows'[item'.market] = None)
  <2>1. scan = "upsert" => item.market \in Markets
    BY DEF SettlementInv, ScanInv, ItemIsListed
  <2> QED BY <2>1 DEF EventsInv, SameRows
<1>2. ASSUME NEW w \in Workers
      PROVE  /\ \A m \in todo'[w] : rows'[m] # None
             /\ market'[w] # None => rows'[market'[w]] # None
  <2>1. todo[w] \subseteq Markets /\ market[w] \in Markets \cup {None}
    BY DEF SettlementInv, SettlementTypeOK
  <2> QED BY <2>1 DEF EventsInv, SameRows
<1> QED BY <1>1, <1>2 DEF EventsInv

LEMMA EventsKeepScan ==
    ASSUME SettlementInv, EventsInv, Scanning
    PROVE  EventsInv'
<1>1. (ScanStep \/ ScanFails) /\ UNCHANGED workerVars
  BY DEF Scanning
<1>2. \A m \in Markets : rows[m] # None => rows'[m] # None
  BY <1>1, RowsAreGenuine DEF SettlementInv, SettlementTypeOK
<1>3. scan' = "upsert" => (item'.prior = None <=> rows'[item'.market] = None)
  <2>1. ASSUME NEW m \in Markets, FindPrior(m)
        PROVE  item'.prior = None <=> rows'[item'.market] = None
    <3>1. item' = [market |-> m, prior |-> PriorRow(m)] /\ rows' = rows
      BY <2>1 DEF FindPrior
    <3>2. believed[m] # None => rows[m] # None
      BY DEF SettlementInv, ScanInv, ItemIsListed
    <3> QED BY <3>1, <3>2 DEF PriorRow
  <2>2. CASE \A m \in Markets : ~FindPrior(m)
    <3>1. scan' # "upsert"
      BY <1>1, <2>2 DEF ScanStep, ScanFails, ScanDone, ScanEnds, FetchAllPages, ListActive, Upsert,
         PublishItem, ItemsDone, Vanish, PublishVanished
    <3> QED BY <3>1
  <2> QED BY <2>1, <2>2
<1>4. ASSUME NEW w \in Workers
      PROVE  /\ \A m \in todo'[w] : rows'[m] # None
             /\ market'[w] # None => rows'[market'[w]] # None
  <2>1. todo[w] \subseteq Markets /\ market[w] \in Markets \cup {None}
    BY DEF SettlementInv, SettlementTypeOK
  <2> QED BY <1>1, <1>2, <2>1 DEF EventsInv, workerVars
<1> QED BY <1>3, <1>4 DEF EventsInv

LEMMA WorkerRows ==
    ASSUME SettlementInv, EventsInv, NEW w \in Workers, Settles(w) \/ SweepFails(w)
    PROVE  SameRows /\ (UNCHANGED rows \/ MarkResolved(w))
<1>1. UNCHANGED rows \/ MarkResolved(w)
  BY DEF Settles, SweepFails, ListExpiredUnresolved, ListOpenForMarket, WritePosition,
         RecordSettlementEvent, SweepDone, SweepEnds, StillUnresolved, Resolved, ReadPosition
<1>2. ASSUME MarkResolved(w) PROVE SameRows
  <2>1. market[w] \in Markets /\ rows[market[w]] # None
    BY <1>2 DEF MarkResolved, AllClosed, SettlementInv, PaidInv, MarketIsDecided, SettlementTypeOK, EventsInv
  <2>2. [active |-> FALSE, closed |-> TRUE, resolved |-> TRUE] \in Flags
    BY DEF Flags
  <2> QED BY <1>2, <2>1, <2>2 DEF MarkResolved, SameRows, SettlementInv, SettlementTypeOK, ScannerTypeOK
<1> QED BY <1>1, <1>2 DEF SameRows

LEMMA EventsKeepWorker ==
    ASSUME SettlementInv, EventsInv, NEW w \in Workers, WorkerStep(w)
    PROVE  EventsInv'
<1>0. (Settles(w) \/ SweepFails(w)) /\ UNCHANGED scannerVars
  BY DEF WorkerStep
<1>1. SameRows
  BY <1>0, WorkerRows
<1>2. CASE ListExpiredUnresolved(w)
  <2>1. /\ UNCHANGED <<rows, market, scan, item>>
        /\ todo' = [todo EXCEPT ![w] = {m \in expired : Candidate(m)}]
    BY <1>0, <1>2 DEF ListExpiredUnresolved, scannerVars
  <2>2. \A v \in Workers : \A m \in todo'[v] : rows[m] # None
    BY <2>1 DEF Candidate, EventsInv, SettlementInv, SettlementTypeOK
  <2> QED BY <2>1, <2>2 DEF EventsInv
<1>3. CASE ~ListExpiredUnresolved(w)
  <2>1. \A v \in Workers : todo'[v] \subseteq todo[v] /\ market'[v] \in todo[v] \cup {None, market[v]}
    <3>1. \A v \in Workers \ {w} : todo'[v] = todo[v] /\ market'[v] = market[v]
      BY <1>0, <1>3 DEF Settles, SweepFails, ListOpenForMarket, WritePosition, RecordSettlementEvent,
         MarkResolved, SweepDone, SweepEnds, StillUnresolved, Resolved, ReadPosition,
         SettlementInv, SettlementTypeOK
    <3>2. todo'[w] \subseteq todo[w] /\ market'[w] \in todo[w] \cup {None, market[w]}
      BY <1>0, <1>3 DEF Settles, SweepFails, ListOpenForMarket, WritePosition, RecordSettlementEvent,
         MarkResolved, SweepDone, SweepEnds, StillUnresolved, Resolved, ReadPosition,
         SettlementInv, SettlementTypeOK
    <3> QED BY <3>1, <3>2
  <2> QED BY <1>0, <1>1, <2>1, EventsKeep DEF scannerVars
<1> QED BY <1>2, <1>3

LEMMA EventsStep == ASSUME SettlementInv, EventsInv, [Next]_vars PROVE EventsInv'
<1>1. ASSUME UNCHANGED <<rows, scannerVars, workerVars>> PROVE EventsInv'
  BY <1>1, EventsKeep DEF SameRows, scannerVars, workerVars
<1>2. CASE \E m \in Markets : WorldStep(m) /\ UNCHANGED <<workerVars, bookVars, closed, settled, unrecorded>>
  BY <1>1, <1>2 DEF WorldStep
<1>3. CASE \E p \in Positions : Fill(p)
  BY <1>1, <1>3 DEF Fill
<1>4. CASE UNCHANGED vars
  BY <1>1, <1>4 DEF vars
<1> QED BY <1>2, <1>3, <1>4, EventsKeepScan, EventsKeepWorker DEF Next

(* The event on its way, and the events there are, as a listener sees them. *)
LEMMA ToldType ==
    ASSUME NEW type \in {"MARKET_DISCOVERED", "MARKET_LIFECYCLE_CHANGED"}, NEW m \in Markets, NEW flags
    PROVE  Told(type, m, flags) \in Listeners!MarketEvent /\ Told(type, m, flags) # None
<1>1. IsActive(flags) \in BOOLEAN
  BY DEF IsActive
<1>2. Told(type, m, flags) \in Listeners!MarketEvent
  BY <1>1 DEF Told, Listeners!MarketEvent
<1> QED BY <1>2, NewsAssumption

LEMMA NewsIs ==
    /\ scan = "publish" =>
          News = Told(IF item.prior = None THEN "MARKET_DISCOVERED" ELSE "MARKET_LIFECYCLE_CHANGED",
                      item.market, FlagsOf(found[item.market]))
    /\ scan = "vanished" => News = Told("MARKET_LIFECYCLE_CHANGED", item.market, item.prior)
    /\ scan \notin {"publish", "vanished"} => News = None
<1>1. CASE scan = "publish"   BY <1>1 DEF News
<1>2. CASE scan = "vanished"  BY <1>2 DEF News
<1>3. CASE scan \notin {"publish", "vanished"} BY <1>3 DEF News
<1> QED BY <1>1, <1>2, <1>3

LEMMA NewsIsNews ==
    ASSUME SettlementInv, scan \in {"publish", "vanished"}
    PROVE  News # None
<1>1. CASE scan = "publish"
  BY <1>1, NewsIs, ToldType DEF SettlementInv, ScanInv, ItemIsListed
<1>2. CASE scan = "vanished"
  BY <1>2, NewsIs, ToldType DEF SettlementInv, ScanInv, ItemIsListed
<1> QED BY <1>1, <1>2

LEMMA WritesRow ==
    ASSUME SettlementInv, NEW m \in Markets, NEW flags \in Flags, rows' = [rows EXCEPT ![m] = flags],
           UNCHANGED log, News = None,
           News' \in {None, Told(IF rows[m] = None THEN "MARKET_DISCOVERED" ELSE "MARKET_LIFECYCLE_CHANGED",
                                 m, flags)}
    PROVE  Listeners!WriteRow(m, IsActive(flags))
<1> DEFINE Live == [n \in Markets |-> IF rows[n] = None THEN None ELSE IsActive(rows[n])]
<1>1. rows \in [Markets -> Flags \cup {None}] /\ flags # None /\ IsActive(flags) \in BOOLEAN
  BY DEF SettlementInv, SettlementTypeOK, ScannerTypeOK, IsActive
<1>2. ASSUME NEW n \in Markets PROVE rows'[n] = IF n = m THEN flags ELSE rows[n]
  BY <1>1
<1>3. Live' = [Live EXCEPT ![m] = IsActive(flags)]
  <2> SUFFICES ASSUME NEW n \in Markets
               PROVE  (IF rows'[n] = None THEN None ELSE IsActive(rows'[n]))
                        = IF n = m THEN IsActive(flags) ELSE Live[n]
    BY DEF IsActive
  <2>1. CASE n = m BY <1>1, <1>2, <2>1
  <2>2. CASE n # m BY <1>2, <2>2
  <2> QED BY <2>1, <2>2
<1>4. Live[m] = None <=> rows[m] = None
  <2>1. None \notin BOOLEAN
    BY NewsAssumption
  <2>2. rows[m] # None => IsActive(rows[m]) \in BOOLEAN
    BY DEF IsActive
  <2> QED BY <2>1, <2>2
<1> HIDE DEF Live
<1>5. News' \in {None, [type   |-> IF Live[m] = None THEN "MARKET_DISCOVERED"
                                   ELSE "MARKET_LIFECYCLE_CHANGED",
                        market |-> m, active |-> IsActive(flags)]}
  BY <1>4 DEF Told
<1> QED BY <1>3, <1>5 DEF Listeners!WriteRow, Live

LEMMA PublishesNews ==
    ASSUME SettlementInv, NEW type, NEW flags, UNCHANGED rows,
           log' = Append(log, [type |-> type, market |-> item.market, next |-> flags]),
           News # None, News = Told(type, item.market, flags), News' = None
    PROVE  Listeners!PublishNews
<1> DEFINE e == [type |-> type, market |-> item.market, next |-> flags]
           Heard == [i \in DOMAIN log |-> Told(log[i].type, log[i].market, log[i].next)]
           f == [i \in 1..(Len(log) + 1) |-> Told(log'[i].type, log'[i].market, log'[i].next)]
<1>1. /\ log \in Seq(Events) /\ Len(log) \in Nat /\ DOMAIN log = 1..Len(log)
      /\ DOMAIN log' = 1..(Len(log) + 1)
      /\ \A i \in 1..Len(log) : log'[i] = log[i]
      /\ log'[Len(log) + 1] = e
  BY DEF SettlementInv, SettlementTypeOK, ScannerTypeOK
<1>2. Heard' = f
  BY <1>1
<1>3. \A i \in 1..Len(log) : f[i] = Heard[i]
  BY <1>1
<1>4. f[Len(log) + 1] = News
  BY <1>1
<1>5. Heard \in Seq(Listeners!MarketEvent) /\ Len(Heard) = Len(log)
  <2>1. \A i \in 1..Len(log) : Told(log[i].type, log[i].market, log[i].next) \in Listeners!MarketEvent
    <3>1. \A i \in 1..Len(log) : log[i] \in Events
      BY <1>1
    <3> QED BY <3>1, ToldType DEF Events
  <2>2. Heard \in [1..Len(log) -> Listeners!MarketEvent]
    BY <1>1, <2>1
  <2> QED BY <1>1, <2>2
<1>6. Append(Heard, News) = f
  BY <1>1, <1>3, <1>4, <1>5
<1>7. Heard' = Append(Heard, News)
  BY <1>2, <1>6
<1> HIDE DEF Heard
<1>8. UNCHANGED [m \in Markets |-> IF rows[m] = None THEN None ELSE IsActive(rows[m])]
  BY DEF IsActive
<1> QED BY <1>7, <1>8 DEF Listeners!PublishNews, Heard

LEMMA NoNews ==
    ASSUME UNCHANGED rows, UNCHANGED log, News' = News
    PROVE  UNCHANGED Listeners!eventVars
<1>1. UNCHANGED [m \in Markets |-> IF rows[m] = None THEN None ELSE IsActive(rows[m])]
  BY DEF IsActive
<1>2. UNCHANGED [i \in DOMAIN log |-> Told(log[i].type, log[i].market, log[i].next)]
  BY DEF Told, IsActive
<1> QED BY <1>1, <1>2 DEF Listeners!eventVars

LEMMA NewsStays == ASSUME UNCHANGED <<scan, item, found>> PROVE News' = News
BY DEF News, Told, FlagsOf, IsActive

LEMMA NoNewsNext ==
    /\ scan' = "publish" =>
          News' = Told(IF item'.prior = None THEN "MARKET_DISCOVERED" ELSE "MARKET_LIFECYCLE_CHANGED",
                       item'.market, FlagsOf(found'[item'.market]))
    /\ scan' = "vanished" => News' = Told("MARKET_LIFECYCLE_CHANGED", item'.market, item'.prior)
    /\ scan' \notin {"publish", "vanished"} => News' = None
<1>1. CASE scan' = "publish"   BY <1>1 DEF News, Told, FlagsOf, IsActive
<1>2. CASE scan' = "vanished"  BY <1>2 DEF News, Told, IsActive
<1>3. CASE scan' \notin {"publish", "vanished"} BY <1>3 DEF News
<1> QED BY <1>1, <1>2, <1>3

LEMMA UpsertWrites ==
    ASSUME SettlementInv, EventsInv, Upsert
    PROVE  \E m \in Markets, active \in BOOLEAN : Listeners!WriteRow(m, active)
<1>1. /\ item.market \in Markets /\ found[item.market] \in Listings
      /\ (item.prior = None <=> rows[item.market] = None)
      /\ scan = "upsert" /\ rows' = [rows EXCEPT ![item.market] = FlagsOf(found[item.market])]
      /\ scan' \in {"items", "publish"} /\ UNCHANGED <<item, found, log>>
  BY DEF Upsert, SettlementInv, SettlementTypeOK, ScannerTypeOK, ScanInv, ItemIsListed, EventsInv
<1>2. FlagsOf(found[item.market]) \in Flags
  BY <1>1, FlagsOfType
<1>3. PICK m \in Markets, flags \in Flags : m = item.market /\ flags = FlagsOf(found[item.market])
  BY <1>1, <1>2
<1>4. News = None
  BY <1>1, NewsIs
<1>5. News' \in {None, Told(IF rows[m] = None THEN "MARKET_DISCOVERED" ELSE "MARKET_LIFECYCLE_CHANGED",
                            m, flags)}
  <2>1. CASE scan' = "items"    BY <2>1, NoNewsNext
  <2>2. CASE scan' = "publish"
    <3>1. FlagsOf(found'[item'.market]) = flags
      BY <1>1, <1>3 DEF FlagsOf
    <3> QED BY <1>1, <1>3, <2>2, <3>1, NoNewsNext
  <2> QED BY <1>1, <2>1, <2>2
<1>6. Listeners!WriteRow(m, IsActive(flags))
  BY <1>1, <1>3, <1>4, <1>5, WritesRow
<1>7. IsActive(flags) \in BOOLEAN
  BY DEF IsActive
<1> QED BY <1>6, <1>7

LEMMA VanishWrites ==
    ASSUME SettlementInv, NEW m \in Markets, Vanish(m)
    PROVE  \E active \in BOOLEAN : Listeners!WriteRow(m, active)
<1>1. /\ rows[m] \in Flags /\ scan = "missing" /\ scan' = "vanished" /\ UNCHANGED log
      /\ rows' = [rows EXCEPT ![m] = [rows[m] EXCEPT !.active = FALSE, !.closed = TRUE]]
      /\ item' = [market |-> m, prior |-> rows'[m]]
      /\ rows'[m] = [rows[m] EXCEPT !.active = FALSE, !.closed = TRUE]
  BY DEF Vanish, SettlementInv, SettlementTypeOK, ScannerTypeOK, ScanInv, ItemIsListed
<1>2. PICK flags \in Flags : flags = [rows[m] EXCEPT !.active = FALSE, !.closed = TRUE]
  BY <1>1 DEF Flags
<1>3. News = None
  BY <1>1, NewsIs
<1>4. News' = Told(IF rows[m] = None THEN "MARKET_DISCOVERED" ELSE "MARKET_LIFECYCLE_CHANGED", m, flags)
  <2>1. rows[m] # None /\ item'.market = m /\ item'.prior = flags
    BY <1>1, <1>2
  <2> QED BY <1>1, <2>1, NoNewsNext
<1>5. Listeners!WriteRow(m, IsActive(flags))
  BY <1>1, <1>2, <1>3, <1>4, WritesRow
<1>6. IsActive(flags) \in BOOLEAN
  BY DEF IsActive
<1> QED BY <1>5, <1>6

LEMMA ScanImplements ==
    ASSUME SettlementInv, EventsInv, ScanStep \/ ScanFails
    PROVE  [Listeners!EventsNext]_(Listeners!eventVars)
<1>1. CASE PublishItem
  <2> DEFINE type == IF item.prior = None THEN "MARKET_DISCOVERED" ELSE "MARKET_LIFECYCLE_CHANGED"
             flags == FlagsOf(found[item.market])
  <2>1. /\ scan = "publish" /\ scan' = "items" /\ UNCHANGED rows
        /\ log' = Append(log, [type |-> type, market |-> item.market, next |-> flags])
    BY <1>1 DEF PublishItem, Publish
  <2>2. News = Told(type, item.market, flags) /\ News # None /\ News' = None
    BY <2>1, NewsIs, NewsIsNews, NoNewsNext
  <2> HIDE DEF type, flags
  <2>3. Listeners!PublishNews
    BY <2>1, <2>2, PublishesNews
  <2> QED BY <2>3 DEF Listeners!EventsNext
<1>2. CASE PublishVanished
  <2>1. /\ scan = "vanished" /\ scan' = "missing" /\ UNCHANGED rows
        /\ log' = Append(log, [type |-> "MARKET_LIFECYCLE_CHANGED", market |-> item.market,
                               next |-> item.prior])
    BY <1>2 DEF PublishVanished, Publish
  <2>2. News = Told("MARKET_LIFECYCLE_CHANGED", item.market, item.prior) /\ News # None /\ News' = None
    BY <2>1, NewsIs, NewsIsNews, NoNewsNext
  <2>3. Listeners!PublishNews
    BY <2>1, <2>2, PublishesNews
  <2> QED BY <2>3 DEF Listeners!EventsNext
<1>3. CASE Upsert
  BY <1>3, UpsertWrites DEF Listeners!EventsNext
<1>4. ASSUME NEW m \in Markets, Vanish(m) PROVE Listeners!EventsNext
  BY <1>4, VanishWrites DEF Listeners!EventsNext
<1>5. CASE ScanDone \/ ScanFails
  <2>1. scan' = "idle" /\ UNCHANGED <<rows, log>>
    BY <1>5 DEF ScanDone, ScanFails, ScanEnds
  <2>2. News' = None
    BY <2>1, NoNewsNext
  <2>3. CASE News = None
    BY <2>1, <2>2, <2>3, NoNews
  <2>4. CASE News # None
    <3>1. UNCHANGED [m \in Markets |-> IF rows[m] = None THEN None ELSE IsActive(rows[m])]
      BY <2>1 DEF IsActive
    <3>2. UNCHANGED [i \in DOMAIN log |-> Told(log[i].type, log[i].market, log[i].next)]
      BY <2>1 DEF Told, IsActive
    <3>3. Listeners!LoseNews
      BY <2>2, <2>4, <3>1, <3>2 DEF Listeners!LoseNews
    <3> QED BY <3>3 DEF Listeners!EventsNext
  <2> QED BY <2>3, <2>4
<1>6. CASE FetchAllPages \/ ListActive \/ ItemsDone \/ \E m \in Markets : FindPrior(m)
  <2>1. /\ scan \notin {"publish", "vanished"} /\ scan' \notin {"publish", "vanished"}
        /\ UNCHANGED <<rows, log>>
    BY <1>6 DEF FetchAllPages, ListActive, ItemsDone, FindPrior
  <2>2. News' = News
    BY <2>1, NewsIs, NoNewsNext
  <2> QED BY <2>1, <2>2, NoNews
<1> QED BY <1>1, <1>2, <1>3, <1>4, <1>5, <1>6 DEF ScanStep

LEMMA WorkerImplements ==
    ASSUME SettlementInv, EventsInv, NEW w \in Workers, WorkerStep(w)
    PROVE  [Listeners!EventsNext]_(Listeners!eventVars)
<1>1. (Settles(w) \/ SweepFails(w)) /\ UNCHANGED scannerVars
  BY DEF WorkerStep
<1>2. News' = News /\ UNCHANGED log
  BY <1>1, NewsStays DEF scannerVars
<1>3. CASE UNCHANGED rows
  BY <1>2, <1>3, NoNews
<1>4. CASE MarkResolved(w)
  <2> DEFINE m == market[w]
             flags == [active |-> FALSE, closed |-> TRUE, resolved |-> TRUE]
             Live == [n \in Markets |-> IF rows[n] = None THEN None ELSE IsActive(rows[n])]
  <2>1. m \in Markets /\ rows[m] # None /\ rows' = [rows EXCEPT ![m] = flags] /\ flags \in Flags
    BY <1>4 DEF MarkResolved, AllClosed, SettlementInv, PaidInv, MarketIsDecided, SettlementTypeOK,
                EventsInv, Flags
  <2>2. IsActive(flags) = FALSE
    BY DEF IsActive
  <2>3. ASSUME NEW n \in Markets PROVE rows'[n] = IF n = m THEN flags ELSE rows[n]
    BY <2>1 DEF SettlementInv, SettlementTypeOK, ScannerTypeOK
  <2>4. Live' = [Live EXCEPT ![m] = FALSE]
    <3> SUFFICES ASSUME NEW n \in Markets
                 PROVE  (IF rows'[n] = None THEN None ELSE IsActive(rows'[n]))
                          = IF n = m THEN FALSE ELSE Live[n]
      BY DEF IsActive
    <3>1. CASE n = m
      <4>1. rows'[n] = flags /\ flags # None
        BY <2>1, <2>3, <3>1
      <4> HIDE DEF flags
      <4> QED BY <2>2, <3>1, <4>1
    <3>2. CASE n # m BY <2>3, <3>2
    <3> QED BY <3>1, <3>2
  <2>5. Live[m] # None
    <3>1. IsActive(rows[m]) \in BOOLEAN
      BY DEF IsActive
    <3> QED BY <2>1, <3>1, NewsAssumption
  <2>6. UNCHANGED [i \in DOMAIN log |-> Told(log[i].type, log[i].market, log[i].next)]
    BY <1>2 DEF Told, IsActive
  <2>7. \E n \in Markets : Listeners!MarkResolved(n)
    <3>1. PICK n \in Markets : n = m
      BY <2>1
    <3>2. Live' = [Live EXCEPT ![n] = FALSE] /\ Live[n] # None
      BY <2>4, <2>5, <3>1
    <3> HIDE DEF Live, m
    <3>3. Listeners!MarkResolved(n)
      BY <1>2, <2>6, <3>2 DEF Listeners!MarkResolved, Live
    <3> QED BY <3>3
  <2> QED BY <2>7 DEF Listeners!EventsNext
<1> QED BY <1>1, <1>3, <1>4, WorkerRows

LEMMA EventsImplemented ==
    ASSUME SettlementInv, EventsInv, [Next]_vars
    PROVE  [Listeners!EventsNext]_(Listeners!eventVars)
<1>1. ASSUME UNCHANGED <<rows, scannerVars>> PROVE UNCHANGED Listeners!eventVars
  BY <1>1, NewsStays, NoNews DEF scannerVars
<1>2. CASE \E m \in Markets : WorldStep(m) /\ UNCHANGED <<workerVars, bookVars, closed, settled, unrecorded>>
  BY <1>1, <1>2 DEF WorldStep
<1>3. CASE \E p \in Positions : Fill(p)
  BY <1>1, <1>3 DEF Fill
<1>4. CASE UNCHANGED vars
  BY <1>1, <1>4 DEF vars
<1>5. CASE Scanning
  BY <1>5, ScanImplements DEF Scanning
<1> QED BY <1>2, <1>3, <1>4, <1>5, WorkerImplements DEF Next

LEMMA InitEvents == ASSUME Init PROVE EventsInv /\ Listeners!EventsInit
<1> USE DEF Init, ScannerInit, Nothing
<1>1. EventsInv
  BY DEF EventsInv
<1>2. News = None
  BY NewsIs
<1>3. [m \in Markets |-> IF rows[m] = None THEN None ELSE IsActive(rows[m])] = [m \in Markets |-> None]
  OBVIOUS
<1>4. [i \in DOMAIN log |-> Told(log[i].type, log[i].market, log[i].next)] = << >>
  OBVIOUS
<1> QED BY <1>1, <1>2, <1>3, <1>4 DEF Listeners!EventsInit

(* ImplementsEvents: scans, sweeps and failures in any order give the       *)
(* listeners of market.events what MarketEvents promises them.              *)
THEOREM ImplementsEventsHolds == Spec => ImplementsEvents
<1>1. Init => (SettlementInv /\ EventsInv) /\ Listeners!EventsInit
  BY InitInv, InitEvents
<1>2. (SettlementInv /\ EventsInv) /\ [Next]_vars => (SettlementInv /\ EventsInv)'
  BY StepInv, EventsStep
<1>3. (SettlementInv /\ EventsInv) /\ [Next]_vars => [Listeners!EventsNext]_(Listeners!eventVars)
  BY EventsImplemented
<1> QED BY <1>1, <1>2, <1>3, PTL DEF Spec, ImplementsEvents, Listeners!EventsSpec
=============================================================================
