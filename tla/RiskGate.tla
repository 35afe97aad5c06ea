------------------------------- MODULE RiskGate -------------------------------
(***************************************************************************)
(* The risk gate of apps/api: what POST /api/paper/orders and POST         *)
(* /api/live/orders/prepare read, in several awaits, before they ask the   *)
(* risk engine, and what becomes of its decision.  The requests of one user*)
(* run concurrently; fills and settlements change the portfolio between a  *)
(* request's reading and its own order.  What a request finds of the market*)
(* are entries of the Redis cache, each of its own age.                    *)
(*                                                                         *)
(* Time passes between the answer with the countdown and the evaluation:   *)
(* for the other reads, the balance on the chain, the second look at the   *)
(* book.  OrderManager and the paper adapter are one step here: a   *)
(* fill of at most the clamped size.  The day does not change.             *)
(***************************************************************************)
EXTENDS RiskEngine, Sequences

CONSTANTS
    Requests,       \* the order requests of one user
    Keys,           \* (market, side) pairs: the user's rows of positions
    KeyOf,          \* the position a request trades in
    SizeOf,         \* the sizeUsd it asks for
    ModeOf,         \* the route: "PAPER" or "LIVE"
    PriceOf,        \* the limit price it states
    Readings,       \* what a request may find of the market and the system
    Waits,          \* milliseconds that may pass from one answer it needs to another
    HeldBefore,     \* what the user may hold to begin with
    Balance,        \* USDC of the user's verified wallet
    Unread          \* no input yet

(* summarizeOrderBookSide: what market-stream caches of a side's book.      *)
Summarize(bids, asks) ==
    [bestAsk  |-> BestAsk(asks),
     midpoint |-> IF bids = {} \/ asks = {} THEN 0 ELSE (BestBid(bids) + BestAsk(asks)) \div 2,
     depth    |-> Depth(bids, One) + Depth(asks, One)]

Summaries == [bestAsk : 0..One, midpoint : 0..One, depth : Nat]

(* The cache, with ages in milliseconds.  An entry that was never written,  *)
(* or that Redis has expired, is one older than CACHE_TTL_MS.               *)
CACHE_TTL_MS                  == 30000
DEFAULT_UNDERLYING_MAX_AGE_MS == 2000
DEFAULT_ORDERBOOK_MAX_AGE_MS  == 3000
DEFAULT_COUNTDOWN_MAX_AGE_MS  == 5000

Entries == [summary : Summaries, age : Nat]

(* own and other: the side bought and the opposite one.  Ages are those at  *)
(* the answers of Redis, sinceStart after the request took its `now`.       *)
(* timeLeft: the milliseconds that are really left of the market when a     *)
(* request reads its countdown, which is countdownAge old.                  *)
ReadingsType ==
    [own : Entries, other : Entries, feedAge : Nat, sinceStart : Nat,
     timeLeft : Int, countdownAge : Nat,
     active : BOOLEAN, closed : BOOLEAN, database : BOOLEAN, redis : BOOLEAN]

ASSUME GateAssumption ==
    /\ IsFiniteSet(Keys)
    /\ KeyOf \in [Requests -> Keys]
    /\ SizeOf \in [Requests -> Nat]
    /\ ModeOf \in [Requests -> {"PAPER", "LIVE"}]
    /\ PriceOf \in [Requests -> 0..One]
    /\ Readings \subseteq ReadingsType
    /\ Waits \subseteq Nat
    /\ HeldBefore \subseteq [Keys -> Nat]
    /\ Balance \in Nat
    /\ Unread \notin Inputs

VARIABLES
    stage,      \* where each request is
    input,      \* the RiskEvaluationInput it has assembled
    timeLeft,   \* what is really left of its market, up to its decision (history)
    waited,     \* how long ago it read the countdown, likewise (history)
    decision,   \* the RiskDecision it got
    held,       \* positions.size * average_price, in USD
    realized,   \* the positions' realized_pnl of today
    snapshots,  \* today's portfolio_snapshots.pnl, newest first
    fresh,      \* requests since whose reading no position changed (history)
    raced       \* a request has filled on a portfolio it had not read (history)

vars == <<stage, input, timeLeft, waited, decision, held, realized, snapshots, fresh, raced>>

Stages    == {"new", "assembled", "funded", "failed", "rejected", "approved", "prepared", "placed"}
Decisions == [approved : BOOLEAN, code : RejectionCodes \cup {"NONE"},
              maxSize : Nat, maxPrice : 0..One]
Undecided == [approved |-> FALSE, code |-> "NONE", maxSize |-> 0, maxPrice |-> 0]

GateTypeOK ==
    /\ stage \in [Requests -> Stages]
    /\ input \in [Requests -> Inputs \cup {Unread}]
    /\ \A r \in Requests : stage[r] \in {"assembled", "funded"} => input[r] \in Inputs
    /\ timeLeft \in [Requests -> Int]
    /\ waited \in [Requests -> Nat]
    /\ decision \in [Requests -> Decisions]
    /\ held \in [Keys -> Nat]
    /\ realized \in Int
    /\ snapshots \in Seq(Int)
    /\ fresh \subseteq Requests
    /\ raced \in BOOLEAN

Init ==
    /\ stage = [r \in Requests |-> "new"]
    /\ input = [r \in Requests |-> Unread]
    /\ timeLeft = [r \in Requests |-> 0]
    /\ waited = [r \in Requests |-> 0]
    /\ decision = [r \in Requests |-> Undecided]
    /\ held \in HeldBefore
    /\ realized = 0
    /\ snapshots = <<>>
    /\ fresh = {}
    /\ raced = FALSE

-----------------------------------------------------------------------------
(* What the routes read: entries of the cache, of which a getter returns    *)
(* none that is too old,                                                    *)
FreshByTtl(age, maxAge) == age <= CACHE_TTL_MS  \* wrong: left to the expiry of the key
Fresh(age, maxAge)      == age <= maxAge

NoSummary      == [bestAsk |-> 0, midpoint |-> 0, depth |-> 0]
Summary(entry) ==
    IF Fresh(entry.age, DEFAULT_ORDERBOOK_MAX_AGE_MS) THEN entry.summary ELSE NoSummary

(* and of a book one level, with the depth of its bids and asks together.   *)
SyntheticAsks(s) ==
    IF s.bestAsk = 0 \/ s.depth = 0 THEN {} ELSE {[price |-> s.bestAsk, usd |-> s.depth]}

(* What is not fresh has the age MAX_SAFE_INTEGER, a countdown -1; what is  *)
(* fresh is as old as it was when the request began.                        *)
TooOld == MARKET_DATA_STALE_THRESHOLD_MS + UNDERLYING_FEED_STALE_THRESHOLD_MS

SnapshotOf(x) ==
    [active |-> x.active, closed |-> x.closed,
     timeRemaining |-> IF Fresh(x.countdownAge, DEFAULT_COUNTDOWN_MAX_AGE_MS)
                       THEN (x.timeLeft + x.countdownAge) \div 1000 ELSE -1,
     dataAge |-> IF Fresh(x.own.age, DEFAULT_ORDERBOOK_MAX_AGE_MS)
                 THEN AtLeastZero(x.own.age - x.sinceStart) ELSE TooOld,
     feedAge |-> IF Fresh(x.feedAge, DEFAULT_UNDERLYING_MAX_AGE_MS)
                 THEN AtLeastZero(x.feedAge - x.sinceStart) ELSE TooOld,
     exchangeHealthy |-> Fresh(x.own.age, DEFAULT_ORDERBOOK_MAX_AGE_MS),
     liquidity |-> Summary(x.own).depth + Summary(x.other).depth,
     bestAsk |-> Summary(x.own).bestAsk]

(* The signal of a manual order: the stated price is the fair one, and the  *)
(* edge is its distance to the market's.                                    *)
ProbabilityAt(price, s) ==
    IF s.midpoint # 0 THEN s.midpoint ELSE IF s.bestAsk # 0 THEN s.bestAsk ELSE price

ManualSignal(r, x) ==
    [valid |-> TRUE, action |-> "BUY_YES", confidence |-> One, maxEntryPrice |-> PriceOf[r],
     edge |-> PriceOf[r] - ProbabilityAt(PriceOf[r], Summary(x.own))]

(* Only database and Redis are looked at, by a query and a ping.            *)
HealthOf(r, x) ==
    [riskEngine |-> TRUE, signer |-> ModeOf[r] = "LIVE", database |-> x.database,
     redis |-> x.redis, clock |-> TRUE, killSwitch |-> FALSE, strategy |-> TRUE]

OpenCount == Cardinality({k \in Keys : held[k] > 0})
OpenUsd   == SumFunction(held)

(* computeRealizedPnlToday: 0 without a snapshot.                           *)
RealizedPnlToday == IF snapshots = <<>> THEN 0 ELSE Head(snapshots)

Portfolio == [count |-> OpenCount, usd |-> OpenUsd, pnlToday |-> RealizedPnlToday]

(* isFunded: an unset address, or a failed call, is no money.               *)
IsFunded(r, readable) == readable /\ Balance >= SizeOf[r]

(* The paper route takes its account for funded; the live route asks for    *)
(* the wallet's balance, and has looked up wallet and opt-in before.        *)
Account(r, readable) ==
    [funded |-> ModeOf[r] = "LIVE" => IsFunded(r, readable),
     verified |-> TRUE, optedIn |-> ModeOf[r] = "LIVE"]

-----------------------------------------------------------------------------
(* assembleMarketAndPortfolio.  Of a live account it is not known yet       *)
(* whether it is funded.                                                    *)
Assembled(r, x) ==
    [signal |-> ManualSignal(r, x), market |-> SnapshotOf(x), health |-> HealthOf(r, x),
     portfolio |-> Portfolio, account |-> Account(r, FALSE), mode |-> ModeOf[r],
     asks |-> {}]

Assemble(r) ==
    /\ stage[r] = "new"
    /\ stage' = [stage EXCEPT ![r] = "assembled"]
    /\ \E x \in Readings :
          /\ input' = [input EXCEPT ![r] = Assembled(r, x)]
          /\ timeLeft' = [timeLeft EXCEPT ![r] = x.timeLeft]
          /\ waited' = [waited EXCEPT ![r] = 0]
    /\ fresh' = fresh \cup {r}
    /\ UNCHANGED <<decision, held, realized, snapshots, raced>>

(* The live route asks for the balance on the chain.                        *)
CheckFunds(r) ==
    /\ stage[r] = "assembled" /\ ModeOf[r] = "LIVE"
    /\ stage' = [stage EXCEPT ![r] = "funded"]
    /\ \E readable \in BOOLEAN :
          input' = [input EXCEPT ![r] = [@ EXCEPT !.account = Account(r, readable)]]
    /\ \E ms \in Waits :
          /\ timeLeft' = [timeLeft EXCEPT ![r] = @ - ms]
          /\ waited' = [waited EXCEPT ![r] = @ + ms]
    /\ UNCHANGED <<decision, held, realized, snapshots, fresh, raced>>

(* A request goes on to its second look at the book.                        *)
LooksAgain(r) == stage[r] = IF ModeOf[r] = "LIVE" THEN "funded" ELSE "assembled"

(* A read that throws ends the request with an error.                       *)
ReadFails(r) ==
    /\ stage[r] = "new" \/ LooksAgain(r)
    /\ stage' = [stage EXCEPT ![r] = "failed"]
    /\ input' = [input EXCEPT ![r] = Unread]
    /\ timeLeft' = [timeLeft EXCEPT ![r] = 0]
    /\ waited' = [waited EXCEPT ![r] = 0]
    /\ UNCHANGED <<decision, held, realized, snapshots, fresh, raced>>

(* prepare turns an approval without a price away, and stores the others.   *)
Outcome(r, d) ==
    IF ~d.approved \/ (ModeOf[r] = "LIVE" /\ d.maxPrice = 0) THEN "rejected"
    ELSE IF ModeOf[r] = "LIVE" THEN "prepared" ELSE "approved"

(* The summary is read a second time for the asks; evaluate follows at once,*)
(* on the countdown, prices and ages of the first reading.                  *)
Decide(r) ==
    /\ LooksAgain(r)
    /\ \E x \in Readings, ms \in Waits :
          LET in == [input[r] EXCEPT !.asks = SyntheticAsks(Summary(x.own))]
          IN  \E d \in {Evaluate(in)} :
                 /\ decision' = [decision EXCEPT ![r] = IF d.approved THEN d ELSE Undecided]
                 /\ stage' = [stage EXCEPT ![r] = Outcome(r, d)]
                 /\ input' = [input EXCEPT ![r] = IF d.approved THEN in ELSE Unread]
                 /\ timeLeft' = [timeLeft EXCEPT ![r] = IF d.approved THEN @ - ms ELSE 0]
                 /\ waited' = [waited EXCEPT ![r] = IF d.approved THEN @ + ms ELSE 0]
    /\ UNCHANGED <<held, realized, snapshots, fresh, raced>>

-----------------------------------------------------------------------------
(* What changes the portfolio.                                              *)
RequestedSize(r) == SizeOf[r]             \* wrong: the re-clamp forgotten
PlacedSize(r)    == Least(SizeOf[r], decision[r].maxSize)

(* placeOrder in paper mode: all, a part or nothing of the order is filled, *)
(* and the request is answered.                                             *)
PlacePaper(r) ==
    /\ stage[r] = "approved"
    /\ stage' = [stage EXCEPT ![r] = "placed"]
    /\ input' = [input EXCEPT ![r] = Unread]
    /\ timeLeft' = [timeLeft EXCEPT ![r] = 0]
    /\ waited' = [waited EXCEPT ![r] = 0]
    /\ decision' = [decision EXCEPT ![r] = Undecided]
    /\ \E usd \in 0..PlacedSize(r) :
          /\ held' = [held EXCEPT ![KeyOf[r]] = @ + usd]
          /\ fresh' = IF usd > 0 THEN {} ELSE fresh \ {r}
          /\ raced' = (raced \/ (usd > 0 /\ r \notin fresh))
    /\ UNCHANGED <<realized, snapshots>>

(* Settlement closes a position at 0 or 1: the stake is lost, or (for an    *)
(* entry at 0.5) won once more.  It writes the row's realized_pnl, and no   *)
(* portfolio_snapshots row: nothing in the repository writes one.           *)
Settle(k) ==
    /\ held[k] > 0
    /\ held' = [held EXCEPT ![k] = 0]
    /\ realized' \in {realized - held[k], realized + held[k]}
    /\ fresh' = {}
    /\ UNCHANGED <<stage, input, timeLeft, waited, decision, snapshots, raced>>

RequestStep(r) ==
    Assemble(r) \/ CheckFunds(r) \/ ReadFails(r) \/ Decide(r) \/ PlacePaper(r)

Next ==
    \/ \E r \in Requests : RequestStep(r)
    \/ \E k \in Keys : Settle(k)

Spec == Init /\ [][Next]_vars

-----------------------------------------------------------------------------
(***************************************************************************)
(* Properties.                                                             *)
(***************************************************************************)
(* RiskEngine.evaluate approves only what WithinLimits says, on what the    *)
(* request has read: also when the book moved between its two readings.     *)
ApprovedWithinLimits ==
    \A r \in Requests : decision[r].approved => WithinLimits(input[r], decision[r])

(* MinTime seconds, less those a countdown may be old, less those that have *)
(* to be left for an entry to be allowed: what the awaits may take.         *)
Slack == 1000 * MinTime - DEFAULT_COUNTDOWN_MAX_AGE_MS - 21000

(* A countdown may be DEFAULT_COUNTDOWN_MAX_AGE_MS old when it is read, and *)
(* its request awaits other answers before evaluate: still no order is      *)
(* approved that is by then too late for its market, but for a request that *)
(* has waited longer than the slack of the configuration, as nothing looks  *)
(* at the countdown again.  Nor is one approved while a part of the system  *)
(* that isHaltRequired names, the signer apart, was seen to fail.           *)
ApprovedIsAllowed ==
    \A r \in Requests : decision[r].approved =>
        /\ waited[r] <= Slack => EntryAllowed(timeLeft[r] \div 1000)
        /\ HaltReasons(input[r].health) \subseteq {"signer"}

(* Unless a request filled on a portfolio that had changed since it read it,*)
(* the user's exposure stays within maxPositionUsd and maxOpenPositions:    *)
(* the limits of the risk engine are exact without concurrency.             *)
ExposureWithinLimits ==
    ~raced => OpenUsd <= MaxPosition /\ OpenCount <= MaxOpenPositions
=============================================================================
