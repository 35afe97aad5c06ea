# A verification project for GrokPulse

GrokPulse is a trading terminal for Polymarket's 5-minute BTC and ETH markets: a
TypeScript monorepo of services that share PostgreSQL and Redis. This directory
holds TLA+ models of its order path, its risk gate, its market data pipeline, its
settlement, its agent, its backtester, its accounts and the live side of its web
terminal, the TLC instances that check them, and TLAPS proofs about them for any
number of requests, orders, positions and processes.

Paths below are relative to the repository; `PROJECT.json` has every definition with
the lines it models ("map"), every run, mutant, finding, hazard and theorem.

Contents: 1 Inventory. 2 Modules. 3 Runs. 4 Fairness and bounds. 5 Proofs.
6 What the models say about the code. 7 What is abstracted. 8 Not modelled.

## 1 Inventory

How the parts work together. The scanner discovers markets, the market stream feeds
books, trades and underlying prices into Redis and the tick tables, the signal engine
turns them into a signal (possibly with Grok), a request of the API turns a signal or a
manual ticket into an order, the risk engine approves it, the order manager submits it
through one of two execution adapters, and settlement closes what a market's resolution
decides. The API tells the web terminal what happened over sockets; the backtester runs
the same features, agent and risk engine over stored history. The services share the
tables `markets`, `orders`, `fills`, `positions`, `risk_events`, the Redis locks, the
Redis streams and the Redis market-state cache; no transaction spans two repository
calls anywhere, and each process has one Redis connection.

| Component | State | Operations | What is hard | Correct when |
| --- | --- | --- | --- | --- |
| Order manager (`services/trading-engine`) | the order lock in Redis, the rows of `orders`, `fills`, `positions`, the trail `risk_events` | `placeOrder`: look, lock, look again, insert, submit, reconcile, record, fold the fills, release | retries, exceptions, crashes, a lock that expires, between any two awaits | an order is submitted once, executes within its approval, moves forward, and ends in its position once, after its events; no lock is held for ever |
| Paper adapter | the row's status | the lifecycle with two sleeps, the match against the cached book | a cancel during a sleep | every order ends terminal |
| Cancel route (`DELETE /api/orders/:id`) | - | a read, then an unconditional write | a submission that runs | - (section 6) |
| Live orders (prepare, submit, `polymarket-execution-adapter.ts`, `rest-client.ts`) | the prepared record in Redis, the orders in flight, the exchange's decision | GET and DEL of the record, place, post, look up | two deliveries, a post that times out and is accepted later, a crash after the post | posted at most once; nothing posted that the database does not know; the row never denies the exchange; an accepted order is not hidden |
| Risk engine, sizing, kill switch (`packages/risk`) | none | 26 checks in order, a size that is the least of four, a walk of the book | sizes at the limits, thin books | an approval is within every limit |
| Risk input (`risk-input.ts`, `portfolio.ts`) | none of its own | the reads of a request before `evaluate` | stale caches, two readings of a book, requests of one user together | limits hold of what was read, and of what is without concurrency |
| Market scanner | the flags of `markets`, the stream `market.events` | `scanOnce`; one fetch of all pages | stale listings, pages that move, failures between row and event | flags never ahead of the exchange, a market announced once, a fetch complete and bounded |
| Settlement | `positions`, `markets.resolved` | `settleOnce` | a sweep that ends anywhere, two workers, late fills, the scanner's flags | no share paid twice or early, everything settled at last |
| Market stream, Polymarket WebSocket, Coinbase client | registry, subscriptions, books, pending volume, timers, sockets | event handlers, book and trade handlers, ticks, reconnects | handlers that overlap, answers lost by the group, sockets replaced in the middle of a subscription | the registry follows the rows, the socket the registry, a tick is of live books and counts a trade once |
| Redis connection, streams, cache, rate limiter | the commands in line, a cursor per group, a counter per name | blocking reads, acks, cached values with a maximum age, INCR and EXPIRE | everything waits behind a blocking read; INCR without EXPIRE | waits are bounded, ages too, a lock-out ends |
| Signal engine, Grok agent, xAI client | a conversation of turns, a signal, an audit trail | context, chat with retries, tools, validation, store, publish | six ways of failing in three layers | PASS after every failure, stored before published, audited, bounded, ended |
| Feature engine, backtester | replay indexes, a portfolio in memory | replay, features, trigger, agent, risk, fill, resolution, metrics | look-ahead, early ends of data, the order of resolutions | no decision sees the future, the balance is explained by the trades, metrics are what they claim |
| Accounts and wallets | users, reset tokens, login counters, nonces, wallets, the live switch | sign-up, log-in, reset, challenge, verify, enable, disable | check-then-act and read-then-delete by concurrent requests | owner of an address is proved, a token used once, the trail agrees with the switch |
| Stream broadcaster, WebSocket API | listeners, group cursors, lookups in flight | one loop per stream, lookups per client | lookups overtaken by later events, groups that cannot be created | a client sees its own, and at last the current |
| Web terminal | session, wallet panel, live ticket | log in and out, link, switch, trade | answers that arrive in another session | the order is the clicker's, "not placed" is true, the wallet shown is the account's |

## 2 Modules

An arrow points from a module to the one it extends.

```
OrderManager  <-  CancelRoute  <-  PaperTrading  <-  MCPaperTrading
                       ^                 \- implements OrderLedger
                       \-----  LiveTrading  <-  MCLiveTrading
RiskEngine    <-  RiskGate  <-  MCRiskGate
MarketScanner <-  Settlement  <-  ScannerEvents  <-  MCSettlement
                                         \- implements MarketEvents
MarketEvents, WsClient  <-  MarketStream  <-\
RedisLink               <-  PriceFeed     <-+- MCMarketStream
XaiClient  <-  GrokAgent  <-  SignalEngine  <-\
                             Discovery      <-+- MCAgent
                             MCBacktester   <-/
Replay      <-  BacktestMetrics  <-\
RiskEngine  <-  Features         <-+- Backtester  <-  MCBacktester
Accounts, Broadcast, WalletLink  <-  MCAccounts
                         \- implements AccountBook  <-  Terminal  <-  MCTerminal

OrderManagerProofs  <-  PaperTradingProofs, LiveTradingProofs
RiskGateProofs      of RiskEngine and RiskGate; Terminal; Replay, Features,
                    BacktestMetrics and Backtester
SettlementProofs    of MarketScanner, Settlement and ScannerEvents
MarketStreamProofs  of RedisLink and PriceFeed; WsClient and MarketStream
AccountsProofs      of Accounts; WalletLink; Broadcast
AgentProofs         of XaiClient, GrokAgent and SignalEngine; Discovery
```

A module of proofs holds those of several models where they share no state. Each model
is then proved about by itself: the assumptions of the others are hidden.

**OrderManager.** A call of `placeOrder` is a process `c`, `pc[c]` the await it stands
at; `IdOf[c]` is its clientOrderId. `lock[i]` is the token that Redis holds for order
`i` (`SET NX PX` is `AcquireLock`, the token-checked delete is in `ReleaseLock`, the TTL
is `LockExpires`), `status[i]` and `orderSize[i]` are its row, `position[k]` is the row
of a (user, market, side), kept as how often each call's fill is folded into it, and
`events` are the rows of `risk_events`. `FastCheck`, `Recheck`, `CreateOrder`, ... are
the awaits of `placeOrder` in their order; `ReadBefore`, `ReadCurrent` and
`WritePosition` are the two reads and the write of `applyFillToPosition`. `Throw` is any
await that rejects: inside the `try` it leads to the `finally` that releases the lock
(`unwind`). A statement that took effect although its reply was lost is a `Throw` at
the next program point. `Crash` ends a call where it stands. The adapter is a
parameter: `AdapterSteps` are its program points, from `submit` to `reconcile`.

`LeaseCovers` names an assumption of the code: the lock's TTL (30 s) is longer than a
submission. With `LeaseCovers = FALSE` a lock may expire under a running call. The code
has no fencing token and no renewal, so everything that rests on exclusion holds only
with it; where a property holds without it, its run or its theorem says so. The shared
Redis connection makes the assumption doubtful: a submission publishes three to five
events, each of which may wait behind the blocking reads of the API's four loops
(`LongestWait` of RedisLink, up to 20 s).

**CancelRoute.** `CancelCheck` reads the row, `CancelWrite` writes "cancelled".

**PaperTrading.** OrderManager with the paper adapter: the status updates of
`submitOrder`, one action each; `PaperMatch` is the book's answer and the `fills` row.

**OrderLedger.** What the above promises: an order is submitted by at most one call,
executes at most once and within its limit, and is booked at most once and only after it
executed. No lock, row, retry or crash appears in it. PaperTrading implements it
(`ImplementsLedger`) under a mapping that reads the executor from `submits`, the limit
from the order row, and the booking from the position row.

**LiveTrading.** OrderManager with the Polymarket adapter and the routes in front of it.
`ReadPrepared` and `ConsumePrepared` are the GET and the DEL of `consumeEphemeral`;
`ConsumePrepared` includes the checks that follow it, as a refusal that may happen.
`Post` sends an order; `ExchangeDecides` accepts or refuses it at any time afterwards,
whether or not anybody still waits; `PostResolved`, `PostRejected` and `PostAmbiguous`
are the three classes of answer the adapter tells apart, and `LookupFound` and
`LookupFailed` what it does about the third. `CanLookup = FALSE` is how the service is
wired today, which takes only lookups away. The signature check, the exchange and the
network are outside the repository, modelled from how the code uses them.

**RiskEngine.** `Evaluate`, `OrderSize`, `Depth`, `WorstPrice` in fixed-point
arithmetic: the 26 checks are the sequence `Checks` in the source's order, so that the
first failing one gives the rejection code. `WithinLimits` is what an approval means.
`HaltReasons` is `isHaltRequired` of the kill switch, which no service calls.

**RiskGate.** Requests of one user. `Assemble` is what `assembleMarketAndPortfolio` reads,
of cached values of every age; `CheckFunds` is the balance on the chain that a live
request awaits; `Decide` awaits the order-book summary a second time and evaluates on the
asks made of it and on everything else as it was assembled, and the prepare route turns
away an approval without a price. Either await takes one of `Waits` milliseconds, which
`waited` adds up. `PlacePaper` is a placed order with any fill up to the clamped size;
`Settle` closes a position.

**MarketScanner.** `exchange[m]` is what Polymarket lists of a market, `winner[m]` the
outcome, `rows[m]` the flags of its row, `log` is `market.events`. `FetchAllPages`,
`ListActive`, `FindPrior`, `Upsert`, `PublishItem`, `Vanish`, `PublishVanished` are the
awaits of `scanOnce`; `ScanFails` is an await that rejects, or a restart.

**Discovery.** One fetch, which MarketScanner takes as a step: `FetchAll` begins
`fetchAllPages`, `PageRead`, `NotAPage`, `CallFails` and `CallAgain` are what becomes of a
call of `listMarkets`, `Shift` moves the listing between pages, and as operators
what `normalize` parses and `normalizeAndFilter` accepts (`Scanned`).

**Settlement.** MarketScanner with the workers that settle and the fills that race with
them. `book[p]` is a row of `positions` with its size, average price and realized P&L,
`folding[p]` the copy an `applyFill` is working on, `open[w]` and `current[w]` those of a
worker. `ListExpiredUnresolved`, `Resolved` or `StillUnresolved`, `ListOpenForMarket`,
`ReadPosition`, `WritePosition`, `RecordSettlementEvent` and `MarkResolved` are the awaits
of a sweep; `SweepFails` ends one anywhere, by an exception or by a restart of the
process. `bought`, `late`, `settled` and `unrecorded` remember what happened, for the
properties only.

**MarketEvents** is what the listeners of `market.events` may rely on: every event comes
after the row it tells of, in the order of the writes, and may be lost. **ScannerEvents**
shows that scanner and settlement together implement it (`ImplementsEvents`), and
MarketStream is written against it, so that the scanner need not run beside it again.

**WsClient.** `sockets[s]` is the readyState of every socket that was ever opened and not
yet closed, `current` is `this.socket`, `timer` the armed reconnect, `wanted` is
`subscribedTokenIds`, `served[s]` what the exchange was asked for on a socket. Its
operators `Connect`, `Subscribe`, `Unsubscribe` are composed by the caller, `Opened`,
`SocketClosed` and `ReconnectTimer` are its event handlers.

**MarketStream.** `Start` and `Boot` are `start()`, which reads the active rows; `ReadNext`
is a batch of the consumer group, `Handle` its events one by one; `tracked` is the
registry, `books` the cached sides, `updates` the calls of `handleOrderBookUpdate` in
flight, each at the await it stands at (`BookArrives`, `Aggregate`, `Published`,
`TickInserted`, `TickFails`); `TradeArrives` adds volume; `Restart` is a new process with
the rows, the group and nothing else. An answer of Redis that is lost (`ReadLost`)
loses its batch: the group does not deliver it again.

**RedisLink.** `line[p]` is the queue of commands of a process's one connection. The first
has its turn; a read with BLOCK holds it for up to `Block` ticks (`Tick` is one unit of
waiting, `LinkTick`). `Answered` and `Lost` are the two ends of a command.

**PriceFeed.** RedisLink with what market-stream writes, the price of Coinbase's socket
and its countdowns, and with one request of the API that reads them: `PriceWritten`,
`CountdownsBegin`, `CountdownWritten`, and `RequestBegins`, `RequestReads`. After the
answer the request sends one command after another (`RequestSends`, `RequestGoesOn`,
`Trips` of them), the first of which is its second look at the book; then comes the
verdict, and after the last one the fill (`RequestFills`). Between two commands it may be
away for up to `MaxAway` ticks: at the database, the chain or in the adapter's sleeps.

**XaiClient, GrokAgent, SignalEngine.** `Fetch`, its answers and `Retry` are `chat()`;
`Body` reads the body, for which no timer runs (`BodyStalls`). A turn of the agent calls
tools (`ToolTurnEnds`) or is the last (`FinalTurnEnds`, `ChatThrows`); `AuditRun` and
`AuditCall` write the trail; the request reads its context (`ReadPrice`, `ReadContext`),
awaits the agent (`Analysed`), stores and publishes (`Store`, `Publish`). Nothing is shared
between two requests but tables that are appended to.

**Replay, Features, BacktestMetrics, Backtester.** `LoadDataset` shapes stored rows into
series; `SnapshotAt` is what the replay shows of them at an instant; `CalculateFeatures`
and the trigger's conditions decide whether the agent is asked; `Cycle` is one tick of one
market with all that follows from it (`Skip`, `Expire`, `Untriggered`, `AskAgent`),
`Truncated` what becomes of markets whose data end before they do, `ResolveMarket` the end
of a market, `Report` the result with its metrics. `queue` is the set of the cycles to
come, taken in the order `Before`, in which the code has sorted them. The searches and
walks of the code are recursive functions (`FilterAtOrBefore`, the curve of
`ComputeMaxDrawdown`) or sums. `Evaluate` is RiskEngine's. `BacktestAssumption` says what the
columns of the database and `getValidatedSignal` let through: prices of book rows are
above 0 and at most 1, and a signal's fractions are fractions.

**Accounts, WalletLink, AccountBook.** One action per await of `routes/auth.ts`, and of
`routes/wallet.ts` with `routes/account.ts`. `AccountBook` has one step per answer of the
latter; WalletLink implements it (`ImplementsBook`).

**Broadcast.** `stage[o]` is how far a paper order has come (row, event, row, event,
fill event, position), `events` are the two streams, `loops` and `cursor` the broadcaster
of each, `tasks` the database lookups a client's listener has started, `shown` and
`portfolio` what the client was last sent.

**Terminal.** One browser tab over AccountBook and the two live routes. A call reads the
token when it is sent, takes effect, and is answered, and in between the user does as he
likes; `Elsewhere` is the same account on another device. The network may deliver a
submit up to `MaxDeliveries` times; the API answers each delivery by itself, 409 and 410
among the answers (which the tab reads as expired), and the tab hears the first that
comes.

Definitions marked `wrong:` are the plausible mistakes with which the properties are
tried out ("mutants"): with the definition after one replaced by it, TLC finds its
property violated. They belong to no behaviour.

The MC modules give the constants their values. `MCMarketStream`, `MCAgent` and
`MCAccounts` hold two or three models that share no state: a variable chosen at the start
says which of them a behaviour is of, so that one run checks each of them on its own.

## 3 Runs

Distinct states are in parentheses. A property whose name ends in `Inv` is a conjunction
of named parts, which are given beside it: the module's type invariant where it has one
there, and the safety properties the component is correct by. `ScanInv` and `PaidInv` are
strengthenings of proofs, checked first by TLC. Every run also checks what its modules
assume of their constants. Where a property makes an exception, the exception is the one
way in which the code breaks it, kept in a variable marked (history): the property says
that there is no other.

| Run | Instance | Question and answer |
| --- | --- | --- |
| `paper_orders` (80,452) | one order, two calls, sizes 1..2, exceptions, crashes, TTL of dead holders, a cancel | The adapter is entered once (`AtMostOneSubmission`), what executes is within row and approval (`ExecutedWithinApproval`), statuses only move forward, but out of a cancel (`LifecycleForward`), every order whose calls are not lost ends terminal and every lock comes free (`OrderSettles`), every fill is in its position (`FillReachesPosition`), and the whole implements `OrderLedger`. Holds. |
| `paper_shared` (1,610,767) | three calls of two orders in one position, exceptions, the lock expiring at any time | `PositionInv`: a position never holds a fill twice, one that did not execute, or one of another key (`PositionHoldsOnlyFills`), nor one without its audit events (`PositionIsAudited`). Holds, even without `LeaseCovers`. |
| `live_submit` (22,833) | one prepared order, two deliveries to two processes, sizes 1..2, exceptions, crashes, ambiguous posts, a lookup, a cancel | `PostedOnce`, `RowMatchesExchange`, `PostedIsOnRecord`, `AcceptedIsSurfaced`: one post, recorded before it is sent, a row that does not deny what the exchange has, and that says what it accepted unless the posting call is still under way or was ended by an error or a crash. Hold. |
| `live_expiring` (87,129) | the same in one process, with a lock that expires under its holder | What is accepted is answered and recorded, unless the call is lost (`AcceptedIsRecorded`). Holds, even without `LeaseCovers`. |
| `risk_gate` (461,008) | three requests of a user, one of them live, in three positions; cached summaries and countdowns of every age, unknown values, unhealthy parts; awaits of 0 or 4 s; books that change; settlements | Approvals are within every limit of what was read (`ApprovedWithinLimits`) and not too late for the market, unless the request waited longer than `Slack` before `evaluate`, nor on a part seen to fail (`ApprovedIsAllowed`); the exposure limits are exact unless a request fills on a portfolio that has changed since it read it (`ExposureWithinLimits`). Holds. |
| `settlement` (1,477,365) | one market, one position, two workers, two scans, two fills, failures and restarts at every await | No share is paid twice or before there is a winner (`NothingPaidTwice`); a market that a sweep has marked resolved is settled to the last share and on record (`SettledExactly`), unless a sweep ended between a write and its event. `SettlementInv`: flags are never ahead of the exchange and a market is announced once (`FlagsAreGenuine` and `DiscoveredOnce`, which `ScanInv` contains), and every copy in a worker's or a fill's hands is sound (`PaidInv`). Holds. |
| `settlement_settles` (57,808) | one position, one worker that may fail at every await, two scans; closed markets listed as active or not | Whatever fails, a market with a winner is settled at last, unless it is delisted or the scanner takes it from the candidates (`SettlesAtLast`); scanner and settlement are MarketEvents (`ImplementsEvents`). Holds. |
| `market_stream` (1,269,499) | one market, two events, a book, a trade, a restart, two sockets; or one reader and a price feed in one process, two readers in the other, and either the countdowns or an order's request | A market is tracked exactly while its row is active, if its events were announced and heard (`TrackedFollowsRows`); what is asked of Polymarket is what is tracked, over every reconnect (`FeedFollowsTracked`). `StreamInv`: an end time is unknown only after a reactivation (`EndTimeUnlessRevived`); ticks are of books of the time it was tracked, unless it was dropped under an update or while the socket connected (`TicksAreOfLiveBooks`); a trade counts in one tick (`VolumeCountsOnce`). `PriceInv`: a command waits for no more than one read per loop (`WaitIsBounded`), the price feed never gives up (`FeedNeverGivesUp`), the cache is as old as that wait allows (`CacheIsFed`), so is the n-th countdown (`CountdownAge`). The price of a filled order was fresh when it was read, and is older by one such wait per command up to the fill and by the time in which none was in line (`FilledOnRecentPrice`). Holds. |
| `agent` (181,944) | one analysis, two turns of two attempts, two tools, failures everywhere, a crash; or a fetch of five kinds of entries, three pages of one, two attempts; or a backtest of two markets of two to four ticks, three histories of each, five answers of the agent, two values of the model | A buy is the model's own answer and a failure is the PASS that names it (`TradesAreAnswers`). `SignalInv`: calls of xAI are bounded (`CallsBounded`), an event is of a stored signal (`EventsAreStored`) with its trail (`StoredIsAudited`). `DiscoveryInv`: a fetch of a list that stands still is complete (`PagesCoverListing`) and bounded (`AsksAreBounded`), and only clear markets go on (`OnlyClearMarkets`). `RetriesEnd`: an analysis ends unless a body stalls (`AnalysisEnds`), and a fetch ends (`FetchEnds`). Of a backtest, `NoLookAhead`: a decision is of the past (`SeesOnlyThePast`), and so are fills if cycles are a latency apart (`FillsArePastIfApart`). `PortfolioAddsUp`: the balance is what the trades explain (`LedgerBalances`), open positions are within the limits (`OpenWithinLimits`), and none is left at the end (`AllRealized`). `ResultIsTrue`: `DrawdownIsDeepest`, `CalibrationIsHonest`. Holds. |
| `accounts` (568,321) | three requests at once, failing anywhere, of three names and two addresses, limit 2; or of two accounts, one address and two nonces; or three sockets, an order and a crash | An e-mail has one account unless two sign-ups raced for it (`EmailUnique`); a lock-out ends unless a crash fell between its two commands (`LockoutEnds`). `AccountsInv`: log-ins are limited (`AttemptsBounded`), a reset token works once unless read twice (`TokenUsedOnce`) and for its owner (`ResetReachesOwner`). `WalletInv`: a verified wallet was signed for by its user (`VerifiedIsProved`) with a nonce used once (`NonceUsedOnce`), and the live switch is on the trail (`SwitchOnRecord`); the whole implements `AccountBook` (`ImplementsBook`). `BroadcastInv`: a client is sent its own (`OnlyOwn`), at last the current, unless an event was lost or overtook a look-up or two pushes crossed (`ShownIsCurrent`, `PortfolioHoldsEvents`), and its listeners are served (`ListenersAreServed`). Holds. |
| `terminal` (3,332,207) | two accounts, two wallets, one live trade submitted up to twice, log-outs, reloads, another device | `SessionsApart`: a placed order is the clicker's, of the wallet that was in the browser and is verified (`OrderIsClickers`), and the wallet shown is the account's, unless it came with the answer to a link of a session that had ended, until the session changes again (`ShownWalletIsOwn`). When the ticket says that nothing was placed, nothing was, unless it says that an order expired of a submit that was delivered twice (`NothingPlacedWhenToldSo`). Holds. |
| `terminal_reports_failure` | one account, one wallet, one trade | `AcceptedIsShown` is violated. |

`CHECK_DEADLOCK FALSE` stands where the system may stop: requests are finitely many, a
backtest ends, bounded events run out. The settlement and terminal runs check deadlock.

## 4 Fairness and bounds

Fairness is weak and per call: Node's event loop runs every call that has not crashed,
every await of a call without faults resolves, a lock key has a TTL and Redis expires
it, and Polymarket answers (live only). Nobody is made to place, prepare, submit or
cancel anything. No property of the order path relies on a fault ceasing: with an
exception or a crash an order may be left "created" and no code resumes it, so the
liveness properties except the orders of a lost call, and only those. The agent and the
fetch are the same: every timer fires, so every await that has one ends; a body has none,
and `AnalysisEnds` excepts the body that stalls.

Settlement is the opposite: `settlement_settles` has faults at every await and relies on
repetition. The interval starts sweep after sweep (`ListExpiredUnresolved` and
`SweepDone` are weakly fair); an await that is tried again and again succeeds at last
(strong fairness of each), and a listing that says who has won is read at last. A
permanent fault of one market is a fault of all of them, because the exception leaves
the loop: that is why strong fairness, which excludes it, is named here.

The other runs have no fairness: their properties are invariants, and
`ImplementsBook` and `ImplementsEvents` are safety properties.

*Orders.* Two calls of an order are a submission and its retry in every position of the
interleaving, and three are needed only where a second order shares the position. All
properties about one order relate at most two of its calls (`AtMostOneSubmission` and
`PostedOnce` are stated over pairs), and orders interact only through a position: two
orders and one position is the smallest case where they do. Sizes 1..2 are enough for a
request above its approval, below it, and for a fill that is partial. Instances with
`MaxUsd = 1` have no partial fill but the empty one.

*Risk.* `One` is 20, so a price moves by 0.05, and the limits are small enough that each
of the four amounts of the size formula is the least one in some state, and each limit
can be reached exactly by some sequence of requests. `MinTime` is 30 s, the default, which
leaves a slack of 4 s: with `Waits` of 0 and 4 s a request waits as long as that, or less,
or longer.

*Settlement.* Two workers are the process and its replacement, which are all that a
restart can make run together; two scans (`MaxScans`) are one that believes a market
active and one that finds it changed; two shares (`MaxShares`), bought one at a time at
one price (`Price`, of `One` = 3, so that winning and losing differ), are a position that
is closed in part. Closed markets are listed as active (`ActiveIfClosed`); as either in
`settlement_settles`, which has one worker. Markets do not interact except through a sweep that fails, which needs
only one.

*Market stream.* The handlers of different markets touch different entries of every map,
so one market is enough; two events (`MaxEvents`) are a market that goes and comes back,
or is discovered and goes; two sockets (`MaxSockets`) are one that is closing and its
successor; a book for each side needs no second one, as the throttle and the mixing are
about the first after a drop (`MaxBooks`, `MaxTrades`); one restart meets every state. In
the price feed `Block` = 1 tick is one block time (2 s of market-stream, 5 s of the API;
time is counted in it on either side), `MaxAge` = 1, two active markets make a second
countdown, and two trips after the reads are the second look at the book and a command
between verdict and fill, with a tick (`MaxAway`) away from the line. Countdowns and
requests meet only in how long a price may wait to be written, which a request takes as
it comes: a behaviour of the run has one or the other, the theorems both. The API's own
connection is not lost: its requests then fail, which RiskGate has.

*Agent, backtest.* Two turns are one that calls tools and one that may not; two attempts
are one that is retried and one that is the last. Requests share nothing, so one is
enough. Three pages of one entry put the cap (`MaxPages`) at an entry, and five entries
are one of each kind. Two markets have their cycles interleaved; two to four ticks are
needed for a delayed fill, a stop before the end, and ticks nearer than the latency.

*Accounts, terminal.* Three requests are a race of two and a third that undoes or
overtakes it; limit 2 is reached and exceeded by three. Two sockets of three are the two
of one user, or one of each user. One trade, two accounts and two wallets cover every
mixture of whose click, whose session and whose wallet; two deliveries (`MaxDeliveries`)
are one that places the order and one that finds it taken.

Symmetry (workers, readers of the API, requests, accounts and wallets) is used only in
runs without liveness properties.

## 5 Proofs

`tlapm` checks all of them. Each holds for every value of the constants that satisfies
the module's named assumptions.

*OrderManager, with any adapter that has the paper adapter's or the live adapter's
shape.* That an order is submitted once is not inductive: it says nothing of the call
that is about to submit. `IdempotencyInv` is: the call in the critical section holds the
token (`TokenHeld`), between re-check and insert the row is absent (`StillAbsent`),
between insert and submission nobody has submitted (`NotSubmitted`), whoever is past the
submission is counted (`SubmitsKnown`), and whatever was submitted has its row, with
the size it was submitted with (`SubmitsPersisted`). A second call of the order can then
pass the re-check only before the first one's insert, when the lock is the first one's.
`OrderManagerProofs` has the lemmas, one per operation; `PaperTradingProofs` and
`LiveTradingProofs` add the adapters:

- `PaperTypeCorrect`, `LiveTypeCorrect`: type correctness.
- `IdempotencyInvariant`, `LiveIdempotency`: `IdempotencyInv` is an invariant of either
  path, if `LeaseCovers`.
- `LockExclusiveHolds` (one call at a time is in the critical section of an order),
  `AtMostOneSubmissionHolds`, `ExecutedWithinApprovalHolds`: the
  consequences, for any number of calls, orders, positions, exceptions, crashes, cancels.
- `BookInvariant`, `PositionHoldsOnlyFillsHolds`, `PositionIsAuditedHolds` and, of both,
  `PositionInvHolds`: without any lock. `BookInv` says of the row and of every copy a fold has read of it what the
  properties say of the row, and adds what has been recorded of a call by the time it
  reads (`OnTrail`): a call that writes is then in no copy but as itself, once.
- `PostInvariant`, `PostedOnceHolds`, `RowMatchesExchangeHolds`: with `PostInv` (posts
  are counted, a result is given once and agrees with the post, a row only repeats a
  result) no order is posted twice and no row denies what the exchange holds, for any
  number of deliveries and processes.
- `StageInvariant`, `LifecycleForwardHolds`, `ImplementsLedgerHolds`: `StageInv` relates,
  of each order, the row's status, its fill, what the call in the adapter will write next
  and what a cancel in flight has read. With it every write moves the row forward, and
  every step of PaperTrading is a step of OrderLedger or a stutter. Both if `LeaseCovers`,
  the refinement also if orders have positions of their own (`SeparatePositions`; of a
  shared one a racing write may lose a booking, section 6).
- `PostedIsOnRecordHolds`, `AcceptedIsSurfacedHolds`: with `RecordInv`, what a call has on
  record before it may submit, and `SurfaceInv`, that a row somebody has submitted is
  rewritten by that call's own reconciliation or a cancel only. Both if `LeaseCovers`.

*The risk engine.* `EvaluateSound`: for every configuration the schema admits and every
input, whatever the book looks like, an approval satisfies `WithinLimits`. The argument
follows the code: an approval has no failed check; the size is at most each of the four
amounts (`SizeWithinCaps`); a book with enough depth has a lowest price that covers the
size (`LeastElement`, `WorstPriceCovers`), which is what the walk returns and what the
slippage check has compared. `GateTypeCorrect` and `ApprovedWithinLimitsHolds` carry it
over to every interleaving of requests and settlements: the input kept with an approval
is the one it was evaluated on. `ApprovedIsAllowedHolds` adds the clock: a countdown is
at most 5 s old when it is read and an entry is allowed down to 21 s, so that of the
configured minimum what exceeds 26 s is left for the awaits before `evaluate` (`Slack`; 4 s
of the default, 30). A request that waits longer is the exception: the code puts no bound
on the chain's answer, and does not look at the countdown again.

`ExposureWithinLimitsHolds`: that one approval was within the limits says nothing of ten
that fill. `ExposureInv` adds, to the sum and number of what is held, what an approved
request on an unchanged portfolio has read: then it is still the sum and the number, and
what was approved fits on top of it; a fill on a portfolio that has changed is the
exception of the property. From `StartsWithinLimits`: the first portfolio is within them.

The sum of a function is a fold that chooses its order. That it is a number at all, is
changed by one entry as the entry changes, and does not depend on the order, is an
induction over subsets of a finite set (`EverySubset`: of those without the property one
would be minimal), and that the recursive function it is chosen from exists, an induction
over numbers (`EveryNumber`, `SumExists`, `SumOf`, `SumChange`).

*Settlement and scanner.* `NothingPaidTwice` is about the table, but the worker and the
fill write back what they computed from a copy they read earlier. `PaidInv` therefore
says the same of every copy (`Sound`): some number of the bought shares has been paid,
each at the outcome, the rest are in the row at the price they cost. A racing write can
then only forget shares or payments, never add one (`OpeningSound`, `ClosingSound`,
`SoundKeeps`: the arithmetic; `FillWritesSound`, `CloseWritesSound`: the two writes).
`ScanInv` relates the scanner's listings, rows and events. `SettlementInvariant` is
that of their conjunction with the types, `SettlementInv`, for any number of markets,
positions, workers and scans; `NothingPaidTwiceHolds`, `FlagsAreGenuineHolds`,
`DiscoveredOnceHolds` and `SettlementTypeCorrect` follow. `SettledExactlyHolds` needs the
opposite, that nothing is left out: `ExactInv` says of a position of which nothing was
bought too late that its row, and every copy a fill or a worker has in hand, is all that
was bought or paid in full and on record, and that a worker's list has either all of it or
only what is paid; a second worker and a scan at every await keep that.
`ImplementsEventsHolds`: with `EventsInv`, that whether a market has a row is still what
the scan has read when it writes (nothing takes a row away, and no worker marks one that
is not there), every step of the scanner, the workers and the exchange is a step of
MarketEvents or a stutter.

*Market stream.* Three invariants, one per layer. `RowsInv` (`TrackedFollowsRowsHolds`):
what the registry holds of a market is its row, as far as the events it has not handled
yet leave it. `SocketInv` (`FeedFollowsTrackedHolds`): of all sockets at most one is open
or opening and is the current one, a reconnect timer runs only beside none, and what is
served on it is what is wanted. `TicksInv` (`StreamInvHolds`): an old book, in the cache or
in an update in flight, is of a market that was dropped under an update, and what is
inserted, in flight (a sum over the sequence of updates, `Sums`) and still pending is the
volume of the trades, or less if some was lost.

*Redis connection and prices.* `PriceInvHolds`, `FilledOnRecentPriceHolds`. That a
command waits no longer than one read of each loop is not inductive. `FeedInv` has, for
every command in line, that it has waited no longer than a read of each loop that is not
ahead of it any more, and the turn of the first (`Waits`); a loop is in line once, because
it awaits one read before it sends the next (`Single`). The age of the cache, of a
countdown and of what a request has read is bounded through the waits that came before;
of a request, `ApiLine` bounds the age of its price less the time it was away.
Assumed: finitely many readers, which belong to one process or the other, and at least
one command after the read (`Trips`).

*Agent.* `AnalysisInvariant`: `AnalysisInv` has, per request, how client, agent and route
fit together at every await: how many attempts and turns are spent, that a verdict is of
the last answer or of the failure that ended the chat, that the trail is of the calls
made, and of every row of `signals`, which request stored it. It gives `SignalInvHolds`
and `TradesAreAnswersHolds`, for any number of requests, turns, attempts and tools.

*Discovery.* `DiscoveryInvHolds`: `FetchInv` says that what has been read is what is kept
of the listing up to the cursor, and that a page's attempts account for the calls. The
loop that keeps some entries (`Kept`) is a recursive function: that it exists is shown by
induction over its length (`KeptExists`), as is that what is kept of two pages joined is
what is kept of each (`KeptOfJoined`).

*Sign-in.* `AccountsTypeCorrect` (a call at an await carries a request of the kind that
has it), `AttemptsBoundedHolds` and `LockoutEndsHolds` (`AttemptInv`: what the limiter let
through is at most what it counted), `TokenUsedOnceHolds` (`TokenInv`: a token that was
mailed and is gone was read by whoever resets with it), `ResetReachesOwnerHolds`
(`OwnerInv`: a token, a look-up and a password are of one account, whose address does not
change), `EmailUniqueHolds` (`EmailInv`: of an address nobody raced for there is one owner
or one sign-up about to insert it, not both), and `AccountsInvHolds`, the conjunction the
run checks.

*Wallets.* `WalletTypeCorrect`, `NonceUsedOnceHolds` (`NonceInv`: nonces are numbered,
each is of one user and address, and one that passed is deleted), `SwitchOnRecordHolds`
(`SwitchInv`: of an undisturbed account the one request between its writes is the one the
flag is from), `VerifiedIsProvedHolds` and `ImplementsBookHolds` (`LinkInv`: what each
verification knows at each await, and that every verified row has a signed challenge of
its own user), and `WalletInvHolds`. `ImplementsBookHolds` shows that each step of
WalletLink is a step of AccountBook or a stutter.

*Broadcaster.* `BroadcastInvHolds`: `SocketsInv` says, of each client and order, what each
look-up in flight has read, what the group has still to deliver, and what the client was
last sent; the last is current unless an older look-up was overtaken. Orders are finitely
many (`BroadcastAssumption`), because a portfolio is a finite set of them.

*Terminal.* `SessionsApartHolds`, `NothingPlacedHolds`: `TabInv` says that what a trade was
prepared for belongs to the account of its click, whoever is logged in by now, that its
browser wallet had been compared with that before anything could be placed, and that a
trade that was placed can only read as failed, never as not placed, but for one that was
delivered twice and reads as expired (`DeliveriesFit`).

*Replay.* `SnapshotIsOfThePast`: what the replay shows at an instant is what it would show
if every series ended there, for series of any length. A sort puts every item in one place
and the places in the order of time (`ChronologicalSorts`: an item's place is the number
of those before it); of a sorted series, the binary search finds exactly the items up to
the instant (`SearchFinds`, by induction over the width of the window, and
`FilterIsPrefix`, which also shows that there is a function that searches so).

*Backtester.* `BacktestInvariant`: `BacktestInv` is an invariant for any markets,
histories, answers, balance, latency and fees. None of the three properties is inductive:

- Of the ledgers, `LedgerBalances` says nothing of the cost of one position against its
  fills. `PositionsInv` does, and `FilledSums`, `ResolvedSums` and `ClosingAdds` show what a
  fill and a resolution change of each sum. That a fill costs no more than what was
  approved, at whatever book it finds, is `SimulateFillIs`: with `EvaluateSound` the open
  positions stay within the limits (`FillKeepsLimits`).
- That all is realized at the end needs `LeftOver` (a market that is neither resolved nor
  without ticks is still to be looked at) and that a position is of a market with ticks
  that is not resolved; that nothing is resolved twice, `TradesInv`.
- That fills are of the past needs to know where each comes from: a latency after a tick
  that precedes all cycles of its market still to come (`FillIs`). If ticks are a latency
  apart, it is there by the next one.

`PortfolioAddsUpHolds` and `NoLookAheadHolds` follow. `ResultIsTrueHolds` adds what the
loops of the metrics compute: the deepest fall up to the k-th trade, from the one up to
the trade before (`StandsExtended`, `DrawdownIsTheDeepest`), and that the buckets of the
calibration are disjoint, are what they say and leave out only what they count as excluded
(`BucketIs`, `EverySampleOnce`). TLC has checked `BacktestInv` as an invariant of the `agent`
instance too. It is no property of that run, because it contains what the three say.

*Model-checked only.* The liveness properties `OrderSettles`, `FillReachesPosition`,
`AcceptedIsRecorded`, `SettlesAtLast` and `RetriesEnd`, which are out of the prover's
reach. Every invariant and action property of the runs that pass is proved.

## 6 What the models say about the code

One run contradicts something the repository says of itself and is a finding in
`PROJECT.json` with the quoted lines: `terminal_reports_failure`. The API answers a live
submit with `{order, fills}` (`orders.ts:490`), the web client parses another shape
(`apps/web/lib/api/auth.ts:145-151`), and the ticket shows FAILED for an order that is on
the exchange.

What else the code does otherwise than it says, or than one may expect. The models contain
all of it; where a property comes near, it names the case as its exception.

*Orders.*

- A cancel that races with a submission overwrites its terminal status, and the other way
  round: a cancelled order goes live and fills, a filled one ends cancelled
  (`paper-execution-adapter.ts:231`, against its comment and the test at :177).
- Cancelling a live order goes through the paper adapter (`orders.ts:508`), not through
  `polymarket-execution-adapter.ts:194-196`: the row says "cancelled", the exchange has
  the order.
- Two orders of one (user, market, side) lose a fill or fail on the unique index
  (`positions.repository.ts:50`, `schema/orders.ts:68`): the order lock is per
  clientOrderId, `applyFill` has no other.
- Fills of a live order arrive through a listener (`polymarket-execution-adapter.ts:162`)
  that no service implements: a live order never has fills or a position.
- An order that is filled in part and then expires has fills and a position, and no
  ORDER_FILLED event, because events follow the final status (`order-manager.ts:176-177`).
- When the lease expires under a running submission, `findOrCreate` is not the second
  layer the comment at `order-manager.ts:135-137` expects: it returns the existing row,
  and the second call submits it.
- The in-process duplicate guard answers 409 (`rest-client.ts:186`), which the adapter
  takes for a refusal by the exchange; without `LeaseCovers` that rejects an accepted
  order's row.
- `consumeEphemeral` is GET then DEL (`lib/ephemeral-store.ts:40-41`), and its comment
  and `orders.ts:371-373` call it single use: two deliveries may both get the record.
  The lock and the row then keep the order from being posted twice (`PostedOnce`). The
  second is answered with the row as it stands: "created", of an order the exchange has
  accepted, if the first is still at it or was ended by an error or a crash (the
  exception of `AcceptedIsSurfaced`).
- The submitted order's amounts and price are not compared with the prepared ones
  (`lib/signed-order.ts:63-90`), although the comment at :58-60 speaks of the prepared
  order; token, signer and side are.

*Risk.*

- The daily loss limit never takes effect in the API: today's P&L is read from snapshots
  nothing writes (`risk-input.ts:68`, `:111`; the check is `risk-engine.ts:287-288`).
- Concurrent requests of one user can exceed the position limits together
  (`risk-input.ts:67`); `ExposureWithinLimits` says that nothing else does.
- The funding check is about the requested size (`orders.ts:311`, `risk-input.ts:282`),
  the prepared order about the engine's own.
- The asks of a decision are one synthetic level of the summary's depth, which counts bids
  and asks together (`orderbook.ts:65-67`, `order-book.ts:26-31`): it overstates what a
  buyer can take, and slippage is only seen when the best ask moves between two readings.
- `risk-input.ts` computes the ages of cached values with the time it noted before it
  read them, so a value may be older than the limit by the wait for the reads. Between
  these and `evaluate` it awaits the chain (live, `:282`) and the second summary (`:220`,
  `:324`), and the paper adapter sleeps before it matches: nothing looks at countdown or
  price again. A request that waits longer than 4 s under the default configuration may be
  approved when entries are disabled; the price of a fill has no bound on its age but in
  terms of these waits.
- `isHaltRequired` (`kill-switch.ts:36-39`), described as a pre-flight check, has no
  caller; it would halt every paper request, as `risk-input.ts:194` reports no signer.
- `order-sizing.ts:29-31` says that a signal just above the thresholds gets half of the
  base size; the three factors are at least 0.5 each, and it gets an eighth.

*Scanner and settlement.*

- The scanner writes `resolved` from the exchange's answer (`market-scanner.ts:240`,
  `markets.repository.ts:57`), and settlement selects markets by it (`db-adapters.ts:36`,
  `settlement/src/types.ts:24-25`): whichever of the two polls first decides whether the
  positions of a market are ever closed.
- A scan publishes what differs from the row (`market-scanner.ts:256-262`): when a sweep
  has marked the row first, nothing differs, no MARKET_LIFECYCLE_CHANGED is published,
  and the market stream is not told, against `market-stream-service.ts:212-214`.
- A scan that read the exchange before a sweep finished resets the flags the sweep has
  written (`markets.repository.ts:55-57`); the next scan, or sweep, mends it.
- A failure between `upsertByConditionId` and `publish` loses the event for good
  (`market-scanner.ts:226-253`): `DiscoveredOnce` says "at most", not "exactly".
- Two workers may both record the close of one position, with the P&L of both
  (`settlement-worker.ts:236-240`); the position itself is paid once.
- A fill that is folded in after a market was settled opens a position that no sweep
  closes (`positions.repository.ts:50`, `db-adapters.ts:36`).
- A sweep that throws for one market leaves out those after it, against the comment at
  `settlement-worker.ts:142-147`.
- A page whose entries move between two calls hides or repeats a market;
  `PagesCoverListing` says that only this and the cap do. `Retry-After` is parsed and
  never used.

*Market data.*

- A consumer group reads ">" only: a batch that was delivered to a process that died, or
  whose answer was lost, is never handled, against "at least once" (`streams.ts:81-86`).
- A market reactivated by a lifecycle event is tracked with the end time 1970
  (`market-stream-service.ts:432`) and has no time left until a restart.
- All commands of a process wait behind its blocking reads (`client.ts:29-33` means to
  "fail fast rather than pile up"): a cached price can be two block times older than its
  stamp says, the countdown of the n-th market n of them, against a limit of 5 s.
- `features.ts:66` and `replay-engine.ts:93-94` take a tick's volume for a cumulative one,
  `data-loader.ts:114-123` and `agent-context.ts:93-96` deliver one per interval.

*Agent and backtest.*

- The timeout of `xai/src/types.ts:117-119` is per attempt, but the body is read after
  it is cleared (`client.ts:139`): a body that stalls keeps the request for ever.
- `trigger.ts:29-48` says "since the last trigger"; the comparison is with the last cycle.
- A simulated fill takes the book of `now + latency` but enters the portfolio at `now`
  (`backtest-runner.ts:465`, against :430-432 and `replay-engine.ts:10-11`): cycles
  nearer than the latency see it early (`FillsArePastIfApart`).
- Simulated cash may go negative, as nothing compares a fill with it. `netPnl` leaves out
  fees. `maxDrawdownPct` is the largest percentage (`metrics.ts:49-50`), not the one
  at the deepest drawdown (:34-36). `calibration.ts:33-39` says that every sample is at
  least 0.5; of a side bought with a lower prediction it is not, and is excluded.

*Accounts and terminal.*

- Two sign-ups at once can get one e-mail address, which no index forbids
  (`auth.ts:73`); a crash between INCR and EXPIRE locks a name out (`rate-limit.ts:35`).
- A reset token "can never be replayed" (`auth.ts:180-183`), and the store's record can
  "never be usable twice", unless two requests read it before either deletes it.
- An address is "only ever linked to one account" (`schema/users.ts:64-66`), up to its
  spelling: `wallet.ts:111-124` compares case-sensitively.
- Two switches of live trading that cross, or a crash between write and event, leave an
  opt-in that the audit trail contradicts (`account.ts:48`). Live trading that is
  switched off between prepare and submit does not stop the submit.
- Answers to a link or a switch are written into whatever session is there when they come
  (`WalletLinkPanel.tsx:47`, `LiveTradingControls.tsx:25-27`).
- `authStore.ts:86-90` and `:107-111` say that the account page fetches the state again
  after a reload; no code does.
- A submit that is delivered again is answered 409 while the first delivery is placing the
  order (`orders.ts:460-462`) and 410 after it (`:378-383`). The ticket takes both for
  expired and offers another try (`apps/web/lib/live-order.ts:84`, `OrderTicket.tsx:251`),
  although the first one's order may be on the exchange: the exception of
  `NothingPlacedWhenToldSo`. A token that the server no longer takes makes the ticket say
  that the order expired.
- Every 200 of the live submit, that of an order the exchange refused included
  (`orders.ts:490` with a rejected row), is shown as a failed submit.
- `ws.ts:120` marks every fill PAPER; `pushPortfolio` has no catch, so a rejected lookup
  ends the process; portfolios are pushed on events that precede the write of the
  position; the "fresh" row of `ws.ts:107-112` may be sent after a later event.

## 7 What is abstracted

- Amounts are small whole numbers; the risk engine computes with doubles, RiskEngine
  with integers, rounding a product down. Statements about limits are therefore about
  exact arithmetic, not about the last bit of a double.
- Prices, fees, texts and times are left out of the order modules; the fill of a paper
  order is any amount the book may offer. Sleeps and back-offs have no length: a cancel,
  an exception or an expiry may come at any time.
- An entry price of 0.5 stands for all in `Settle`: a position is lost or won once more.
- In `Settlement` a position buys one share per fill, all at one price, and no fill
  closes (`applyFill` with `isOpening: false` has no caller). Of two fills of a
  position the second starts after the first. Sizes below the dust threshold are none.
- The pages of a discovery are read in one step of MarketScanner, from which any markets
  may be missing (Discovery has the pages); a winner is YES or NO.
- A request's day does not change, so P&L of today is P&L.
- `publishEvent` trims a stream to about its greatest length (`redis/src/streams.ts:34-38`).
  The models trim nothing: they have few events. In the code a group that is behind by
  more than that length loses the oldest, as it does a batch whose answer is lost, which
  is modelled (`ReadLost`, `DropsRest`).
- The rate limiter counts per name and address of the client; the models have one client
  address, so a name is a counter. The WalletLink instance has one wallet address: that
  two spellings of an address are two is not exercised there.
- The contents of books are left out of MarketStream: whether a side is there, and which
  of them are of an earlier time. Prices of PriceFeed are their ages.
- A completion of the model is what its reader tells apart: how many tools it calls, or
  what its content parses to. Volatility and the normal distribution are any number.
- Password hashes, token formats, signatures and their verification, a wallet's balance,
  and what Polymarket, Coinbase and xAI answer are external.
- `findOrCreate` and `fills.create` are one step each; rows are never deleted.

## 8 Not modelled

| Part | Why |
| --- | --- |
| Read-only API routes, health, metrics | queries and formatting; they change no state |
| Shared types, configuration, logging, schema | declarations with no behaviour of their own |
| Infrastructure, continuous integration | containers and pipelines |
| `cancel-flow.ts`, the closing branch of `applyFill`, `getOrderBook`, `getTrades`, `cancelOrder` of the REST client | no service calls them |
| Sockets of markets and of signals in `ws.ts` | they forward what the broadcaster hands them, without a lookup that could be late |
| Volatility, regressions, logarithms of the feature engine; means and deviations of the metrics | functions over doubles, without state, out of TLC's reach |
| Command line of the backtester, fixtures | input and output |
| Charts, tables and pages of the web terminal | presentation |
| Prompts and tool contents of the agent | data that no decision of the code depends on, but through the answer |
