# A TLA+ model of predictfun-poly

predictfun-poly looks for pairs of complementary binary markets on two venues, Predict
and Polymarket, and buys both sides when together they cost less than they pay. There is
one Polymarket account and up to ten Predict accounts; a Predict account that has bought
is held back until its position is redeemed. What can go wrong is mostly a matter of
order: two legs answered in any order or not at all, callers and jobs that share account
records across awaits, a lock with a time to live, restarts. The rest is a matter of
boundaries: which two listings are the two sides of one question, how much of two books is
worth buying with what two accounts hold, how much of an exposure a hedge takes away. This
directory models both in TLA+, checks them with TLC on small instances and proves the main
invariants with TLAPS for every number of accounts, callers, runs, wallets and amounts.

Paths below are relative to the repository (`src/accounts/rotator.ts` is
`src/src/accounts/rotator.ts` in `PROJECT.json`).

## 1. Inventory

| Component | State | Operations | What is hard | What makes it correct |
|---|---|---|---|---|
| Account rotator `accounts/rotator.ts` | one immutable record per account (status, held position, open orders, cooldown, lock handle), `lastIndex` | `reserve`, `select`, `selectForTrade`, `release`, `markHeld` and the other setters, `advanceHeldStateByTime` | `selectForTrade` awaits the balance, the positions and the lock for each candidate; other callers and jobs replace the same records in between | one trade per account; no account traded with an unsettled position; a held position is never forgotten |
| Redis locks `locks/redisLocks.ts` | key `predict_account:{id}` with token and time to live | `acquire` (SET NX PX), `release` (compare and delete) | expiry under a holder; replies that get lost | only the holder deletes the key |
| Jobs `jobs/audit-positions.ts`, `jobs/redeem-settled.ts`, `jobs/refresh-balances.ts` | none of their own | read the venue, then write the rotator's records | answers applied after an await; unconditional `release` | release only what the venue has paid |
| Coordinator `execution/coordinator.ts` | none between runs; shares the rotator | `runOnce`: discovery, per match: pick, size, reserve, place both legs, rescue, record, finish | overlapping runs, `Promise.all`, exceptions of venues and sinks, restarts, delayed orders | one run per account; equal legs or a pause; a filled account is held |
| Safety rules `execution/safety.ts` | none | `confirmOrderFill`, `reconcileExecutionSafety`, `buildResidualRescueOrder`, `validateConservativeOrderPlan` | every combination of fills, confirmations and attempts | a residual pauses or is rescued |
| Order reports `execution/flow.ts`, `core/state-machine.ts` | hedge state | `reconcileConfirmedOrderReports`, `reconcileOrderReports` | REST and WS reports reordered, duplicated, late | a final judgement is what the venues have |
| Order rows `ws/order-events.ts`, `jobs/reconcile-orders.ts` | order rows | apply private events, reconcile after a restart | rows written back from a captured copy | a final state stays final; no fill is lost |
| Residual rescue `execution/rescue.ts` | none | `rescueResidual` | picks an account from the rotator | never more than the residual, never at more than the allowed loss |
| Websocket manager `ws/manager.ts`, `execution/liveness.ts` | connection state, sequence per channel, window of seen keys, times | `acceptEvent`, `markDisconnected`, `isStale`, ... | reconnects, renumbering, evicted keys | no event twice, none lost for good |
| Python executor, coordinator and rotator `predictfun/execution.py`, `coordinator.py`, `accounts.py` | rotator records | `execute` (legs one after the other, polling), `run_once`, `release`, `mark_held` | delayed legs that fill after polling gave up; exceptions between legs | an account with a fill is held; no leg bought twice |
| Wallet manager `wallet/wallet-manager.ts` | wallets, reservations per plan | `reserveForPlan`, `releaseReservation`; the wallets' page | partial releases, several plans, rounding; a record made with other settings than the page's | reserved is the sum of the reservations; the page covers the plan |
| Plan store and dry-run worker `storage/hedge-plan-store.ts`, `workers/dry-run-hedge-worker.ts` | latest file, history file | write, append, read; the loop | crash or reader in the middle of a write, diverging files, stop signals | readers see a whole plan; the history has what was published |
| Sizing and choice of a trade `arb/engine.ts`, `risk/manager.ts`, `predictfun/engine.py`, `predictfun/risk_manager.py` | none | `sizeCombo`, `chooseTrade`; `size_buy_complement`, `choose_trade` | walking two unsorted books at once; budgets spent at prices that depend on the size; two programs that should agree | within every budget and cap; the same trade of both programs |
| Markets `core/market-classification.ts`, `markets/`, `matching/`, `core/hourly-btc-market-matcher.ts`, `predictfun/matching.py` | none | classify, normalise, match, scan, discover | fields missing or stated twice, in two ways; time that passes between scan and trade | the two contracts of a pair settle alike |
| Hedge planner `hedge/`, `risk/hedge-risk.ts`, `strategy/exposure-hedge.ts` | none | `calculatePredictExposure`, `planExposureHedges` | netting, three limits on a size, two spellings of a setting | a hedge goes against the exposure, within it, on fresh data |
| Market maker `strategy/simple-market-maker.ts` | none; its caller holds the inventory | `buildSimpleMarketMakerSignal` | fills between evaluations, clamping of prices | bounded inventory; the next quotes lean against what was filled |
| Rate limiter `predictfun/rate_limit.py` | tokens, time of the last refill | `try_acquire`, `seconds_until_available` | a clock that steps back, a bucket that overflows | grants no more than a bucket and its refills |
| Other strategies `strategy/strategy-engine.ts`, `hedge-engine.ts`, ... | none | functions of a snapshot | merging of intents | respect the caps |
| Adapters, persistence, server, analytics, monitoring, configuration, frontend | views, parsers, wiring | | strings and I/O | |

The components meet in the rotator's records. `runOnce` and `selectForTrade` take
accounts out, `finishPredictAccount` and the callers of `selectForTrade` put them back or
hold them, the audit job holds what the venue shows, the redeem job frees what the venue
has paid. Nothing else serialises them than Node's event loop, which switches at every
`await`, and, in `selectForTrade` only, the Redis lock. `PROJECT.json` lists the hazards
this gives rise to, each at its line, with the properties that cover it.

## 2. Modules

| Module | Models |
|---|---|
| `PredictAccounts` | a record of the rotator and what each of its methods writes into it, as operators from record to record |
| `SettlementJobs` | the life of a held account apart from trading: its market, `advanceHeldStateByTime`, `redeemSettledJob` |
| `PredictRotator` | `selectForTrade` with concurrent callers, the Redis lock, and the trades the callers make |
| `ExecutionSafety` | the pure rules of `execution/safety.ts` |
| `HedgeCoordinator` | overlapping runs of `runOnce`, the audit job, restarts, orders that outlive their call |
| `AccountLifecycle` | the abstract promise for one account, which `HedgeCoordinator` implements |
| `OrderReports` | the judgement of a hedge by reports that come late, twice, out of order or not at all |
| `TwoLegExecution` | the Python coordinator, executor and rotator |
| `WsManager`, `WsConnection` | what the websocket manager keeps, as operators; the connection it reports on |
| `OrderFeed` | order rows fed by the events the manager lets through and by the reconcile job |
| `HedgePlanStore` | the files of the plan store and the operator log, as operators: torn, cut off, joined lines |
| `DryRunWorker` | the loop of the dry-run worker, its signals, kills and restarts, and the dashboard that reads |
| `ResidualRescue` | `execution/rescue.ts` asked again and again while legs and rescue orders fill |
| `MarketClassification`, `MarketMatching` | what is read from a listing; which pairs the matchers of both programs take, and when a trade of them is let through |
| `Fractions`, `RiskConfig` | exact fractions; the limits both programs are configured with |
| `ArbEngine`, `PythonSizing`, `TradeChoice` | the sizing of either program; the trade each chooses of the same books and accounts |
| `RateLimiter` | the Python token bucket |
| `Usd`, `WalletFunds`, `WalletReservations` | amounts and their rounding; a wallet; what plans reserve and release |
| `PaperDesk` | the worker's paper plan of a book, and the wallets the dashboard shows beside it |
| `HedgePlanning` | positions to exposures to hedge plans |
| `MarketMaker` | quotes and the inventory of whoever follows them |
| `MCPredictRotator`, `MCHedgeCoordinator`, `MCOrderReports`, `MCOrderFeed`, `MCTradeChoice`, `MCMarketMatching` | symmetry, bounds and values for TLC |
| `MCTwoLegs`, `MCReports`, `MCDryRunWorker` | several modules side by side in one run |
| `PredictAccountsProofs`, `PredictRotatorProofs`, `HedgeCoordinatorProofs`, `OrderReportsProofs`, `OrderFeedProofs`, `DryRunWorkerProofs`, `TradingProofs`, `DecisionProofs` | lemmas about the operators; theorems |

`SettlementJobs` extends `PredictAccounts`; `PredictRotator` and `HedgeCoordinator` each
extend `SettlementJobs` and say what its actions leave alone. `HedgeCoordinator` and
`OrderReports` extend `ExecutionSafety`. `OrderFeed` and `WsConnection` extend
`WsManager`, `DryRunWorker` extends `HedgePlanStore`. `TwoLegExecution` stands alone: the
Python implementation shares no state with the TypeScript one. `TradeChoice` extends
`ArbEngine` and `PythonSizing`, which both extend `RiskConfig` and `Fractions`;
`PaperDesk` and `WalletReservations` extend `WalletFunds`, which like `HedgePlanning`
extends `Usd`.

`MCTwoLegs`, `MCReports` and `MCDryRunWorker` check modules that share no variable in one
run. `subject` is chosen in the initial state and says whose behaviour it is; the modules
that are not the subject rest in one state. A property of a module is then checked over
just the behaviours of that module, as in a run of its own.

### Accounts and jobs

The rotator never mutates a record: `update` replaces it. So each method is an operator
(`markHeld` is `MarkedHeld`, `release` is `Released`, ...), and an action applies it to the
current record. Balances only matter when compared, so an action chooses whether they
suffice; of `cooldownUntil` only whether it lies in the future is kept.
A position on the venue is `flat`, `open`, `ended` (its event is over) or `resolved`.

`redeemSettledJob` takes one candidate after the other: `RedeemBegin` writes REDEEMING,
`RedeemExecutes` is the venue paying, `RedeemRelease` the release after the await,
`RedeemThrows` the exception that ends the pass. The list it walks is read once; a
candidate stays what it was listed as until the job gets to it, because only the job
makes a resolved or paid position anything else, so choosing the next candidate when the
job gets to it is the same.

### PredictRotator

A session is a caller of `selectForTrade` together with the trade it makes; its token is
its lock token. `pc` names the await a session is in:

| `pc` | in the code |
|---|---|
| `asking` | `refreshBalance`, then `listUnsettledPositions` (203-216) |
| `audited` | the venue has answered, the caller has not yet gone on (216-231) |
| `locking` | SET NX PX sent (241) |
| `granted`, `denied` | Redis has decided, the reply is on its way (243) |
| `trading`, `filled` | the caller has the account; its order has filled |
| `unlocking`, `unlocked` | `releaseLock` before and after Redis ran the script (379) |

What stands between two awaits is one action. `call[s].left` is the captured list with
the statuses captured with it, against which lines 194-199 test; what the method writes
goes to the current record. Redis may fail before or after it evaluated a command
(`LockThrows`, `UnlockThrows`), a key may expire at any time (`LockExpires`), an operator
may use the setters nothing in `src/` calls (`Administer`, if `Operator`).

Nothing in `src/` calls `selectForTrade` yet. A caller is taken to do what the README
describes: trade, then `markHeld` and `releaseLock` when its order filled, `release`
when not, or to end in an exception. `lockManager` is passed, tokens are distinct.

### HedgeCoordinator

A run is a call of `runOnce`; several may overlap, since nothing keeps a second one out.
Finding, sizing and reserving an account (138-194) has no await inside and is one action
(`Place`, or `RefusePlan` when the order plan is refused after the reservation). The two
legs are answered in any order (`Answer`); a rejection of either ends the run at once
(`OrderRejects`), with the fate of the other unknown (`Abandoned`). `Collect` evaluates the
safety rules, `Rescue` places the order for the residual and combines the results, then
the sinks are awaited, where `Throw` may end the run, and `Finish` is the synchronous end
(`finishPredictAccount`, then pause or next match). In `Restart` the process loses its
records and its runs, not the venue.

The audit job reads the positions of one account (`AuditAnswers`) and writes what it read
when its continuation runs (`AuditMarks`).

Two histories name what the code cannot know: `lapsed`, accounts whose lock expired
inside the window of a session relying on it, and `blind`, accounts whose record the
venue contradicts because of a restart or an outdated answer of the audit. The
properties speak of the other accounts.

### AccountLifecycle

An account is free, let to a hedge, held or lost track of. It is let when free; returned
to free from let only if the venue shows nothing; held; paid only when held; and free
again only when paid. `Phase` maps a record to a phase and `exposed` is the venue's
position.

### OrderReports

Each leg of the hedge has one order on its venue, which fills in parts and ends. `seen`
is what an order has been; a REST or WS report is any member of it or missing
(`LateReports`), or always the current state. The placement is fixed when the venue
answers. `Judge` is `reconcileConfirmedOrderReports` on one such choice of reports, made
as often as one likes, since nothing in `src/` calls it and docs/RUNBOOK.md only says to
confirm by REST and WS. What the caller does with an outcome (cancel, rescue) is not
modelled: a cancelled order is one that ends, and `rescueAttempt` may be anything.
`ReconcileHedgeState` is the second reading of reports in the code, the reconcile job's.

The distinction of statuses that `ExecutionSafety` abstracts from is made here:
`AsReport` is `isTerminalFailure`, by which an order cancelled after a partial fill is
not a failure. It is taken of the venues that an order that failed has filled nothing.

### WsManager, WsConnection and OrderFeed

The manager's fields fall in two that no method relates: the filter of events (`seenKeys`,
`lastSequence`) and the connection (state, and whether the last event and the last pong are
recent). Both are records, and a method is an operator on them. `OrderFeed` uses the
filter, `WsConnection` the rest.

`OrderFeed` has what nothing in `src/` joins yet, in the way README.md:51 describes it: an
event of `wire` is offered to `acceptEvent` (`Offer`); if accepted, the caller's row goes
with it into `handling`, and is written back merged with the event some time later
(`EventApplied`), or an exception loses it although its key counts as seen
(`EventDropped`). An event stays in `wire` until the connection breaks, so it may come
late, again or never. The job lists the open rows (`JobBegin`) and goes through them one
at a time: `JobNext`, `GetOrderAnswers`, `JobWrites`; what cannot be asked is a mismatch
(`MismatchRecorded`), and what throws ends the pass (`JobThrows`). `Restart` keeps only the rows.

Taken of the venues: an event tells the state the order had when it was sent, "live" or
"over", and an order that is over stays so. That a partial fill is not announced with a
status that reads as final, and that a Polymarket event's `size` is the total filled,
are in this assumption. Rows are made before the events, with or without an external id.

### HedgePlanStore and DryRunWorker

A record is the number of the pass that generated it. The latest file is missing, torn or
whole. `writeFile` opens it truncating and fills it afterwards, so these are two steps
(`OpenLatest`, `WriteLatest`), between which a reader meets a torn file. An append is one
write; cut, it leaves nothing, a part, or all but the newline (`CutAppends`), and the next
append joins the line that was left open (`Joined`). A torn latest file heals with the next
record; a garbled line stays.

`pc` is the step of a pass the worker is at: `fetch` (`BuildPayload`; every failure of it
becomes a rejected plan), `open`, `write`, `append`, `events`, `delay`. `PassIsCut` is a
step that throws, which ends the loop because nothing catches it, or a process killed in
it: to the files the two are the same. `Killed` is the same where both files are
written. `writeWorkerOperatorEvents` catches everything, so a pass goes on whatever came of its lines
(`LogEvents`); the last of them, `history_file_appended`, stands for the pass. `Stop` is
the first signal of a kind; a second one finds no handler and kills. The flag is read
after the delay (`Wake`). `Start` is the launcher, or `--once`.

The dashboard reads the latest file in one step (`Show`). `shown` is its last answer that
was no error: a torn file is answered with status 500. The history a replay reads is
`Recorded(history)`; its limit to the last records is left out. The operator log drops
nothing it cannot parse: a garbled line of it makes `readOperatorLogs` throw from then on,
where `parseHistoryLine` skips it. No document promises otherwise.

### TwoLegExecution

One thread, so a step is what happens between two calls to a venue. `run.pc` is where
`run_once` is: `scanning` matches; `placing`, `polling` and `cancelling` the order
`run.at` of the plan (`first`, `second`, `rescue`); `settling` with the report; resting
after `done`, `paused` or an exception. `leg` is what the executor was told of each order,
`order` what the venue has; the two part when polling gives up (`Poll`), when a
cancellation races a fill (`Cancel`) and when a call raises (`Raise`). What a plan leaves
at work becomes `stray` and may fill later (`StrayMoves`).

The history `told` says that the executor was told of a Predict fill since the account
was last redeemed. It can know no more: a delayed order it gave up on may fill on an
account it released. That run pauses, which is what docs/MVP_LIVE_V1.md:48 asks for
("never silent continuation").

### ResidualRescue

`rescueResidual` decides from the shares of the two results alone. Nothing in `src/` calls
it, so the caller is external: it asks (`Decide`) while no rescue order is at work and
nothing paused it, adds what the order bought to its venue's result (`RescueFills`), and
asks again. Between two calls prices and ready accounts may be anything, time passes
(`Tick`) and a leg that was counted as over may still buy (`LegFills`); `late` remembers
that one did after the decision. `NextReady` is the rotator's `nextReadyPredictAccount`.

### MarketClassification and MarketMatching

A text is the set of the phrases the code looks for that it includes, closed under
inclusion (`IsText`: who says "usdt" says "usd"); the phrases of one rule that are
alternatives are one. `normalizeBinaryMarketSpec` and the two listings' readers are
operators from listing to record. A pair of listings is fixed at the start, together with
what the venues really settle by (`settles`), which no program sees. `Scan` and `Discover`
let each program judge the pair as often as it likes, `Approve` is the test of time in
`chooseTrade`, and time and the closing of a listing go on in between.

What a pair must be is said without the matchers: `YesPays` settles a market on the prices
its oracle reads at its two moments, and `IsHedge` asks that for all prices YES of one and
NO of the other pay one dollar. This can only hold of listings that do not lie, so a
listing of the run states no other source, feed or rule than it settles by; it may leave
out any of them, state one twice, or state it in words only. `HonestPair` says just that of
a pair, and `PairsAssumption` that it holds of all `Pairs`. Of raw listings it says two things
more, which the discovery takes for granted: both follow the same resolution, which nothing
reads, and one of Polymarket's two tokens is for "up". `MatchingAssumption` leaves UNKNOWN out
of the allowed sources, as the shipped configuration does: two markets of unknown sources
need not be a hedge.

### ArbEngine, PythonSizing and TradeChoice

Decimals are exact fractions (`Fractions`, in lowest terms; `Amount` are those not below
zero): the programs compute with 40 and 28 digits, the models without rounding, except where
the code quantizes. A book is a sequence of levels in the order they arrived; `StablyByPrice`
is the sort of both programs, which keeps the order of levels of one price.
`RiskAssumption` and `TradeAssumption` say what the code checks of the configuration and of a
level: rates and reserves are not negative, caps are amounts, a level has a size that is not
negative and a price between 0 and 1 (`Quoted`). The code lets the ends themselves through;
the ticks of both venues keep prices off them. Polymarket's collateral is above zero, since both
programs stop before they size anything when it is not (`accounts/rotator.ts:415`,
`risk_manager.py:34`). `sizeCombo` and `size_buy_complement` are translated separately, each
from its own source, down to the result they return: a quote, a rejection, or (TypeScript
only, of an empty budget) a throw. `ArbEngine` keeps the loops of its source;
`PythonSizing` says what the loops of the reference come to, by the shares on offer before a
level. That the one is the other is what the theorems about them prove. `TradeChoice` puts the same books and accounts before
`RiskManager.chooseTrade`, `choose_trade` and the loop body of the TypeScript coordinator
(`CoordinatorTrade`), which asks one account and one combo.

### RateLimiter

One action per call, with any reading of the clock. `read` and `passed` add up how far the
readings went forward; a step back costs the caller nothing and gives him nothing.

### WalletReservations, PaperDesk

Amounts are in quarter cents, so that fractions of a cent exist and `roundUsd` does something
(`Usd`). `WalletReservations` has the map of reservations beside the wallets' rounded
amounts, wallets that share an address, and releases in parts or in one; a call that throws
is no step. `fractions` counts the calls that involved a fraction of a cent.

`PaperDesk` is what the two processes of paper trading make of one record. `Publish` is
the worker's pass: any plan `PlanFromBook` or `RejectedPlan` makes of any options and book.
`ShowWallets` is the dashboard's page, of its own options, its own real wallets, and the
latest record; `LeavePage` closes it. The files in between are `DryRunWorker`'s.

### HedgePlanning

`TakePosition` is one round of the loop in `calculatePredictExposure`; `exposures` is the
map it builds, with what each market holds long and short. `PlanExposureHedges` and
`BuildExposureHedgePlan` plan from what has been taken so far, with any candidates and
configuration. A configuration states a setting in camel case, in snake case, in both or
not at all.

### MarketMaker

`Evaluate` replaces the quotes by those of one evaluation, `Reject` by none, and `Fill` is the
market taking any part of a quote. The Monte Carlo estimate is any probability. `prices`
and `basis` outlive a rejection: they are the bids of the last evaluation that was not
rejected, and the center, spread and net inventory it computed them from, so that the
next can be compared with it (`RequotesLean`). That compares only evaluations with the same center
and spread; where these move, so may both bids, either way.

## 3. Runs

| Run | Instance | Shows |
|---|---|---|
| `rotator` | 2 accounts, 2 callers; one of the accounts out of use and everything enabled, or both in use and `Plain` | the inductive invariant `GuardedUse`; one trade per account; audited before use; held until redeemed; also when a call goes on to the next candidate |
| `coordinator` | 2 accounts, 2 runs, hedges of 2 shares, 1 match per run | the inductive invariant `SoundEngagement`; one run per account; ready means flat; no silent residual; `AccountLifecycle` |
| `reports` | reports: 2 shares, confirmations required, late reports; rescue: legs of 3 shares, 3 accounts | the inductive invariant `SoundJudgement`; a judgement that is final is true of the venues; both readings of the code agree; a rescue narrows what it answers, and everything is answered |
| `two_legs` | bot: 2 accounts, at most 2 matches per run; choice: 2 accounts, books of 2 levels; matching: listings that differ in up to two fields; limiter: a bucket of 3 | bot: the inductive invariant `SoundExecution`; a fill the executor was told of keeps the account out of reach; no silent continuation; every run ends. choice: within the budgets, and both programs agree. matching: an accepted pair is a hedge. limiter: grants are bounded |
| `order_feed` | 2 orders of 1 share, the second silent; window 1; renumbering; at most 2 events being applied | the inductive invariant `SoundRows`; a closed row is right; the end of an identified order is finally recorded for good |
| `dry_run_worker` | worker: 4 passes, 2 of them cut; 2 signals; no snapshot, an example. desk: 49 settings, 5 forms of a side. wallets: 2, 2 plans. planning: 3 markets of 2 events, 2 positions. maker: a cap of 3, orders of 2 | worker: the latest file is the newest record or torn for a reason; the history is of published records in order, and a cut costs it two at most; the log tells the truth; records stay; the dashboard never goes back; a worker told to stop ends. desk: a paper plan shrinks the exposure; the page covers the plan. wallets: funds add up, drift is bounded. planning: exposures are sums, hedges reduce them. maker: inventory is bounded, requotes lean against it |
| `rotator_ready` | 1 account, 2 callers | an account in a trade becomes READY again (finding) |
| `coordinator_delayed` | 1 account, 2 runs, orders may stay open | an account is released while its order can still fill (finding) |
| `coordinator_restart` | 1 account, 2 runs, restarts followed | a run trades with an account with an open position (finding) |
| `reports_hedged` | 2 shares, reports always current | a hedge judged HEDGED becomes one to rescue (finding) |
| `feed_fallback` | the connection alone | no REST polling while a broken socket is reopened (finding) |
| `poor_account` | the choice alone | the coordinator rejects a match the next account could trade (finding) |

Why the bounds are enough. Every property is about one account, or about one account and
two callers or runs; two callers give every order of the awaits of both, and a finished
caller starts again, so a third adds no new order of two. A second account adds the
going-on of the loop and `lastIndex`. Two shares give an empty, a partial and a full
fill, and a partial fill followed by a partial rescue. One match per run, and any number
of runs after each other; `MaxMatches` bounds only how often a run goes on without
starting anew. In `rotator` the whole of one account, with open orders, refusals, operators
and a market that ends, is one part of the instance, and two accounts in use the other:
there markets stay open, no account starts with open orders, a behaviour ends when a venue
rejects or an account has too little (`Plain`), as the first part has all of these. Callers and runs are
interchangeable (`SYMMETRY`); no liveness is checked under symmetry. Deadlock is checked
everywhere but in `dry_run_worker`, whose passes are counted: after the last, a worker that
was cut while it wrote the latest file leaves nothing to do.

For `reports` two shares are enough: the rules only compare the legs with each other, with
nothing and with the whole, and an order goes through at most three states, so a report
can be late by one or by two. In `two_legs` two accounts let one be held, paused or lost
while the other trades, and two matches let a run go on; the properties are about one
plan and one account.

The choice of a trade has prices in tenths of a dollar and three levels that two-level
books draw from in any order, so that books come sorted, unsorted and with equal prices; a
level more makes sums and no new case of walking two books. The other two books are of one
level, which decides between the combos. Balances are none, little and enough. Matching
counts time in half hours (`Hour = 2`, `Horizon` 3): a listing is too early, in time, too
late and ended within it. A listing may differ from the common one in one field each, or in
two fields on both venues at once, which is how a match can go wrong: by a field both
leave out or state alike. The limiter has a bucket of 3 and requests of 1, 2 and 4,
the last of which no bucket holds; `MaxGranted` and `MaxPassed` stop the histories after a
bucket was emptied and filled several times. `ResidualRescue` has legs of 3, so that a rescue order of 2 can
fill in part, and 3 accounts, so that the rotation has a choice.

The desk's settings hold amounts below zero, zero, not in whole cents and above each of the
other limits. `MaxFractions` lets a second fraction of a cent meet the first; with none
the bound is zero and nothing limits the number of calls. Two wallets may share an address.
Two positions in three markets of two events meet, miss or cancel each other. `MaxHeld`
lets one outcome be held beyond the cap and one order more, so that the bound is met.

For `order_feed` the second order is there for the job: it may be unknown or make the job
throw in front of the first. Two events being applied give both orders of writing them,
window 1 forgets a key as soon as another comes, and one share still tells a stale row
from a right one (a partial fill adds nothing: every field comes from one message). The
invariants were also run with events that do not tell fills.

In `dry_run_worker` `MaxPasses` lets two passes that are cut follow each other or a third
come between, and a fourth join what they left; passes are all alike. With two signals a
worker can be told to stop twice.

`Bounds` follows no behaviour further once a lock has lapsed or a record is blind, where
the properties say nothing about that account (`coordinator_restart`, which is about just
that, does).

Fairness is assumed in three places. `TwoLegExecution` has weak fairness of `RunOnce`, the
steps of the thread in which no call raises. The code justifies it for polling, which has a
deadline on the monotonic clock (`predictfun/execution.py:172`), and for the loop, which is
over a finite list; of a call to a venue it is an assumption that it returns or raises.
Nothing is assumed of the venues' orders: a delayed order may stay delayed for ever.
`OrderFeed` has weak fairness of beginning and going on with a pass, which docs/RUNBOOK.md:44
asks for periodically, and of settling a promise; strong fairness, per order, of an answer and of a
write, since a call that fails ends the pass and the next pass tries again; and finitely
many restarts. Which open order a pass takes first is left to chance, and nothing is
assumed of the connection, so what is recorded at last is the job's doing alone.
`DryRunWorker` has weak fairness of `Work`, the steps of the loop that come through or are
over: a write settles, a timer fires, and `fetch` gives up by the client's own timeouts.
Starting, signals, failures and readers are left to chance.

`PROJECT.json` pairs each property of a passing run with a mutant: a plausible mistake in one
mapped definition under which the run finds the property violated. The mutated forms
stand above the definitions they change, marked "Mutant".

### Findings

Where the repository's own words and the code differ:

1. README.md:152: "`COOLDOWN`: recently selected, filled, failed, or lock contention
   occurred; skip briefly". `reserve` sets no `cooldownUntil`, so the next
   `selectForTrade` takes the account of a running trade back to READY
   (`accounts/rotator.ts:199`). It is the lock that keeps the second caller out.
2. docs/RISK.md:66: "delayed orders are treated as exposure until resolved". The
   coordinator releases the account of a delayed order (`execution/coordinator.ts:399`).
3. README.md:156: "Selection ... audits unsettled Predict positions ... then acquires
   `predict_account:{id}`". The coordinator picks by the record alone
   (`execution/coordinator.ts:138`), which after a restart is READY.
4. core/state-machine.ts:53: "HEDGED: ["SETTLING", "PAUSED"]".
   `reconcileExecutionSafety` (`execution/safety.ts:159`) says HEDGED when the confirmed
   shares are equal, also of two open orders with equal partial fills; after the next
   fill it says RESCUE.
5. docs/MVP_LIVE_V1.md:11: "fall back to polling when WebSockets are disconnected".
   `isStale` (`ws/manager.ts:87`) does not count CONNECTING as down: after a break,
   `connect()` ends the polling before the socket is open, for as long as the last event
   is recent.
6. README.md:263: "Predict insufficiency only skips that Predict account and rotates to
   the next one". `runOnce` sizes a match with the first ready account
   (`execution/coordinator.ts:138`) and rejects the match when that one has too little;
   `RiskManager.chooseTrade` and the Python `choose_trade` go on to the next.

Found on the way, and no contradiction of a document: an event that says "cancelled"
without `filledShares` closes a row with the shares the row had, and since no job looks at
closed rows, a fill told by no event is never recorded (`FillsTold` excludes it); without
sequence numbers a repeated old event can reopen a closed row each time its key has left
the window (`EndIsRecorded` speaks of numbered channels). The coordinator sizes combo A only.
A listing whose question has a word such as "whether" is read as of ETH
(`adapters/predict/market-discovery.ts:59`) and so is lost to the scan, which is safe.
`rescueResidual` compares the loss of one order with the limit, not the sum of several.
`seconds_until_available` promises a finite wait for an amount no bucket holds.

Documents that differ from the code, without a run of their own:

- README.md:397 says "rejected plans keep the paper funds unreserved". The worker does so,
  but the dashboard looks for a field the worker does not write
  (`wallet/wallet-manager.ts:300`) and shows the planned amount as reserved.
  `ShownCoversPlan` therefore asks that what is shown covers what the plan reserved, and
  equals it for a plan that was not rejected.
- README.md:261 wants Polymarket's `min_order_size` respected, which only the Python program
  does; the TypeScript one also throws where a budget is empty: an account that holds
  nothing, a share of it or a cap of zero. `BotsAgree` compares the two outside these cases.
- README.md:251 says the planner rejects "disallowed venues", of which it knows none.
- docs/TASK_CARDS.md:397 says "Reject exposure inside the configured limit"; the planner
  rejects an exposure beyond `maxNetExposureUsd` and hedges one within.

## 4. Proofs

`PredictRotatorProofs` proves, for every `NumAccounts` in 1..10 and every set `Session`, from
`AccountsAssumption` and `OperatorAssumption` only: `TypeCorrect`, `UseIsGuarded`,
`Exclusion` (`OneTradePerAccount`), `AuditBeforeUse` (`AuditedBeforeUse`) and `HeldStays`
(`HeldUntilRedeemed`).

Exclusion alone is not inductive: that a second caller is refused rests on the first
owning the Redis key (`HolderOwnsLock`); that what it buys on is flat rests on the audit
staying good until the key is granted (`AuditStaysGood`): if the account was opened
since, either the opener still owns the key and the request will be refused, or it has
recorded the fill before giving the key back (`UnlocksRecordedFill`), and `reserve`
refuses a record with a held position. The redeem job stays out of the way because it
works only on held accounts, which no session trades with (`RedeemsAlone`).
`GuardedUse` is the conjunction; one lemma per action preserves it.

`HedgeCoordinatorProofs` proves, from `AccountsAssumption` and `CoordinatorAssumption`:
`TypeCorrect`, and for behaviours with `~DelayedOrders`: `EngagementIsSound`,
`RunsExclude`, `ReadyMeansFlat`, `ResidualsAreLoud` and `ImplementsLifecycle`. The assumption is
needed: the run `coordinator_delayed` is its counterexample.
`SoundEngagement` adds to the properties what they rest on: the record of an engaged account
is not READY or already held (`EngagedAccount`), the run's report of the Predict leg is
what is on the venue (`ReportIsTrue`), a rescue is made only when due, an order at work
belongs to an account that is not ready (`WorkingOrder`). That no account is in two runs
follows because `Place` takes only ready accounts and no job makes an engaged one ready.
`ImplementsLifecycle` maps every step to a step of `AccountLifecycle` or a stutter for every
account, from `SoundEngagement` before the step.

`OrderReportsProofs` proves, from `ReportsAssumption` (any number of shares, any policy):
`TypeCorrect`, `JudgementIsSound`, `JudgementIsTrue` (`JudgementHolds`) and `Agreement`
(`OpinionsAgree`). Everything rests on a final state of an order being final: a final
report is what the order is for good (`ReportsAreHistory`), so a leg with no open report
is known although some of its reports may be missing (`LegsAreKnown`).

`OrderFeedProofs` proves, from `FeedAssumption` and `WindowAssumption` (any orders, shares and
window): `TypeCorrect`, `RowsAreSound` (`SoundRows`) and `ClosedIsFinal` (`ClosedRowIsFinal`).
A row is written from messages, so the invariant is about everything on its way: what a
message, a captured row or an answer says was true of the order when it was said
(`WasTrueOf`), and what has been true stays true, because an order only fills further and
ends once (`TruthStays`).

`DryRunWorkerProofs` proves, from `WorkerAssumption` (any number of passes and cuts, any
snapshot and example): `TypeCorrect`, `LatestIsTheNewest`, `HistoryFollows`,
`LossIsBounded` (`CutCostsTwo`), `LogIsTrue`, `RecordsStay` and `ShowsNoOlder`. `Store` adds to
the properties that a pass is published, recorded and cut at most once each and in that
order (`Numbered`), and what makes the loss bounded: if the history's last line is open,
the last pass that published was cut (`OpenLine`), so a record that joins it has a cut
right before it. The lemmas say what one write does to a file of lines (`RecordedAfter`,
`SortedAfter`). `StopsAreShort` is what `StopEnds` rests on short of fairness: a worker that was
told to stop stays told until it is down (`FlagIsOfProcess`), begins no further pass, and every
step of it leaves fewer before its end (`StepsToEnd`, six at most), while signals and the
dashboard leave it where it is.

`TradingProofs` proves, of the two-leg executor and from `ExecutionAssumption`: `TypeCorrect`,
`ExecutionIsSound` (`SoundExecution`), `ToldStays` (`ToldIsNotAvailable`) and `NeverSilent`
(`NoSilentContinuation`). That an account with a known fill is not available is not
inductive alone: while a plan runs it is so only because the account is reserved and
what the executor was told is in the results (`PlanIsKnown`), and that two filled results
mean two filled orders and nothing else at work needs `Stage` and `LegsInOrder`.
`RunsAreShort` is what `RunEnds` rests on short of fairness: every step of a run lowers
`StepsLeft`, at most nine for each match and one more, and no other step raises it while the
run lasts. It counts the polling of an order as one step, as `Poll` does: that it ends is
what the code's deadline gives.

It also proves `HedgesPayOne` (`HedgePaysOne`), from `MatchingAssumption`, `PairsAssumption` and
the assumption of `MarketClassification`: whatever honest listings the venues have, an
accepted pair is a hedge. Each matcher asks for enough that what it accepts is
`SameQuestion`: the rule and the readings by which the two markets settle are the same,
since what is read of an honest listing is the truth or unknown (`TextIsSettled`), and
unknown is not accepted. `MatchIInv` keeps this while time goes by: a listing
that closes states nothing else than before (`ClosingKeeps`).

And `TradesStayWithinBudgets` (`WithinBudgets`), from `RiskAssumption` and `TradeAssumption`: any
books the instance is made of, any number of accounts, balances, fees and reserves (the
lemmas are of books of any length). The code divides a budget by what a share costs at the whole depth that is worth its price
(`engine.ts:213-221`), then buys the smallest of the amounts it got, and nothing in it
compares the cost of that with the budget again. It needs that fewer shares do not cost
more each. The proof says why: in a book sorted by price fewer shares have no higher
average (`EstimatesCompared`), and where a fee is at most all of what it is charged on and
the reserves are not negative, the price with both does not fall as the average rises
(`LegsCompared`, `CombosCompared`); so each budget pays for the least of the amounts (`PaysFor`,
`LeastIsInBudget`). The dearer half of the prices is where it could fail, as the fee goes
down there. The theorem is about exact quotients; the program rounds them at 40 digits. What
it rests on is proved from the integers up: Euclid's algorithm gives a common divisor that is
a combination of both numbers, so that fractions in lowest terms are equal when their values
are, and their sum, product and order obey the laws of numbers; the walk over a book is a
fold over its positions (`FoldExists`, `FirstOnes`); and `StablyByPrice` returns every level
once, by price (`SortRanks`, `SortedAreByPrice`).

From the same two assumptions `ProgramsAgree` (`BotsAgree`): where no budget is empty, both
programs make the same trade of any four books, for any number of accounts, or none. The
argument follows the sizing from the inside out, for books of any length, sorted or not:

- An order gets the same shares for the same dollars (`SameFill`). One translation takes level
  after level off what is left of the order, the other reckons each level from the shares
  before it; after every level the first has filled the smaller of the order and what was on
  offer so far (`NextTake`, `SharesBefore`).
- So both quote alike (`QuotesAgree`): each leg with its fee and reserves (`LegsAgree`), and the
  profit, which one takes as the shares times what a share leaves of its dollar and the
  other as the shares less what all of them cost (`ProfitsAgree`).
- The walk over both books stops at the sizes where a level of either ends, as far as both
  books go, each once and in increasing order (`PointsAgree`). The invariant of the walk
  (`InWalk`) says where it stands in each book (`Reached`) and which sizes it has passed
  (`Passed`), and that it moves on in a book at every step, so that it has come to an end of
  one of them when its steps run out.
- So the last point that is worth its price is the largest such size (`DepthIsLargest`,
  `DepthsAgree`); the budgets divided by equal prices are the same sizes, none of them zero
  (`CandidatesAgree`), and every account and combo is sized alike, but for Polymarket's
  smallest order (`SizingsAgree`, `AccountsAgree`).
- Then the first account that ends the TypeScript search is the first that can trade in the
  Python one (`FirstStays`), and the best of its combos is the best of those of them the
  Python program allows (`BestStays`, `ChoicesAgree`).

`DecisionProofs` holds the theorems about the modules that decide on amounts, each from the
one assumption of its module:

- `GrantsAreBounded` (`LimiterAssumption`). That the grants never exceed a bucket and its
  refills rests on the bucket being dated by the last reading (`LimiterIInv`), so that
  what a step fills is what the step adds to `passed`.
- `FundsAlwaysAddUp` (`WalletAssumption`: any wallets, addresses, plans, amounts). Rounding is
  half up to whole cents; the lemmas say that it keeps order, whole cents and the distance of
  less than a cent, and `WalletsIInv` that every wallet stays `Ordered` under it.
  `DriftStaysBounded` (`DriftIsBounded`) is by the same invariant: a call changes one summand of a wallet's reservations and the rounded total by
  less than a cent from it, which `fractions` counts.
- `PaperPlansShrink` (`PaperAssumption`: any settings, books of any length). The size is the
  smallest of four amounts none of which exceeds the exposure; rounding it cannot, as the
  exposure was rounded before. `PagesCoverPlans` (`ShownCoversPlan`) is of the other process: a plan
  describes the simulation it was made with, its funds, its exposure and its size (`DeskIInv`),
  and the page makes the wallets again from that, whatever its own settings.
- `HedgesReduce` (`PlanningAssumption`). Exposures are non-negative whole cents of markets
  met (`PlanningIInv`), so that a quarter of one is a number; then each risk code that is
  missing gives one part of `Sound`. `ExposuresStaySums` (`ExposuresAreSums`) says that the map is the
  sum over all positions taken so far, in whatever order.
- `InventoryStaysBounded` and `RequotesStayLean` (`RequotesLean`), from `MakerAssumption`.
  Filling moves dollars from the quotes to the inventory, so the bound counts what is quoted
  as held; an evaluation quotes only below the cap. That the bids are those of `basis`
  (`MakerPriced`) is the other part of the invariant `MakerIInv`; each clamp and the greater of two
  numbers keep an order and widen no distance (`ClampingNarrows`, `MaxNarrows`), so the bids
  follow a center that moves (`BidsLean`) and the center follows the skew (`SkewLeans`).
- `RescuesNarrow` and `ResidualsAreAnswered` (`RescueAssumption`: any shares, accounts, prices,
  limits). A rescue order is no larger than the residual and for the side behind, unless a
  leg filled late (`RescueIInv`).

Sums and folds over sets are defined by recursion, and a fact about all of them needs
induction, whose library theorems take an operator. It is done by hand where it is
needed: were there a counterexample, there would be a least one (`LeastNatural`), and the
one before it refutes it. `DecisionProofs` has the facts about sums over finite sets in this
way (one summand changed, one added), `TradingProofs` counting (`CountUp`), Euclid's
algorithm and the folds of a book.

The assumptions about time and the venue are in the models, not in the theorems: a market
ends only when no run and no order is at work on it; the redeem adapter lists held
accounts, and one redeem job runs at a time.

Only model-checked: the findings (they are counterexamples), and `RunEnds`, `EndIsRecorded` and
`StopEnds`, since TLAPS does not prove liveness under fairness; of `RunEnds` and `StopEnds` the
half that needs no fairness is proved (`RunsAreShort`, `StopsAreShort`). Every other property
that a run checks is a theorem.

## 5. Plan

Done so far: the accounts, the coordinator, orders and reports, the two-leg executor, the
plan store and the worker (first the models, then their theorems); then what decides on
markets, amounts and plans. What is left, in this order:

1. The facts short of fairness that `EndIsRecorded` rests on: how many late events and answers
   can still reopen a row once its order is over, where events are numbered.
2. Liveness of the rotator and the jobs: a held account whose market resolves is
   eventually free, when the venue answers; where exceptions leave an account behind.
3. The merge of intents in `strategy/strategy-engine.ts` with `hedge-engine.ts`.
4. Several matches of one run that are sized from the funds read at its start
   (`execution/coordinator.ts:158`), once a document says what they should be compared with.

## 6. Not modelled

- Parsing: dates, payloads of venues, pagination, the validation of a configuration and
  environment variables other than the paper and wallet settings. What could be wrong in
  them is in strings a model would abstract.
- Views: the dashboard's routes but for the plans and the wallets, analytics,
  simulation reports, alerts, metrics and the frontend read records and keep no shared
  state.
- Persistence: interfaces and a schema; the rows of `order-repo.ts` are `OrderFeed`'s.
- `execution/liveness.ts`, `execution/orderbook-subscriptions.ts`, `core/preflight.ts`: single
  comparisons, which a property would only restate.
- Strategies other than the market maker and the exposure hedge: single formulas of a
  snapshot, of floating-point numbers.
- The digits of a decimal beyond what the code quantizes, and fee schedules other than a
  rate.

`PROJECT.json` lists every component with its status.
