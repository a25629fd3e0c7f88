# A TLA+ verification of the algorithmic crypto trader

The repository is a Python service that trades one long-only strategy per closed candle through
one broker account (a simulated one, Coinbase or Gemini), guarded by ordered risk gates, a
persistent kill switch and a reconciler. It runs as one asyncio process with one database. This
directory models the parts of it that decide about money and safety, checks them with TLC on
small instances, and proves the most important results with TLAPS for every instance.

Contents: inventory, how the parts interact, modules and their correspondence with the code,
runs and bounds, fairness, proofs, divergences found, what is not modelled, plan.

## Inventory

| component | state it keeps | operations | what makes it correct |
|---|---|---|---|
| Order execution (`execution/engine.py`, `execution/persistence.py`) | order rows and fills in the database | `submit`, `recover`, `recover_pending`, `_record`, `_close_never_sent` | one order at the venue per client order id, none unknown to the store, no settlement without its fills |
| Order closing (`execution/closure.py`) | the `order_closed_never_received` event | `OrderCloser.close` | only an order the venue never received is closed |
| Kill switch (`risk/kill_switch*.py`) | state, state file, journal, unsaved transitions | `tighten`, `trip`, `rearm`, `sync_external_state`, `attach_journal` | a completed stop holds until a journaled re-arm |
| Trading cycle (`app/trading.py`) | timeout clock, never-sent streak, idempotency by client order id | `TradingCycle._run` once per candle | at most one order after a stop, none while another is in doubt, no order in doubt for ever |
| Risk gates (`risk/engine.py`, `BrokerRiskInputs`) | day opening, equity peak, loss-state file | `evaluate`, `risk_inputs` | limits hold over what is held, working and sampled |
| Reconciliation (`portfolio/scheduler.py`, `portfolio/reconciliation.py`, `portfolio/store.py`) | baseline, tracked orders, applied fills, saved snapshots | `run_once`, `observe`, `_adopt` | nothing enters the books unseen, each fill counts once |
| Startup and lifespan (`app/main.py`, `app/recovery.py`) | none of its own | recovery, then schedule, runtime and feed | recovery ends before anything trades |
| Paper runtime and market data (`app/paper_runtime.py`, `data/`) | candle store, newest closed bucket, open bucket, disconnect window, active alerts | backfill, stream, gap fill, storm alert | the cycle sees whole histories; buckets are emitted once; alerts neither flap nor stick |
| Watch feed and watchlist (`app/watch_feed.py`, `data/watchlist.py`, `data/feed_setting.py`, `api/watchlist_routes.py`) | ordered list, per-symbol failures, saved on/off choice, the feed's task | add, remove, reorder, cycle, prune, turn on and off | the list is sound, the feed runs as saved, one bad coin starves nobody, trading candles are untouched |
| Provider HTTP (`brokers/http.py`, `core/resilience.py`) | circuit breaker, token bucket | `request_json`, `allow_request`, `acquire` | an order is applied once, the rate is bounded, every call ends, the circuit is retried |
| Operator surface (`api/operator.py`, `api/alerts.py`, `api/routes.py`, `api/controls.py`) | snapshot of the portfolio, alert list, revoked sessions | refresh and render, emit, dismiss, sign in and out, stop, pause, re-arm, close | pages are consistent, alerts are not lost, a signed-out session stays out |
| Broker adapters (`brokers/coinbase.py`, `brokers/gemini.py`) | orders by client order id, provider ids, the kept account listing | submit, search, fills, edit, cancel and replace, balances and positions | absence is only reported when it is known, a replacement never executes more than its total, a write discards the listing |
| Simulated broker (`brokers/simulated.py`) | balances, positions, orders, fills | submit, advance, lookup | accounting is exact |
| Ledger, valuation, equity (`portfolio/`) | equity samples, last prices | projection of fills, explanation, divergence lines, cost from fills, sampling, day profit | a divergence is what is missing, a cost or a profit shown is real |
| Strategy, replay, backtest (`strategy/`, `app/replay.py`) | none | decide on closed bars, execute at the next open | no look-ahead; backtest and replay agree unless a gate refuses |
| Order audit and history (`execution/audit.py`, `api/history.py`) | signals, decisions, closure events | record, lineage, walked pages, markers, refusals | no gap in a lineage, a walk misses and repeats no row |
| Heartbeat and soak (`app/heartbeat.py`, `api/soak.py`) | heartbeat, incident and disconnect rows | sample, open and close an incident, digest | a day passes only on whole evidence |
| Research workspace (`api/research.py`) | pending reviews, jobs, threads | review, confirm, submit, run, time out, close | a run has the assumptions that were reviewed and is queued once |
| Chart reads (`api/markets.py`) | none | three queries per chart | a bar counts what was traded in it |
| Gemini Sandbox check (`probes/gemini_sandbox_lifecycle.py`) | orders it placed, request budget | its steps, cleanup | nothing is left at the venue unreported |
| Catalog, system, diagnostics and dashboard pages | caches | read-only pages | display |

How they interact. The trading cycle, the reconciler and the order closer share one
`asyncio.Lock`, so one of them is under way at a time; the operator's controls, page requests,
the market feed and the watch feed do not take it. Every broker call is an `await`, and there
the venue moves, another task runs, or the process dies. Store writes are separate transactions
which may fail, and a failed commit may have been committed. The kill switch is shared by all
and is read twice by a cycle: at its start and after the broker has been read.

What is hard to test: a POST that times out but arrives; a crash between a reservation, the POST
and its record; fills that lag behind the order's status; a stop or a re-arm in the middle of a
cycle; balances, orders and fills read at different moments; a reconnect that overlaps a bucket's
close; a wait for the provider or for a cancelled task during which another request runs;
restarts of a process whose measures are half saved. `PROJECT.json` lists these hazards at the
line where they bite, with the properties that watch them.

## Modules

| module | models | level of detail |
|---|---|---|
| `OrderContract` | what the order path promises: saved before posted, posted at most once, booked while open, ended once | abstract specification |
| `OrderExecution` | engine, order store, closer, with the venue and the wire | one action per await and per transaction; orders and executed units are model values |
| `OrderExecutionProofs` | proofs of its safety and of the refinement | |
| `KillSwitch`, `KillSwitchProofs` | state, file, journal; each call split at its file write and its commit | transitions are `[id, from, to]` |
| `TradingCycle`, `TradingCycleProofs` | `_run` from flags to record, startup recovery, the controls beside it | an order is only "in doubt" or not |
| `Reconciliation` | the schedule, adoption and startup recovery | a portfolio is the set of movements it contains |
| `RiskGates` | reading the account, deciding, working orders at the venue | small integer dollars and coins; gates over market data pass by choice |
| `LossLimits` | `_loss_measures`, its file, the daily-loss and drawdown gates | integer equity, days as numbers |
| `AccountProofs`, `FeedProofs`, `OperatorProofs`, `ProviderProofs`, `RiskProofs` | proofs about the modules that `MCAccount`, `MCFeed`, `MCOperator`, `MCProvider` and `MCRisk` compose | |
| `MarketData` | backfill pages, stream buckets, gap fill, candle validation | time counted in buckets |
| `StreamHealth` | heartbeats, reconnect delay, the storm alert | time in ticks; timestamps as ages |
| `Watchlist`, `FeedSwitch` | the list and its feed; turning the feed on and off | a tick is a minute |
| `ProviderHttp` | breaker, bucket, retries and renewal for overlapping calls | one token per tick |
| `SimulatedBroker` | submission with its faults, lookups, partial fills, accounting | integer quotes; no average price |
| `OperatorAlerts`, `OperatorPages` | alerts and dismissals; reading and showing the portfolio | holdings are version numbers |
| `OperatorControls` | sessions and their revocation, pause and stop, the re-arm and close forms | a cookie is its role and the second it was issued in |
| `OrderSearch` | how Coinbase's and Gemini's adapters find an order again | a listing is the orders' times, one or more per page; clocks differ by `Skew` |
| `OrderAmendment` | edit in place, cancel and replace | quantities are small integers |
| `AccountListing` | the kept listing of accounts behind balances and positions | an account's content is the number of writes it reflects |
| `SandboxProbe` | the steps, budget and cleanup of the Gemini Sandbox check | a step is its requests |
| `Books` | `apply_fills`, `explain_window`, `field_changes`, `cost_from_fills` over fills with fees and transfers | integer amounts with the venue's unit; averages as ratios |
| `EquityDay` | the sampler with quotes and stored prices, the day's profit | integer prices, time in ticks |
| `Backtest` | the two strategies, the backtester and the replay side by side | whole prices, money exact to the fee's fraction of a cent, rounded only where the code rounds |
| `ResearchJobs` | reviews, tokens, queue, threads, walk-forward windows | a request is its split of the dataset |
| `HistoryPages` | walked pages, markers and refusals while rows are recorded | a row is its key, its moment and whether it is committed |
| `OrderLineage` | audit records, order and fill writes, the page that rebuilds them | one statement per step |
| `SoakDigest` | heartbeats, disconnects, incidents, equity, the digest of each day | time in ticks; a day is a few heartbeat intervals |
| `MarketCandles` | paged collection, prune and the chart's three queries for one coin | a candle is its time |
| `MC*` | instances for TLC | |

`MCFeed`, `MCOperator`, `MCRisk`, `MCProvider` and `MCAccount` each hold several modules whose
variables are disjoint (the watch feed's list, its switch and one coin's candles, the market feed's
candles and its connection's health; the parts of the operator surface; account gates, loss gates,
backtests and research runs; a provider's client, the adapters' order and account reads, the
sandbox check and the simulated broker; reconciliation, ledger and equity curve). A variable
`focus` chooses which one a behaviour follows: exploring the product would only multiply the
states. Where one module needs what another shows, it takes it as its environment: `OrderSearch`
and `OrderAmendment` assume of a request what `ProviderHttp` shows (applied at most once, its
answer possibly lost), `OperatorControls` takes transitions of the switch as `KillSwitch` makes
them, and `Books` covers in amounts what `Reconciliation` covers as sets of movements.

Conventions. Labels in `pc` name the await a task is at. Names follow the source
(`_close_never_sent` is `NeverSent`, `_loss_measures` is `Sampled`); `map` in `PROJECT.json` gives
the lines of each definition. A definition under a comment `Mutant:` is a plausible bug: put in
place of the definition that follows it, it breaks a property, which shows that the property
depends on that code. Variables marked "history" are read by properties only, never by a guard.

### Order execution

The operation that holds the trading lock is `pc`, `kind`, `cur` and what it has read (`snap`,
`linked`, `todo`, `reply`). `Reserve` and `CycleSubmit` are `reserve_with_created`; `Lookup*`,
`Send*` are the two calls of `submit`; `RecordFills` and `Settle` the two transactions of
`_record`; `Recover*` is `recover_pending`; `RefreshFound` the reconciler's refresh; `Close*` the
administrator's close. `Crash` clears the operation at any label. The venue is external: requests
travel on `wire` and may be lost or arrive after their caller gave up; `VenueLag` lets lookups
miss an accepted order, and `readable` lags behind `executed`. `DirectSubmit` admits callers that
retry `submit` outside the cycle. The two are exclusive (`ModeAssumption`): a retrying caller is
safe only on a venue whose not-found answer is final, and the trading cycle, which never sends
again while a row is unresolved, needs no such assumption.

`ReadAs` is what the adapters may make of an order they find: its status, `unknown`, or
`pending_submit` while nothing has executed (`brokers/coinbase.py:800-824`, `brokers/gemini.py:537`).
`Settle` writes it over the row whatever the row was, as `update` does, so a refresh can put a live
row back in doubt beside another one. `OrderContract` has a step for it (`Doubt`), and what the
engine promises is `PostsWithoutDoubt`: nothing is posted until every other order is resolved.

### Kill switch, trading cycle

A stop takes effect, is written to the file, and then recorded; a re-arm is recorded first. Each
of the three steps may fail on its own, `Restart` may come between any two. When the file write of a
stop raises, the stop is in force and is recorded nowhere (`unwritten`): `KeptUntilSaved` speaks of
the other transitions, and the run `KillSwitchHistory` shows that the manual's claim fails for these. In `TradingCycle` the
switch is one variable that survives a crash, which is what `StopsHold` gives; `late` counts the
orders sent since it left `running`. `CycleStart` reads the environment's flag, which can only
raise. `Approved` is guarded by the second reading of the switch. Nothing is awaited between the
decision and the lookup, so they are one step; the lookup itself is an await, and after it the
order is sent whatever the switch says.

### Reconciliation

`tracked`, `known`, `applied` and `baseline` are the fields of `ScheduledReconciler`; `got`,
`seen` and `heard` what a run has read so far. An order is recorded in three steps, by the cycle,
the refresh and the startup alike: `LookUp` (its status), `SaveFills` (its fills, read and committed)
and `SaveStatus`; a comparison reads it in two, `ReadStatus` and `ReadFills`. The venue moves, a call
fails or the process dies between any two. A call cut short in its second transaction may have
committed it (`RowsLeft`). `Submit` waits for unresolved rows only, so it may come beside a live one. `Diverged` compares sets of movements, which is
equality of balances and positions. `snapshot` and `before` are the saved snapshot and the fills
before its timestamp, by which startup recovery decides what to count. `excused` keeps what runs
that halted trading have adopted.

### Risk gates and loss limits

`Read` is `risk_inputs`, `Refusing` the gates in `evaluate`, `Approve` the decision and the
submission. Orders stay in `working` until the venue executes them; a buy's dollars are held, a
market order may cost up to `MaxSlip` more than its quote. In `LossLimits` every loop may sample;
a save may fail, the file may be damaged and be repaired, the process may die with unsaved
samples.

### Market data, watch feed, provider calls

In `FeedSwitch` a save that raises may have been committed all the same (`SaveRaises`): the request
then undoes what it did, and the saved choice is not what runs. `RunsAsSaved` names that case, with
`untold`, and the one of a choice that cannot be read. In `StreamHealth` a disconnect whose journal
write raises is swallowed by the stream: it is not counted, and the runtime goes on taking the
stream for healthy (`missed`, second disjunct of `OnDisconnect`).

Each module's header says what it abstracts. `Lapses` in `MarketData` covers candles that never
arrive, fail validation or fail to be saved. `Punctual` in `StreamHealth` states whether a
provider that is up beats in every tick. `Answered` in `ProviderHttp` covers success, refusal,
rejected credentials, errors and timeouts, of which the last two may or may not have been
carried out. In `MarketCandles` a cycle collects one page per step, may fail or be cancelled
before each, and the chart's `_groups`, `_latest` and `_edge_candles` are three steps, since each
statement sees what is committed when it runs.

### Adapters and the sandbox check

`OrderSearch` follows one order from its row to the adapter's answer: the request may be under
way, lost or arrived, other orders push it to later pages, the host's clock is `Skew` ahead of the
venue's and the search starts `Margin` before the row's time. `OrderAmendment` gives the venue a
turn between any two requests of a change. `AccountListing` counts order writes; a listing reflects
the writes made before each of its pages, and any of the reading tasks may begin one, keep it or use
the kept one. `SandboxProbe` runs the steps in the code's order; each
spends requests, may fail or lose its answer, and the cleanup has its own reserve.

### Ledger, equity, backtest, research

`Books` keeps the real account beside what the code computes from the saved fills: `apply_fills`
with its settlement toward zero, the explanation and divergence lines, and the two readings of
`cost_from_fills`. `basis` is the real average, as a history variable. Settlement and
explanation are passes over the numbered fills: functions of how many fills are done. `EquityDay` follows a sample
from the account's read over the quotes, one per coin, with the stored price as the fallback, to
its save, and the reader's choice of the day's first and latest sample. `Backtest` lets TLC choose
every series of up to `MaxBars` bars, with closes from `Prices` and opens from `Opens`; both runs see a bar when it closes and execute at the next open.
`ResearchJobs` follows tokens, queue and threads; a timed-out thread goes on.

### Operator surface

`HistoryPages` separates a row's moment from its commit, so that a row may appear behind a reader's
cursor; `steady` are the rows that matched all along. `OrderLineage` has the engine's transactions
on one side and the page's statements on the other. `SoakDigest` computes the verdict of a day from
the rows and keeps, as history, the ticks the process was down. `OperatorPages` has every page
request at its own await, on one snapshot they share: answers are applied in the order they arrive,
and `overlap` keeps, as history, from which moments the requests then reading were asked for.
`OperatorControls` splits each
control at the await of its form's body and of the trading lock.

## Runs

| run | distinct states | what it shows |
|---|---|---|
| `OrderExecutionCycle` | 186 104 (with symmetry) | two orders of two units, a lagging venue whose answers may be unreadable, a crash or a failed write at every step: no duplicate, no orphan, nothing posted while another order is in doubt, no settlement without fills, and `OrderContract` is kept |
| `OrderExecutionRetry` | 6 502 | one order, any retrying caller, a venue without lag: the order is accounted for in the end |
| `KillSwitchSafe` | 62 204 | four transitions, failing file and database, lost file, restarts in calls |
| `KillSwitchHistory` | violated | a stop whose file write raises is in force and never recorded |
| `TradingCycleSafe` | 188 | controls at every await, restarts, failed recovery; an order in doubt is resolved or halts |
| `ReconciliationSafe` | 1 688 655 (with symmetry) | an order of two fills whose answers may tell nothing, and one of none, a deposit, lag, failed and ambiguous saves, restarts, re-arms; three fills of two sizes and prices with fees in dollars or coins and a transfer; two days of equity samples with two buys and a fault |
| `RiskSafe` | 1 661 862 | two symbols, two prices, three orders; equity 1 to 4 over two days; every series of six bars with closes at three prices and opens at two, for both strategies; three research jobs from two reviews |
| `FeedSafe` | 897 009 | three coins, one traded and one failing, two add requests; three on/off requests; one coin's candles over a reach of three with pages of two; eight buckets of the market feed, two per page; the storm alert over a window of seven ticks |
| `ProviderSafe` | 321 562 | two overlapping calls; two orders at the simulator; a search over two pages with two other orders; three changes of an order of three; two tasks that read and keep the account listing around two writes; the sandbox check under a budget of fourteen requests |
| `OperatorSafe` | 615 410 | two emitters and a restart; two page requests around one move at the broker; three rows over pages of one; two orders' lineage; three days of soak; two sessions with the controls |
| `StreamHealthRecovers` | violated | the feed does not recover from an outage longer than the heartbeat timeout |
| `ReconciliationCounts` | violated | after a divergence a fill is counted twice |

Why the bounds are enough. Two orders are the least with which one in doubt can meet a new one;
two units make a partial fill; `MaxSends = 2` lets the duplicate happen if nothing prevents it.
Four transitions allow stop, re-arm, stop, re-arm. In
`MCReconciliation` the order with two fills makes every partial reading; the one beside it executes
nothing, so that rows, cancels and closings meet it without multiplying the fills. The two fills are
interchangeable there (`AlikeFills`), in every operator and in both properties, none of which names a
fill. `OneAtATime` follows an answer that tells nothing, the deposit, and what comes after a halt that
adopted more than the opening holdings, only while there is one order: two orders in doubt at once are left to `OrderExecutionCycle`, and both to the proofs, which
know no such bound. One move of the holding is enough for a page to
show a snapshot from before it. Three requests to the feed switch are needed for one to wait while two others pass.
Two calls are enough for one to change the breaker the other has passed; two pages are the
least a search can be cut between, and two other orders fill the page before the one sought; a new
total below, within and above what may have been filled covers every branch of a change; a budget
of fourteen lets every step of the sandbox check happen; three rows, of which two share a
moment, make a cursor's tie; a window of three days has an oldest, a middle and a current one;
six bars at three closes let a position open, close and open again, and a second buy signal come while
one is held, and the cent is set so that rounding occurs; the bounds of the
clocks exceed every timeout by one tick, and ages are capped only where a greater one makes no
difference. `TradingCycle` is small because it is finite as it stands, but for its two
constants, for which the proofs hold in general. The proofs remove the bounds for every safety
property of the runs.

Type invariants are proved where proofs rest on them; elsewhere `TypeOK` states the kinds of the
variables for the reader. Deadlock is checked except in `OperatorSafe`, `ProviderSafe`,
`ReconciliationSafe` and `RiskSafe`: a walk that has ended, a check that is over, a series that is
used up and an account whose bounds are reached really stop.

Further properties are stated in the modules and hold on the same configurations when they are
added to them. Proved as well: `SpacedAlerts`, `ClearsOnlyRecovered`, `ListSound` and `TradingUntouched`
(`FeedSafe`), `RateBound` (`ProviderSafe`), `SavedBeforeDismissed` (`OperatorSafe`), `CountedOnce`
(`ReconciliationSafe`), `SettledForGood` (`OrderExecutionCycle`) and `HoldoutSealed` (`RiskSafe`). Not proved: `NeverStuckOpen` (`ProviderSafe`), `DaysStand` and
`ResultIsWhatHappened` (`OperatorSafe`) and, over five bars, `ReportAddsUp` (`RiskSafe`). The
standing runs keep to the properties that are hardest to test.

## Fairness

- `OrderExecution`: the lock holder's steps and arrivals are weakly fair (every await has a
  timeout). `SF` of `CycleStart` and of finding and recording says that a call tried again by
  each cycle succeeds in the end: candles keep coming and the venue and the database are not
  down for ever, and that an answer the adapter can read comes again and again: a venue that calls an
  order pending for ever leaves its row in doubt for ever, which the code ends by halting
  (`ResolvedOrHalted`). Nothing makes a particular cycle succeed.
- `TradingCycle`: the process is restarted (`WF(Boot)`), not every recovery is interrupted
  (`SF(Recovery)`), candles keep closing (`SF(CycleStart)`), awaits end and the clock runs.
- `StreamHealth`: the task's own steps, heartbeats of a provider that is up, and `SF` of a candle
  message on a live connection, since a connection may drop before each one.
- `Watchlist`, `ProviderHttp`, `OperatorAlerts`: the event loop gives every task its turns, and
  each request ends because the HTTP clients have timeouts.
  `EachCoinCollected` takes it that a request for a good coin is answered in the end; the breaker that
  all coins share (`app/watch_feed.py:118`) is not modelled, and while a bad coin keeps it open the
  others fail too.
- Crashes, drops, refusals, operator actions and market moves are never fair.

## Proofs

`tlapm` checks every proof from the named assumptions on the constants only; no step is omitted.

- `OrderExecutionProofs`, for any orders, any finite set of fills, any `MaxSends`, both modes.
  The invariant `IInv` is `TypeOK` with `VenueBooks` (what was recorded was executed),
  `OneRequest` (at most one request under way or accepted per client order id), `SettledRows`
  (closed and settled rows agree with the venue), `CurrentOrder` (the row an operation works on
  is in the status its label needs) and `Learnt` (what it has read is still true). None of the
  safety properties is inductive: each depends on what an operation has learnt, which is why
  `Learnt` is the heart of it. Results: `TypeCorrect`, `NeverTwoOrders`, `ClosedOrdersStayAway`,
  `NoSettlementWithoutFills`, `NoOrphans`, the action properties `PostsOnlyWithoutDoubt` and
  `SettledRowsStay`, and the refinement `ImplementsContract`. They hold although a live row may become
  unresolved again: `CurrentOrder` says that no other row is unresolved from the choice of an order to
  its POST, which is what the trading lock gives, and says nothing about the time between.
- `KillSwitchProofs`, for any number of transitions. `FileHolds` (a completed stop is in the file
  too) and `CallUnderWay` strengthen `StopsHold` and `KeptUntilSaved` (`WrittenTransitionsKept`);
  `LoweringIsJournaled` follows from the same invariant.
- `TradingCycleProofs`, for any timeout and threshold. `OneLateOrder` needs `ApprovedBefore`: an
  order awaiting its lookup while the switch is not running is the first since the stop.
- `RiskProofs`.
  - The reserve, for any symbols, prices, quantities and limits. `ReadIsCovered`: the dollars that
    were read are still there at the decision, because executions only return dollars and one
    decision is under way at a time.
  - The loss limits, for any limits and bounds. `Kept` says where all samples are: with a process
    that could read the file, else in the file, unless a process died with unsaved ones.
  - `ReplayMatches` (`Parity`), for any bars and amounts. Parity speaks of the end of the series
    only; `InStep` says what leads there: until then, unless a refusal mattered, replay and
    backtest hold the same. It assumes `FeeInQuote` and `SymbolLimit < 2`, the code's defaults;
    without them it is false (below).
  - `RunsFollowReviews`, for any requests and bounds. `Unused`: a review that can still be
    confirmed has queued nothing. `HoldoutStaysSealed` goes on to the windows themselves;
    `WindowsAreCounted` shows their number with a bijection.
- `AccountProofs`.
  - `BooksHoldWhatWasSeen` and the action property `UnseenMovementHalts`, for any orders, fills and
    movements. `NothingEntersUnseen` needs `RecordedFirst`: a fill that is counted and not recorded
    is one of an order still tracked as unfinished, which the next run reads, and records, before it
    compares; and `ReadFromVenue`, since fills are read and saved at another moment than the status.
    `ReconciliationTypes` carries `AnswersReal`: what was read of an order was an answer about it.
  - `EachFillCountedOnce` (`CountedOnce`), for the same. `SettledWithoutUs`: a fill that is in
    the baseline without having been counted, and that no halt was for, belongs to an order whose
    row has ended and that the schedule no longer tracks, so that no later run looks at it. It
    rests on what a run reads (`ReadsTracked`) and on which orders have rows (`HasRow`).
  - `BooksShowWhatIsMissing` (`DivergenceIsWhatIsMissing`), for any fills in any order of saving, any
    unit, sizes, prices and fees. The pass over the fills is a function of how many are done; that
    it exists and is the only one (`PassExists`, `PassUnique`) is shown once, for any pass, and
    `ProjectedAndMissing` then goes along it: what is projected and what is missing add up to the
    account, and settling toward zero loses less than a unit on each side.
  - `AverageIsReal` (`CostIsReal`), for any fills with fees in either asset and coins from outside.
    `Honest` compares a walk over the fills with the real average; `CostInv`: the reading with fees
    in the coin is honest whatever happens, the one without while no fee was in the coin. It assumes `Transfers \subseteq {"in"}`;
    with coins sent away it is false (below).
  - `DayResultIsReal`, for any coins, prices and failures. `JobReal` and `PricesReal`: a sample
    under way holds the amounts of one account the venue had, and prices it quoted. It assumes
    `OneListing`, as with Coinbase; with two reads it is false (below).
- `FeedProofs`.
  - `FeedRunsAsSaved`, for any number of overlapping requests. `SwitchInv` adds what a waiting
    request may still do, and that a service without a saved choice has nothing running.
  - `ChartsAreWhole`, for any reach, page, interval and window. `NoHoles`: within the reach of the
    backfill nothing is missing before a stored candle, since pages are saved oldest first;
    `ReadInv`: what each of a read's three queries saw still holds of the table, except for what
    has been pruned since.
  - `ListStaysSound` (`ListSound`, `TradingUntouched`), for any number of overlapping requests. The
    list repeats no coin, which its length and the number of its coins show only through a
    bijection (`WatchedCounted`); what the cycle has read and has still to do is never traded.
  - `StreamEmitsNewBuckets` (`EmitsNewBuckets`), an action property, for any page size and length of
    history. `StreamInv`: while the task is connected, or about to be, the newest
    bucket it knows to be closed is as late as every stored one, and during a gap fill every stored
    one is before the gap's end.
  - `StormAlertsAreSpaced` (`SpacedAlerts`, `ClearsOnlyRecovered`), action properties, for any threshold
    and timeout. `AlertInv`: while no alert stands, the last one was the interval ago or the stream has
    recovered since, and only a connection that has lasted reports health. It takes in the disconnects
    whose record failed: they leave the window and the runtime's idea of the stream as they were.
- `ProviderProofs`.
  - `CarriedOutAtMostOnce`, for any calls and retries: a call that is not over has not been
    carried out (`NotYetApplied`).
  - `SendsWithinRate` (`RateBound`), for any capacity and any calls: what was sent in the last ticks
    and may be sent now came from a full bucket and the tokens added since (`WithinRate`). The sums
    are those of every function that adds the ticks up (`SumsBack`); `SumsBackExist` shows that
    there is one.
  - `SimulatedBooksFollow`, for any orders, schedule, prices and rates. Sums over a finite set
    are shown not to depend on the order they are taken in (`SumsExist`, `SumsCommute`,
    `OneMoreSummand`); then each operator on the book keeps it balanced, the pass over all limit
    orders by its number of turns. `SimInv` adds that an order that timed out has no fill, which is
    what the exception in the property is about.
  - `AmendedWithinTotal` and `SandboxLeftClean`, for any sizes, attempts and budgets. `OrderBounded`
    and the invariants of the two paths say what may still be executed; both assume
    `CancelIsFinal` (false for Gemini's adapter, below).
  - `PositionsKnowWrites` (`WritesSeen`), an action property, for any reading tasks, pages and freshness.
    `ListingKnows`: the pages of a listing are newer than the last write answered when it began, and a
    listing is kept until the next write is answered. More is false with several tasks (below).
  - `SearchAnswersHold`, an action property, for any listing: the pages read so far and the ones to
    come leave no gap in which the order could be, while orders arrive (`PagesLeaveNoGap`,
    `AheadIsFound`).
- `OperatorProofs`.
  - `SignedOutForGood`: `NonceOutlivesSession`, a nonce is dropped only when its session has ended.
  - `PagesAreCurrent` (`CurrentSinceOverlap`), for any number of overlapping requests, failures and
    restarts. `RequestsInOrder`: what a request has read is no older than it is, and it is no older
    than one of the moments each page under way overlaps; `PagesInv` carries that over to the shared
    snapshot and the pages. That a page is as new as its own request is false (below).
  - `LineageStaysWhole`: `SpineWhole`, the order in which the engine writes, and `PageHolds`, that
    what the page read in the reverse order is still true of it.
  - `PassesAreEarned`, for any day that intervals divide: `SampledWhileUp`, a sample tells that the
    process ran through the interval before it; `IntervalsOfADay` is the arithmetic.
  - `WalksAreExact`: `CursorDivides`, shown rows lie on one side of the cursor and the rows to come
    on the other; `LinesAddUp` is about the sum of the refusals by gate.
  - `AlertsAreAccountedFor`, for any tasks, pages and restarts: `OnePlace`, an alert is with one task or
    listed once, and `DismissalsAreSaved`, what is marked was named by an event first.

`AccountHolds`, `FeedHolds`, `ProviderHolds`, `OperatorHolds` and `RiskHolds` bring these to the
specifications that the runs check: a behaviour of a composition is a behaviour of each part.

The assumptions of theorems, beyond those on the kinds of the constants, are thus `OneListing`,
no coins sent away (`Transfers \subseteq {"in"}`), `CancelIsFinal`, `FeeInQuote` and
`SymbolLimit < 2`. Each holds in the run's
configuration, and for each the README states what happens without it.

Only model-checked:

- all liveness (`EventuallyAccounted`, `ResolvedOrHalted`, `StormClears`, `EachCoinCollected`,
  `EveryCallEnds`, `EveryAlertListed`, `NeverStuckOpen`), which is outside the prover's reach;
- `ReportAddsUp` (`Backtest`) and `DaysStand` (`SoakDigest`), stated but in no standing run: both
  speak of folds and filtered sequences whose operators the provers cannot instantiate;
- `ResultIsWhatHappened` (`OperatorControls`), which follows from the shape of one step.

## Divergences found

Three are runs of the project. The others are stated in the modules, with the quoted text above
the definition, and fail when the definition is added as INVARIANT or PROPERTY to the
configuration named (with the change in parentheses; for a module
that is instantiated, through a definition `P == Inst!P` in the MC module).

| statement | the code | the text | configuration |
|---|---|---|---|
| `Recovers` | `data/stream.py:237` measures a new connection from the last heartbeat of an old one; after a long outage no connection survives its first message that is not a heartbeat | `docs/phase-1.9-paper-runtime-alerts.md:23`: a disconnect "resumes" | run `StreamHealthRecovers` |
| `CountsWhatSnapshotLacks` | `portfolio/scheduler.py:238` adopts a fill the fills endpoint did not return yet, and counts it when it is recorded | `app/recovery.py:118`: "not in the snapshot" | run `ReconciliationCounts` |
| `OpenOrdersAreReRead` | `portfolio/scheduler.py:238` drops an order the venue ended while its row is open | `portfolio/scheduler.py:68`: "Open orders ... are re-read before each comparison" | `ReconciliationSafe` |
| `StopSavedOnceDatabaseReturns` | `risk/kill_switch.py:194`: nothing retries the save when the database returns | `docs/user-manual.md:819`: "is saved once it returns" | `KillSwitchSafe` (`FairSpec`) |
| `NothingForgotten` | `risk/kill_switch.py:126`: the state is raised in memory, the file write raises, and the transition is neither journaled nor kept to be | `docs/user-manual.md:819`: "Every kill-switch transition is saved to `system_events`." | run `KillSwitchHistory` |
| `NoDataLoss` | `data/stream.py:158`: a bucket that closes between gap fill and reconnect is never filled | `docs/phase-1-gate-acceptance.md:62`: "no unexplained data loss" | `FeedSafe` (`Lapses = FALSE`) |
| `WakesAtOnce` | `app/watch_feed.py:184` clears a wake made during the cycle | `docs/phase-4.1-watch-feed.md:86`: "immediately after a coin is added" | `FeedSafe` |
| `NeverSooner` | `app/watch_feed.py:258` dates a failure at the cycle's start | `docs/phase-4.1-watch-feed.md:84`: "never sooner" | `FeedSafe` |
| `PrunesOnlyWatched` | `app/watch_feed.py:222` prunes the list read at the cycle's start | `docs/phase-4.1-watch-feed.md:100`: "currently watched" | `FeedSafe` |
| `OriginExplains` | `api/watchlist_routes.py:225` sets the origin after an await | `data/feed_setting.py:33`: "Why the feed is on or off" | module `FeedSwitch` alone |
| `RunsAsSaved` without `untold` | `data/feed_setting.py:84-110`: a commit that raises may have been committed, and the feed is then left, or put back, against the saved choice until the next start or choice | `docs/phase-4.1-watch-feed.md:38`: "If either write fails, nothing is saved and the feed is left as it was." | `FeedSafe` |
| `NewerStaysNew` | `api/operator.py:277` counts through a list a restart has emptied | `api/operator.py:270`: "stays new" | `OperatorSafe` |
| `CurrentIsFresh` | `api/operator.py:233` applies answers in the order they arrive | `docs/phase-1.7-operator-surface.md:37`: "never presents stale broker data as a current successful refresh" | module `OperatorPages` alone |
| `SurvivesRestart` | `app/trading.py:467` keeps a sample it could not save in memory only | `app/trading.py:324`: "survive a restart" | `RiskSafe` |
| `MeasuresEveryLoop` | `app/trading.py:171` returns before sampling while an order is pending | `app/trading.py:268`: "measure every loop" | `RiskSafe` |
| `SalesNotTrapped` | `risk/engine.py:169` applies the trade limit to sales | `docs/phase-1.5-risk-execution-portfolio-reconciliation.md:11`: "a sell is checked only against the held position" | `RiskSafe` (`MaxTradeNotional = 1`) |
| `AllocationKept` | `risk/engine.py:181` does not count accepted buys that have not executed | `docs/crypto-algo-trading-planning-document.md:158`: "Maximum aggregate crypto allocation" | `RiskSafe` (`Prices = {2}`) |
| `BooksAlwaysFollowFills` | `brokers/simulated.py:440` divides by zero when a buy closes a short exactly, after the balances have changed; `brokers/simulated.py:298` fills a timed-out limit order that `:283` then accepts again | `docs/phase-1.3-simulated-broker.md:7`: "records fills, balances, and positions" | module `SimulatedBroker` alone |
| `NeverLooksComplete` | `api/history.py:620` counts before `:636` reads at most one row more than the cap of each kind: rows recorded between the two push counted ones out of a tile that says it is complete | `api/history.py:520`: "a busy tile never looks complete when it was truncated" | `OperatorSafe` |
| `AllDaysStand` | `api/soak.py:412` reads disconnects from the window's start on: the oldest day loses those of the evening before, and with them its storm | `api/soak.py:410`: "Flag each UTC day containing ``threshold`` disconnects in the rolling window" | `OperatorSafe` (`MaxDays = 4`) |
| `WithinTotal` | `brokers/gemini.py:358` turns a cancel answer of a still-live order into canceled, and a replacement is submitted beside it | `brokers/http.py:138`: "A cancel request is only acknowledged: the original can still be live" | `ProviderSafe` (`CancelIsFinal = FALSE`) |
| `AnyWriteDiscards` | `brokers/coinbase.py:283`: a listing that another task began before an order write and ended after it is kept | `brokers/coinbase.py:280`: "Any order write discards it." | `ProviderSafe` |
| `LeavesNothingAtAll`, and `LeavesNothing` with `CancelIsFinal = FALSE` | `probes/gemini_sandbox_lifecycle.py:650` cancels the orders it knows to rest, not one whose answer was lost | `probes/gemini_sandbox_lifecycle.py:6`: "any order still resting at the end is canceled" | `ProviderSafe` |
| `NegativeIsAFailure` | `portfolio/ledger.py:75` raises when late-saved fills of a healthy account project below zero | `portfolio/ledger.py:28`: "A projection that goes negative is a local accounting failure" | `ReconciliationSafe` |
| `PositionsFollow` | `portfolio/ledger.py:64` takes a fee charged in the coin from the balance and not from the position | `portfolio/ledger.py`, `apply_fills`: the positions "the broker should report after ``fills``" | `ReconciliationSafe` (`FeeAssets = {"coin"}`) |
| `CostIsReal` without its exception | `portfolio/fill_cost.py:159`: a fee in coins hides an equal transfer in, and coins sent away are not seen where a later walk ends on the same quantity | `portfolio/fill_cost.py:21`: "That check is what establishes the fee asset, not an assumption" | `ReconciliationSafe` (`Transfers = {"out"}`, or the exception dropped) |
| `PnlIsReal` | `brokers/gemini.py:202` reads the balances again for the positions: a buy between the two reads is counted as dollars and as coins | `portfolio/day_pnl.py:7`: "A figure is reported only when it is real." | `ReconciliationSafe` (`OneListing = FALSE`) |
| `Parity` | `app/replay.py:118` buys again on a second buy signal when the symbol limit leaves room, where the backtester ignores a signal while it holds; and the backtester charges its fees in dollars whatever their asset | `app/replay.py:6`: "any difference between the two results comes from the risk engine refusing an order" | `RiskSafe` (`SymbolLimit = 2`, or `FeeInQuote = FALSE`) |
| `ThreadsBounded` | `api/research.py`: a run that timed out is no longer active while its thread still works | `docs/phase-1.7-operator-surface.md:313`: "the workspace at two active jobs" | `RiskSafe` |
| `RetainedBounded` | `api/research.py:456` stops trimming at the first active job | `docs/phase-1.7-operator-surface.md:314`: "24 retained jobs" | `RiskSafe` |
| `AcceptedRuns` | a test window or a holdout of one bar is queued and fails in its thread; `api/research.py:154` reads zero bars as sixteen | `docs/phase-1.7-operator-surface.md:335`: invalid requests "are refused before the job is started" | `RiskSafe` |
| `GapsAreEmpty` | `api/markets.py:273`: a prune between the grouped read and the edge read leaves a bar with candles without its edges, shown as a gap | `api/markets.py:19`: "A bar with no candles is a gap" | `FeedSafe` |

## Not modelled

- HTML, SVG and JSON rendering, the system, diagnostics and dashboard pages beyond the alert list,
  and the queries that only sum or list (trends, coin catalogue): they change no state, and what
  they show is read in one statement.
- The signature of a session cookie and of provider requests, and payload parsing: data without
  control. A cookie that was not issued is taken to be refused.
- The soak's evidence record, which stores what its form says, and the manual's build.
- Operating parts of `app/main.py` that read configuration and wire objects together; the
  configuration checks of `core/guards.py`; the database schema.
- Decimal arithmetic as such: quantities are small integers, averages ratios; rounding is
  modelled where the code settles amounts (`Books`) and reports money (`Backtest`).
- The read-only Coinbase probe and the capture of sandbox traffic: they place no order.

## Plan

1. `DaysStand` with the digest's windows as sets of moments instead of filtered sequences, so
   that it can be proved.
2. `TradingCycle` as a refinement of an abstract "decide, then one order" machine.
3. `KillSwitch` composed with `TradingCycle`, so that a stop inside a cycle meets a failing file.
4. `OrderSearch` as the lookup of `OrderExecution`, in place of `VenueLag`.
