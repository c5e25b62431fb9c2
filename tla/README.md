# Formal models of the trading platform

TLA+ models of the server side of this repository, the TLC runs that check them
on small instances, and theorems about them that TLAPS proves for every value
of the constants. Paths in this file that begin with `trading/`, `billing/` and
so on are below `src/backend/src/`.

Checking: `tlc -workers 2 -config BotLadder.cfg MCTestnetBot`, and so on for the
rows of the table in section 4. Proving: `tlapm M.tla` for each of the modules
`FiniteSums`, `TestnetBotProofs`, `TestnetBotResultProofs`, `BillingProofs`,
`BacktestProofs`, `SimulatedTradingProofs`, `LiveDeskProofs`, `PlatformProofs`.

## 1. The system

A NestJS server with PostgreSQL (Prisma) and Redis trades spot coins for its
users. A user configures strategies ("bots"): buy one unit, buy more each time
the price falls by a step (DCA), sell when it rises above a take profit. Deep
levels may be *independent legs* with a take profit of their own. A bot runs on
paper, on the Binance Testnet or LIVE. Cron passes drive everything; each takes
a Redis lock, because several instances of the server may run.

| Component | State it keeps | Operations | Interacts with |
|---|---|---|---|
| Scheduler locks (`redis/redis-lock`, `trading/scheduler-concurrency`) | one Redis key per scheduler or bot, with a token and a TTL | acquire, extend, release, keepLockAlive | every scheduler, the tick of a bot, the deposit scanner |
| Testnet strategy runner | nothing; reads strategies, positions, legs | a tick: pending check, exits, entries | lock of the bot, order execution |
| Order execution (`testnet-strategy-execution`) | `TradingPosition`, `TradingSubPosition`, `TradingOrder` | executeMarketOrder, syncOrder, cancelStaleEntryOrder, closePosition, updateTakeProfit | actions, exchange, risk services |
| Strategy actions (`testnet-strategy-action`) | `StrategyAction`, the idempotency record of one order | claim, markFailed, markCompleted, claimRetry, getClaimedRetry, manualRetry, cancelRetry | execution, retry and sync passes, owner |
| Retry and order-sync schedulers | a process-local flag | list, claim, execute; list, sync, cancel stale, recover | actions, execution |
| Emergency stop and exit (Testnet, LIVE) | nothing of their own | stopUserStrategies, exitUserPositions | strategies, orders, exchange |
| LIVE risk and safety (`live-strategy-risk`, `live-trading-safety`, `risk-budget`) | safety profile: ceiling and its confirmation | assertCanExecute, setCapitalCeiling, recordConfirmation | execution, billing, packages |
| Packages (`packages/`) | templates, packages, subscriptions and their bots | subscribe, setBotStatus, cancel, the administrator's changes | strategies, safety profile |
| Strategies (`trading/strategy.service`) | `TradingStrategy` | create, update, setStatus, remove | all runners |
| Billing ledger (`billing/billing.service`, `profit-fee.scheduler`) | accounts, ledger entries, settings, settled positions | ensureAccount, activateMembership, settleProfitFee, creditDeposit, adminAdjust, updateSettings | LIVE positions, LIVE risk, deposit scanner |
| Deposit scanner (`billing/bsc-deposit.scanner`) | last scanned block | one scan | chain node, ledger |
| Paper trading (`trading/paper-*`) | simulated positions, legs and orders | open, DCA, close, close legs, recovery, take profit by hand | paper scheduler, requests |
| Backtest runs (`trading/backtest-*`) | `BacktestRun` with its events | create, start, complete, fail, recover stale; analytics | candle store, simulators |
| Backtest simulators, historical candles | a purse and a basket in memory; `HistoricalCandle` | simulate; import, read in pages | backtest runs, package templates |
| Entry signals, recovery calculation | a cache of candles | does the rule hold; the next recovery leg | runners, simulator |
| Credentials, demo exchanges (`exchange/`) | `ExchangeCredential`; orders at Bybit Testnet and OKX Demo | save, validate, remove; an order with its attempts | requests of the user |
| Notifications (`notifications/`) | recent list, history, webhook counters and their snapshots, preferences, connection tokens | publish, deliver with retries, link and disconnect a chat, channel settings | every service that publishes; Telegram |
| Authentication (`auth/`) | users, reset tokens, known devices | sign in, second factor, change and reset of the password | requests; the token a browser keeps |
| Market data (`market/`) | quotes, the market list, one ticker stream per symbol | quote, list, subscribe, reconnect | widgets of the browser, runners |
| Fees of an order (`testnet-strategy-execution`) | net quantity, quote and fee of `TradingOrder` | placing, syncOrder | exchange |
| Administration and monitoring, screens of the web client | single rows, caches | reads and row updates | all |

How the parts interact: the scheduler of the bots starts ticks; a tick claims an
action, places an order and records it in one transaction. The order-sync pass
reconciles recorded orders that still rest, the retry pass repeats failed
actions, the owner and the emergency stop write the same rows through the API.
The only things they share are the rows of the database, two kinds of Redis
locks, and the exchange. Billing is separate: closed LIVE positions are charged
a fee, transfers on the chain are credited, and the balance decides whether a
user may enter LIVE trades.

What is hard here, and what would make each part correct:

* **Locks.** A pass can outlive its lock; renewals and answers get lost; a
  process dies holding the key. Correct: one pass at a time, no pass touches the
  lock of another, the lock comes back.
* **Bot.** Ticks decide from rows read before the lock of the bot is taken.
  The position is read before the exchange is called and written after it.
  Answers get lost, orders fill in parts, are cancelled when stale, retried,
  synced by two callers at once. Correct: an order is placed once, a level is
  bought once, a settled order is accounted exactly, the ladder counter agrees
  with the orders, an action follows its lifecycle, nothing is stuck.
* **Billing.** Fees, memberships, rewards and deposits write one balance at the
  same time, from several instances. Correct: a balance is the sum of its
  entries, a fee is charged once and exactly when its position is settled, paid
  days are granted, no transfer is missed or credited twice.
* **Packages and LIVE safety.** Checks outside the transaction that relies on
  them; a ceiling that is raised while an older one is confirmed; exposure read
  in two queries; an emergency exit that works through rows which the passes go
  on changing. Correct: one active subscription per package, a ceiling that covers
  the packages, no entry under a ceiling the user never confirmed, an exit that
  no rule of the platform blocks.
* **Paper trading.** Requests and passes write totals computed from stale rows.
  Correct: books and orders agree whenever nobody wrote from a stale row, and a
  level is bought once even then.
* **Backtests.** A request that goes on after its run was declared stale, dies,
  or runs beside another one. Correct: a run starts once and ends once, the stored
  events are those of its result, no run is RUNNING for ever. Around it: candles
  are read and imported in pages while another run does the same; the simulator
  keeps a purse through levels, legs, stops and partial exits; the report is
  computed again from trades and points alone. Correct: no candle is missed, money is
  kept, the report says what trades and points say.
* **Fees.** An order and its trades are read by two calls with fills in between, by
  two callers at once. Correct: an ended order is recorded exactly.
* **Signals.** A bot evaluates a window of cached candles, the backtest all of them.
  Correct: both decide the same.
* **Credentials, demo exchanges.** A key is validated by one call and stored by
  another; the answer to an order is lost while the order moves between the
  exchange's lists; the user sends an id again while a call with it is under way.
  Correct: the LIVE key cannot withdraw, calls that come one after the other place an
  id once, and overlapping ones at most one order each.
* **Packages' catalogue, settings of a bot.** Each request validates the whole and
  writes what it read, or only its part. Correct: what is stored was valid as a whole.
* **Notifications.** Telegram repeats its messages; requests restore settings they
  read before; counters are saved by overlapping promises. Correct: a link connects
  once, a chat belongs to one account, the counters add up.
* **Authentication.** Hashing takes long enough for another request to change the row.
  Correct: a token is worth the password in force, codes and links work once.
* **Market data.** Shared requests and answers that arrive late, sockets that close.
  Correct: prices are recent, one flight serves everybody, a stream comes back.

The hazards are listed with their lines in `PROJECT.json`.

## 2. The modules

```
RedisLock ── SchedulerPass                              \
BacktestRuns (INSTANCE RunLifecycle)                    |
LiveDesk   PackageCatalogue                             |
StrategyMath ─┬─ PaperTrading                           |
              ├─ StrategySettings                       |
BacktestReport ┴─ BacktestSimulator                     |- Platform ── MCPlatform
HistoricalCandles   EntrySignals   NetFills             |
ExchangeKeys ── DemoOrders                              |
TelegramLink   NotificationDelivery   Accounts          |
MarketQuotes   MarketList   PriceStreams               /

TradingKeys ─┬─ StrategyActions ─┐
             ├─ Exchange ────────┼─ OrderExecution ── OrderSync ── UserOperations ── TestnetBot ── MCTestnetBot
             └─ Positions ───────┘                                                      │
                                                        ActionLifecycle (INSTANCE) ─────┘
BillingLedger ── DepositScanner ── Billing ── MCBilling
```

The modules with the proofs, and what each is about:

```
TestnetBotProofs ── TestnetBotResultProofs              TestnetBot
FiniteSums ─┬─ BillingProofs                            Billing
            ├─ BacktestProofs                           BacktestRuns, HistoricalCandles,
            │                                           BacktestReport, BacktestSimulator
            ├─ SimulatedTradingProofs                   PaperTrading, EntrySignals
            ├─ LiveDeskProofs                           LiveDesk, PackageCatalogue
            └─ PlatformProofs                           Platform: SchedulerPass, StrategySettings,
                                                        DemoOrders, TelegramLink, MarketQuotes,
                                                        MarketList, PriceStreams, Accounts,
                                                        NotificationDelivery, NetFills
```

**RedisLock** is one key: `Acquire` is SET NX PX, `Extend` and `Release` are the
scripts that compare the token. **SchedulerPass** is the life of one cron pass
on each instance: the flag `running` (pass = idle or not), the lock, the work,
the renewal timer of `keepLockAlive`, the release in `finally`, a release or an
acquisition that throws, a crash. Time is a tick, a second of the code.
`Renewing` selects the schedulers that renew (LIVE strategies, LIVE order sync).

**TradingKeys** gives the identities: an action key is a string in the code and a
record here; the client order id is a hash of it, so a key also names the order
at the exchange and its row. **StrategyActions** is the action row and each
operation on it. **Exchange** is the account: what was placed under a client
order id and what the calls answer (external, from how the code uses it).
**Positions** is the books and the fill accounting. Its operators take both the
row a service *read* and the row *in the database*, since the code writes totals
that were computed from the former.

**OrderExecution** is `executeMarketOrder` for every caller in it: `Begin` (risk
check, strategy and position read), `ClaimCheck`/`ClaimInsert` or
`GetClaimedRetry`, `Lookup` (retries only), `Place*`, `Commit` (the transaction),
`MarkFailed*` (the two catch blocks), and the retry pass around it. **OrderSync**
is `syncOrder` as read, fetch, commit, the cancellation of stale entries and the
recover pass; it runs for the scheduler and for requests of the owner.
**UserOperations** has the owner: status, manual retry, cancelled retry,
emergency stop. **TestnetBot** composes them with the tick of the runner: rows
are loaded, then the lock of the bot taken, then pending work checked, then an
exit or entry chosen. Every `await` between a read and a write of shared state
separates two actions. Prices are not modelled: each price condition may hold or
not (`DecideNextEntry`, `DecideLegExit`, `DecideParentExit`, `Hold`). Quantities
are lots; a limit entry may be filled in any number of lots at any time.

**ActionLifecycle** is the abstract specification: what the record of one order
promises (claimed, with the exchange, tried again, given up, ended), with at most
`MaxAttempts` retries. `TestnetBot` implements it (`ImplementsLifecycle`).

**BillingLedger** is the ledger: `Post` is `applyEntry`, with its unique
reference; each service operation is one action per transaction.
`activateMembership` is two (what its serializable transaction reads, and the
commit, refused if what it read has changed). **DepositScanner** is a scan: head,
progress, addresses, a range of logs, credits one by one, saving progress; any
step may fail; two instances may scan at once. **Billing** composes both.

**BacktestRuns** is `BacktestCandleRunnerService.run` with the two conditional
updates of `start` and the ones of `complete` and `fail`, the events that are
stored *before* the run is completed and without a look at its status, the pass
that gives up stale runs, and the deletion of a strategy. A simulation comes to
any result, since the candle store may change between two requests; an exception
that no catch block sees (`return complete(...)` is not awaited) and a process that
dies are one action, `Abandon`. **RunLifecycle** is the abstract specification of a
run (created, started, completed with a result or given up, deleted), which
`BacktestRuns` implements (`ImplementsRunLifecycle`).

**LiveDesk** is the LIVE side of one user: `subscribe` (what its serializable
transaction reads, and its commit), `setBotStatus` and `cancel` with each read as a
step, the capital ceiling and its confirmation, the pass that trades the running
bots with the reads of `assertCanExecute` (profile, positions, resting buys), the
order sync, and `exitUserPositions` from pausing the bots to stopping them. Money is
counted in entries. How an order is claimed, placed once and accounted is what
`TestnetBot` models, since both environments share the service; here it is placed
and recorded in one step. `profile.agreed` and `profile.own` are history: which
ceilings the user confirmed, and whether he set one himself.

**StrategyMath** holds what every engine computes alike: `BuildPlan` divides a risk
budget into the levels of a ladder, `NextLeg` sizes a recovery leg and finds its
trigger and target. Prices are a grid; a trigger is rounded to it in the direction
in which the code compares.

**PaperTrading** is one bot on paper. A tick or a request reads the position
(`ReadForTick`, `RequestWrite`), decides (`TickAction`, in the order of the code), and
writes in one transaction what it computed from the row it *read* (`CreatePosition`,
`ExecuteDca`, `CloseEligibleSubPositions`, `ExecuteRecoveryDca`, `ExecuteRecoveryClose`,
`ExecuteClose`). `lost` is history: some operation wrote from a row that had changed.

**BacktestSimulator** is one candle after another of the DCA simulator: entries,
recovery legs, the stop, the exits, the end of a cycle, each purchase a step.
**BacktestReport** has the loops over the equity points and the sums over trades by
which `analytics` reports drawdown, time under water, recoveries and deployed
capital. **HistoricalCandles** is a load: read page by page, import page by page
where the table has nothing (a run) or too little (an administrator's backtest), read
again; two loads may share the range.

**EntrySignals** is the dip-and-confirmation rule three times: as the live service
computes it from the candles it keeps (`CheckCached`, `CheckFetches`, `CandlesArrive`),
as a backtest does over its list (`SignalAt`), and as the sentence the rule is
(`DipAndBounce`). **NetFills** is the fee side of an order: placing or finding it,
reading its trades by a second call, and syncs by two callers.

**ExchangeKeys** stores, validates and removes keys per exchange; **DemoOrders** adds an
order on a demo exchange: each attempt looks through the lists of open and finished
orders in turn, places, reads back, or fails and is repeated; answers are lost, orders
end, keys change between any two calls. Calls overlap as they like, also with one id:
nothing in `DemoExchangeExecutionService` asks whether a call with it is under way.

**PackageCatalogue** has templates and packages as two administrators change them
(validated with what they read, `Write*` later; shares are deleted and written by one
transaction), and a subscription that turns a package into bots: the package, its shares
and their templates are read one after the other, as the nested include of
`packages.service.ts:92` is, and a write between two of these reads makes the answer
`torn`. **StrategySettings**
is the partial update of a user's bot: merged with the row read, validated whole,
written whole. Which settings are valid is `ValidStrategy`, from the code.

**TelegramLink** has the token of a link, the webhook's calls (`ReceiveStart`,
`ClaimToken`, `CheckOtherAccount`, `ConnectChat`, each may be lost or repeated) and the
requests that write the channels. **NotificationDelivery** follows a notification into
the recent list, the history and the webhook, with its retries, counters and snapshots.

**Accounts** is the row of one user under overlapping requests: `Login` ... `SignIn`,
`ChangePassword` ... `WritePassword`, `RequestReset`, `ResetPassword`, `Setup`, `Confirm`,
`SwitchApp`, and what a browser keeps (`session`). **MarketQuotes**, **MarketList** and
**PriceStreams** are three caches: one quote; the list of all symbols with the flight
that its readers share, whose two requests (`Promise.all`) come or fail in any order,
the second one after the flight has ended, too; and the ticker stream of a symbol with
the feed group of the browser.

**Platform** puts these parts side by side. They share no row, so a behaviour is about
one of them (`part`). **MCPlatform** gives the constants, and starts the parts that are
not played in one way only.

## 3. What is not in a model, and why

* TESTNET and LIVE bot: recovery mode, stop loss, orders placed by hand,
  `closePosition`, `updateTakeProfit`, costs and prices, the limits of the risk service
  (a refusal is a choice), the merged read of several strategies. Recovery, stop loss
  and the arithmetic of levels are modelled for the paper engine and the simulator,
  fees in `NetFills`.
* What an administrator's request reads of packages, shares and templates is one step;
  of the subscription, which turns it into bots, each read is one.
* The report takes the trades of a run in the order they were made. The query orders
  them by `executedAt` alone (`backtest-run.service.ts:142`), which is the time of their
  candle: the database may return those of one candle otherwise, and the deployed
  capital of a candle that both buys and sells is then what that order makes of it.
* A transaction of the database is one step. Serializable transactions that read
  and then write are two steps with the check the database makes at commit.
* LIVE desk: packages of several bots (one update starts and stops all of them; the
  bots of a subscription are in `PackageCatalogue`), the limits of the risk service
  other than the ceiling, two emergency exits at once. TESTNET `exitUserPositions`.
* Entry signals: RSI, whose smoothing is arithmetic on reals. Rounding of orders to
  the steps of an instrument; encryption and signing of keys.
* E-mail and Telegram messages (sent once, not recorded), their texts.
* Registration, and the rate limit of the HTTP layer.
* Administration, monitoring, the screens of the web client: reads, writes of single
  rows, and formatting. Heartbeats decide nothing.
* `trading/testnet-fill-accounting` is provided by its module and injected nowhere.

## 4. The runs

| Run | Instance | What it shows |
|---|---|---|
| `platform` | the eighteen parts of the next table | the properties named there, and `TypesOK`: the type invariants of all eighteen parts |
| `bot_ladder` | a runner, the sync pass; levels 1, 2 and an independent leg 3; 2 lots; 2 attempts per level | `LevelBoughtOnce`, `SettledOrdersAccounted`, `DcaCountMatchesOrders` |
| `bot_retries` | two runners, two retry passes, sync; 2 levels, 1 lot, one retry; restarts at any moment, as often as one likes | `NeverPlacedTwice`, `OneUnresolvedAction`, `ImplementsLifecycle` |
| `bot_syncs` | a runner, the sync pass and a sync request; 2 lots; restarts | `SettledOrdersAccounted` |
| `bot_owner` | a runner, a retry pass, sync; two operations of the owner out of six; 2 lots; restarts | `NeverPlacedTwice` |
| `bot_progress` | a runner, a retry pass, sync, with fairness | `NeverStuck` |
| `billing` | two halves, one per behaviour: two scanners, two transfers, four blocks of which the first three get their confirmation, scanned from block 1 in ranges of two; two users, two membership requests, two fee passes, an administrator, three settings | `ScannedDepositsCredited`, `LedgerBacksBalance`, `DepositsCredited`; `PaidDaysGranted`, `SettledMeansCharged`, `RewardsWithinFee`, `NoMembershipOnCredit`, `FeesSettled` |
| `bot_stale_exit` | a runner and the sync pass, one level of 2 lots | **violated**: `BooksMatchFills` |
| `bot_emergency` | the same with one emergency stop | **violated**: `SettledOrdersAccounted` |
| `bot_parent_exit` | one parent level and one independent leg | **violated**: `SalesAreRecorded` |
| `desk_exit` | one subscription, six operations | **violated**: `ExitNeverBlocked` |
| `list_asks` | three readers of the market list, kept 2 | **violated**: `OneTickerRequestPerTtl` |

Why the bounds are enough. Two of everything that can race (instances, passes,
requests) is what every check-then-act in this code needs to go wrong; a third
one finds the same rows in the same states. Two lots give an order that is
unfilled, partly filled and filled, which is all that `syncOrder` tells apart.
One retry makes "failed, tried again, failed for good" happen; the count only
appears in `attempts < MaxAttempts`. Level 2 is the ordinary DCA, level 3 the
independent leg: deeper ones repeat the same transitions. One cycle is enough for
the properties, which speak of the attempts and orders of one position; a
second cycle is a scenario of section 6. Two blocks per range and three that are safe
make a pass that ends in the middle, at the end and beyond the safe head, and one that
finds the start block not safe yet.
`CHECK_DEADLOCK FALSE` is set where the owner may stop the bot for good, and in
the billing run, which ends when days, entries and blocks have run out, and in
the runs of `MCPlatform`, where runs and operations run out. Two subscriptions, a
confirmation and a start, or a ceiling, a confirmation, a start and an exit, are the
four operations that `platform` needs; a position of a stopped bot that meets an
exit takes six.

Of the other parts: two requests that overlap, with a third one between or after
them, is what a check against a row that has changed needs; a token, a key or a price
has to be replaced once to be stale, hence two of each. Two attempts of an order and
two calls give every order of "placed, answer lost, looked for, found or not" (the code
has four attempts, which `MaxAttempts` bounds in the same guard; the theorem is for any
number). Six equity points hold two spells under water of different lengths and one
that does not end; five candles hold a cycle with recovery and the start of the next
one; pages of two over a range of four end inside it, at its end and empty. Quantities
and prices are whole numbers chosen so that the divisions of the code come out even or
are rounded as the grid rounds.

Each property of a passing run has a mutant in `PROJECT.json`: a definition of the
model changed the way a plausible bug would change the code (a lookup left out,
an update without its condition, a wrong delta, progress saved too far, a claim
without its charge), which makes TLC find the property violated.

The parts of `platform`, each a behaviour of its own:

| Part | Instance | Properties |
|---|---|---|
| scheduler | two instances, lock of 5 ticks, passes of any length, renewals lost for up to 3 ticks | `OnePassAtATime`, `ForeignLockUntouched`, `LockComesBack` |
| backtests | two runs, two requests, two results | `EventsMatchResult`, `ImplementsRunLifecycle`, `RunsEnd` |
| desk | two packages, two subscriptions, a bot of the user's own, two requests at once, one pass, four operations | `OneActivePerPackage`, `CeilingCoversActive`, `EntriesUnderConfirmedCeiling` |
| paper | one tick and one request of the owner, one position, two operations, prices 1, 2, 4, 8, restarts | `PaperBooksBalance` |
| simulation | three bots with two recovery legs each (a smaller budget and two independent legs; a stop; a dip entry with confirmation), 5 candles, fee 10 % | `BacktestReportsSound`: `SimulationBooksBalance` |
| report | capital 44, values 40, 42, 44, 50, 6 points | `BacktestReportsSound`: `ReportMatchesPoints` |
| candles | a run and an administrator's load, range of 4, pages of 2, gaps at 2, at 4 or none | `BacktestReportsSound`: `LoadMissesNothing` |
| fills | one order of two fills, two syncs, fees in coin, quote or a third asset | `NetFillsExact` |
| demo | two keys of two accounts, one of which may withdraw; one key request, two changes; one id, two attempts, two calls that may overlap | `ExchangeAccessSound`: `DemoOrderPlacedOnce`, `LiveKeyCannotWithdraw` |
| telegram | two users, one chat, two calls of the webhook, two tokens, three requests one at a time | `TelegramLinksSound` |
| notifications | two notifications, a recent list of one, two tries, one restart | `WebhookCountsAddUp` |
| catalogue | two templates, one package, shares 50/50 or all, two administrators with three requests, one buyer with his three reads | `CatalogueSaleable` |
| settings | one bot, two editors, seven partial updates, four requests | `SettingsAlwaysValid` |
| quotes | two readers, kept 2, timeout 2, time up to 7 | `MarketDataShared`: `QuotesAreRecent` |
| list | three readers, kept 2, one late request of each kind | `MarketDataShared`: `OneFlightForAll` |
| streams | three streams, two groups, two widgets, two cuts | `MarketDataShared`: `StreamsStayAlive` |
| accounts | two overlapping requests of five, one browser, three steps of codes, one reset link | `AccountsSound` |
| signals | two bots, two rules, two shapes of a candle, six closed candles | `LiveMatchesBacktest` |

### The five violations

* **`bot_stale_exit`.** A tick reads a position of one lot (its entry is partly
  filled), the sync books the second lot, the tick sells one lot, and the filled
  exit takes *all* of the position out of the books. A lot stays on the account
  that no position knows (`testnet-strategy-execution.service.ts:998`).
* **`bot_emergency`.** The Testnet emergency stop cancels an order that has
  bought one lot and writes only the status; nothing lists the row again
  (`testnet-emergency-stop.service.ts:186`). `docs/operations.md:42` says a
  partial fill is kept, and the LIVE exit does reconcile it.
* **`bot_parent_exit`.** The parent is sold out while a leg is open. The new
  average price is 0 / 0; the row cannot be stored; the transaction fails after
  the sale, and the action is given up (`:1008`). The test at
  `testnet-strategy-execution.service.spec.ts:607` has this very case, with a
  mocked database that takes the value.
* **`desk_exit`.** The bot of a package has bought and is stopped (the step that
  `cancel` demands). The emergency exit pauses the bots that *run*
  (`live-emergency-exit.service.ts:22`); `closePosition` refuses every bot that is
  not PAUSED (`testnet-strategy-execution.service.ts:168`), so this position is
  reported FAILED and stays open. `docs/admin-operations.md:75` says "Emergency exit
  still closes package positions", and `cancel` sends the user there (`packages.service.ts:199`).
* **`list_asks`.** The comment at `market-data.service.ts:54` says that Binance sees "at
  most one 24h-ticker request per 5 s". A flight of which one request fails stores no
  snapshot, and its `finally` (`:89`) clears `tickersInFlight`: the next poll asks at
  once, even while the tickers of the failed flight are still on their way.
  `OneFlightForAll`, which holds, says what is left: without a failure the tickers are
  asked for once per TTL.

## 5. Fairness

* `SchedulerPass`: time goes on, a pass ends (its calls have timeouts), its
  release is sent, a due timer fires. A release may throw and a process may die
  at any point, so `LockComesBack` rests on the expiry of the key.
* The other parts of `Platform` state safety only and assume nothing: any request
  may stop for good in any step.
* `TestnetBot`: a call in progress goes on (HTTP timeouts, database); a pass that
  can list an action again and again lists it at some time (`SF`: other actions
  come in between); of the requests to the exchange not all fail (`SF` on the
  fetch and on the cancellation of a stale entry). Nothing is assumed of the
  owner, of the market or of the other requests. Without the last assumption the
  code cannot promise anything: a bot waits while the exchange does not answer.
  `bot_progress` has no crashes: a crash between claim and commit leaves an
  action that only the owner can resolve (hazard at
  `testnet-order-sync-scheduler.service.ts:72`).
* `BacktestRuns`: time goes on and the recovery pass comes. Nothing is assumed of
  the requests, which may die in any step: `RunsEnd` (a run is again and again not
  RUNNING) rests on the pass alone.
* `MCBilling`: the chain grows; of the steps of the one scanner that is not down for
  good, and of the settlements of a position by the one fee scheduler that is not, not
  all fail when tried again and again. The other scanner and the other scheduler may
  stop in any step. The halves never mix, so a condition on a step of either half, one
  of the disjuncts of which can never be taken, is the condition on both.

## 6. What the models show beyond the runs

These are states the models reach; the runs exclude them by a constant, or state
a property that does not speak of them. They are in the notes of the hazards in
`PROJECT.json`.

* A second, late sync of one order takes back what the newer one booked and sets a
  COMPLETED action to SUBMITTED again. The next sync books the fill a second time
  into the *position*, although the row stays right: `bot_syncs` shows the row.
* The owner retries an action while two retry passes work (the lock of the retry
  scheduler is fixed and not renewed): the order may be placed twice.
* The owner cancels a retry whose order is on the exchange: the level is bought
  again. So it is after an emergency stop that wrote CANCELLED over a partly filled entry,
  when the bot is resumed. A retry that the risk check refuses loses its order.
* A tick that read "no position" while a retry opened one buys level 1 of the next
  cycle into the open position.
* A pass of a scheduler that does not renew its lock overlaps with another as soon
  as it takes as long as the lock lives (`README.md:232` says so).
* The first scan of an installation without a start block that fails before its
  progress is saved leaves blocks behind that are never read.
* `LiveDesk` reaches an exposure above the ceiling (a fill is booked between the two
  reads of the exposure, and neither sees it), a confirmation that arrives after the
  ceiling was raised and confirms the raised one, a RUNNING bot of a cancelled
  subscription, and an entry that a tick places after the exit paused its bot.
* A run that was given up gets its trades and equity curve all the same, when its
  request comes to an end later. `EventsMatchResult` speaks of completed runs.
* Paper trading: totals written from a stale row are lost; a recovery leg is bought on
  a position that was closed meanwhile; a take profit of 0 stays after a level that
  met a closed parent.
* An import of candles that fails leaves a part behind, and a run that finds it
  simulates on the part.
* Two administrators leave a package with shares of both, or with a template that was
  just taken out of use (`clash` in `PackageCatalogue`). A subscription whose reads an
  administrator writes between may make a bot whose base order is more than its budget
  (`torn`): the last check of the settings (`createWithClient`) does not compare them.
* A bot that is started between the check of an update and its write is updated while
  it runs.
* Two overlapping reset requests leave two links that work. A setup of the second factor
  that was read before it was switched off leaves it on without a known secret.
* An answer with candles that was read before one closed and used after it is taken
  for closed ones (`torn` in `EntrySignals`).
* A disconnected Telegram chat comes back when a request writes the settings it had read.
* Two calls with one client order id that overlap both look for the order, both find
  nothing, and both place: an exchange that refuses an id only while an order with it is
  open takes the second one when the first is filled at once. `DemoOrderPlacedOnce`
  counts the calls under way for this reason; for calls one after the other it says once.
* An order at a demo exchange that arrives after the next attempt has looked for it is
  placed twice: `DemoOrders` loses answers but delays no request.
* With a second runner or a retry pass, a tick may buy the next level of a position that
  another pass has closed since the tick read it: the DCA counter is then written from
  what was read, and `DcaCountMatchesOrders` does not hold. With two syncs of one order
  neither does the bound in `TestnetBot!TypeOK`, as the fill is booked twice.
* The last price of a stream never expires: widgets go on with the polled one.

## 7. What is proved

`tlapm` proves, for every value of the constants that the named assumptions admit:

| Theorem | Statement |
|---|---|
| `PlatformProofs!TypeCorrect` | `Spec => []TypeOK` |
| `PlatformProofs!LeaseIsHeld` | `LeaseOutlivesPass => (Spec => []LeaseHeld)` |
| `PlatformProofs!PassesExclude` | `LeaseOutlivesPass => (Spec => []OnePassAtATime)` |
| `PlatformProofs!ForeignLockSafe` | `Spec => ForeignLockUntouched` |
| `TestnetBotProofs!BotTyped` | `Spec => []BotTypes`: the types of all parts of the bot |
| `TestnetBotProofs!OrdersPlacedOnce` | `CarefulRetries => (Spec => []NeverPlacedTwice)` |
| `TestnetBotResultProofs!SettledOrdersAreAccounted` | `CarefulRetries /\ NoEmergencyStop => (Spec => []SettledOrdersAccounted)` |
| `TestnetBotResultProofs!ActionsHaveALifecycle` | `QuietOwner /\ OneSync => (Spec => ImplementsLifecycle)` |
| `TestnetBotResultProofs!LevelsBoughtOnce` | `CarefulRetries /\ NoEmergencyStop /\ NoCancelledRetry => (Spec => []LevelBoughtOnce)` |
| `TestnetBotResultProofs!OneActionAtATime` | `OrderlyBot => (Spec => []OneUnresolvedAction)` |
| `BillingProofs!ScanInvariant` | `StartBlock # NoBlock => (Spec => []ScanInv)` |
| `BillingProofs!NothingMissed` | `StartBlock # NoBlock => (Spec => []ScannedDepositsCredited)` |
| `BillingProofs!FeesChargedOnce` | `Spec => []SettledMeansCharged` |
| `BillingProofs!LedgerInvariant` | `Spec => []LedgerInv` |
| `BillingProofs!BalancesAreBacked` | `Spec => []LedgerBacksBalance` |
| `BillingProofs!RewardsAreFunded` | `Spec => []RewardsWithinFee` |
| `BillingProofs!MembershipsArePaid` | `Spec => NoMembershipOnCredit` |
| `BillingProofs!MembershipsLast` | `DaysNeverCut => (Spec => []PaidDaysGranted)` |
| `LiveDeskProofs!OneActive` | `DeskSpec => []OneActivePerPackage` |
| `LiveDeskProofs!EntriesConfirmed` | `DeskSpec => []EntriesUnderConfirmedCeiling` |
| `LiveDeskProofs!CeilingCovers` | `DeskSpec => []CeilingCoversActive` |
| `LiveDeskProofs!DeskTyped` | `DeskSpec => []DeskTypeOK` |
| `LiveDeskProofs!PackagesSaleable` | `CatalogueSpec => []CatalogueSaleable` |
| `BacktestProofs!RunsInvariant` | `RunsSpec => []RunsInv` |
| `BacktestProofs!EventsMatch` | `RunsSpec => []EventsMatchResult` |
| `BacktestProofs!LifecycleImplemented` | `RunsSpec => ImplementsRunLifecycle` |
| `BacktestProofs!LoadsMissNothing` | `CandlesSpec => []LoadMissesNothing` |
| `BacktestProofs!ReportIsOfPoints` | `ReportSpec => []ReportMatchesPoints` |
| `BacktestProofs!SimulationBooks` | `SimulatorSpec => []SimulationBooksBalance` |
| `SimulatedTradingProofs!BooksBalance` | `PaperSpec => []PaperBooksBalance` |
| `SimulatedTradingProofs!LiveIsBacktest` | `SignalsSpec => []LiveMatchesBacktest` |
| `PlatformProofs!EveryBotValid` | `SettingsSpec => []SettingsAlwaysValid` |
| `PlatformProofs!ExchangeAccess` | `DemoSpec => []ExchangeAccessSound` |
| `PlatformProofs!LinksSound` | `LinkSpec => []TelegramLinksSound` |
| `PlatformProofs!QuotesRecent` | `QuotesSpec => []QuotesAreRecent` |
| `PlatformProofs!ListShared` | `ListSpec => []OneFlightForAll` |
| `PlatformProofs!StreamsAlive` | `StreamsSpec => []StreamsStayAlive` |
| `PlatformProofs!MarketShared` | `QuotesSpec /\ ListSpec /\ StreamsSpec => []MarketDataShared` |
| `PlatformProofs!AccountsAreSound` | `AccountSpec => []AccountsSound` |
| `PlatformProofs!WebhookCounts` | `DeliverySpec => []WebhookCountsAddUp` |
| `PlatformProofs!FillsAreExact` | `NetSpec => []NetFillsExact` |
| `PlatformProofs!PlatformHasParts` | a behaviour of the platform is one of each part |
| `PlatformProofs!PlatformTyped` | `PlatformSpec => []TypesOK`: the types of all eighteen parts |
| `PlatformProofs!BacktestsAreSound` | `PlatformSpec => []BacktestReportsSound` |

`Spec` is the specification of the module that the proofs are about. The assumptions
are the ones next to the constants: that sentinels (`NoRun`, `NoUser`, `NoBlock`) are no
values, that bounds are numbers, that what a request enumerates (notifications,
templates) is finite, that there is a highest price, that a fee is part of its fill,
that the prices of candles, the capital and the points of a report are positive and a
dip is at most 50 % (`strategy.service.ts:329`). The amounts of the paper bot and of the
simulated bots are whole numbers, and so are the quotes of their plans: the factors of a
plan are powers, which the provers do not compute.

**One pass at a time.** `OnePassAtATime` is not inductive: two working passes are
excluded because each holds the one key, and it holds it because the key cannot have
expired. `LeaseHeld` says this: the key of a working pass carries its token, its
remaining life and the age of the last renewal add up to the TTL, and the next renewal
comes before the end. `LeaseOutlivesPass` is the condition on the configuration (for a
renewed lock, longest outage plus one interval below the TTL; for a fixed one, longest
pass below the TTL). That no UUID is used twice is how tokens are made (`Fresh`); the
lemma `TokensStayDistinct` carries it to every state, and it is the reason that a pass which lost its lock cannot touch the next
holder's: `ForeignLockSafe` needs no assumption about time at all.

**The bot.** `BotTypes` is the type of every part, without the bounds of a run; all
results about the bot rest on it.

*Placed once.* `PlacedInv`: an action, a row or an order that does not exist is in
nobody's hands (`RowsExist`); a tick about to place an order is the only one to know its
action (`FirstAttempts`); without manual retries one executor holds an action and nobody
can claim it (`OneHolder`); and an order that somebody is about to place is not on the
exchange (`PlacedOnce`). A claimed retry excludes the others through the conditional
update of `claimRetry`; `manualRetry` sets a row to FAILED again without a look at who
works on it, so with two retry passes at once the same key is placed twice:
`CarefulRetries` says there is one retry pass, or no retry by hand.

*Settled orders.* A sync writes totals from a row and an answer that may both be stale.
`SettledInv` says why the result is right in the end: an answer stays true of the order
(`Truthful`: it never says more than was executed, and one that says "ended" says all),
and a row that a sync goes on from counted no more than the answer that came later. The
emergency stop writes CANCELLED without asking (`bot_emergency`), hence
`NoEmergencyStop`.

*Lifecycle.* A step simulation. `LifecycleInv` links the status of an action to who
holds it: an executor that holds it finds it PENDING (or FAILED, between the two writes
of the catch blocks), a recorded order means SUBMITTED or ended. Two syncs of one order
break it (the late one sets COMPLETED back to SUBMITTED), and so do the three operations
of the owner that write the row: the hypotheses are `OneSync` and `QuietOwner`.

*Levels.* `LadderInv`: a cancelled action bought nothing, and when a further attempt at
a level exists or is about to be made, the earlier ones bought nothing. A retry that the
owner cancels may have its order on the exchange, which gives `NoCancelledRetry`. Ticks
may outlive their lock, syncs may overlap, and the owner may retry: for a level the
unique key of the action decides.

*One action.* `TicksInv`: a tick past the lock holds it, and until it claims no action
is unresolved. So it needs what `OrderlyBot` says: a tick does not outlive its lock, and
nobody reopens an action behind its back.

Hardly one of these hypotheses is there for the proof's sake: TLC violates the property, or
the refinement, when one is dropped. `LevelBoughtOnce` fails with `cancelRetry` and with
`emergencyStop`, `OneUnresolvedAction` with two syncs, with a manual retry and a
cancelled one, and with two ticks one of which outlives the lock, `ImplementsLifecycle`
with two syncs and with a manual retry, `NeverPlacedTwice` with a manual retry and two
retry passes. Section 6 tells these as scenarios of the code.

**Sums.** `FiniteSums` proves what the other modules need of sums over finite sets: the
sum of a set with an element more or less, of two disjoint sets, of smaller and equal
terms, and that the folds of the model are these sums. The induction over the set is one
over a *family* of its subsets: the smallest one on which a claim fails (`SmallestSet`,
from the well-foundedness of strict inclusion) cannot exist. So no theorem with an
operator parameter is needed.

**Balances, rewards, memberships.** `LedgerInv` is `Books` (every entry is of a known
kind and user, the entries are finite, each balance is their sum, rewards fit their fee)
and `Accounts` (the settings in force and those an activation has read are accepted
ones, and the fee it read was covered by the balance it read). A request for a
membership commits only if what it read still holds, so the balance it checked is the
balance it draws on. `RewardsAreFunded` holds under every settings that `updateSettings`
accepts (`RewardsBounded`: every level is rounded down, so together they take half of a
fee at most). For paid days, `DaysInv` says that an activation adds its days after the
expiry it read. The property counts days by the first setting, so `DaysNeverCut`
excludes settings with fewer: an administrator may cut the days of later buyers.

**Nothing missed.** The property speaks of the saved progress only; passes overlap, and
a slower one saves an older number. `ScanInv` says for every pass on its way that
everything before its range is credited, that its range ends at a head it read *before*
the addresses (so it knows each receiver of a transfer in the range), and that a
transfer in the range is credited or still in its hands. It needs a configured start
block: without one, a first pass that fails is followed by one that starts at a later
head. Each operation keeps the invariant by a lemma of its own (`ReadHeadKeeps` ...
`SaveProgressKeeps`); all other operations only let the ledger grow (`LedgerGrows`,
`ScanInvStays`).

**Fees charged once.** `SettlementInv` adds to the property that the settings are valid
ones, so that a profit that is worth a fee under every valid setting is charged. The
theorem rests on the claim and the charge being one transaction (`Settle`), and on
entries never being removed.

**Backtest runs.** Events are stored before the run is completed and without a
condition, so `EventsMatchResult` alone is not inductive. `RunsInv` adds why no other
request can store events in between: a request past `start` is at work on a run that
left PENDING (`WorkIsOnStarted`), at most one request is at work on a run (`OneAtWork`,
because `start` takes only a PENDING run and nothing makes it PENDING again), and what a
request is about to complete is what it stored (`ResultsAreKept`). The implementation of
`RunLifecycle` is a step simulation: each action is a step of the abstract run or leaves
it as it is. No assumption is made beyond the ones on `NoResult`, `NoRun` and
`StaleAfter`.

**Candles.** `CandlesInv`: what is stored is listed on the exchange and lies in the range
asked for. A load has read only stored candles, in order, and below its cursor every one
that was stored when it began; an import has stored everything below its cursor
(`LoadInv`). A page is the first candles from the cursor on (`PageIs`): that a finite
set of times has an order (`OrderExists`), and that a page leaves out nothing in between,
are arguments by a smallest counterexample.

**Report.** `ReportInv` says of each number that the loop keeps what it is of the points
passed so far: the peak is the best equity (`Best`), the drawdown the deepest loss from
the best before a point, the longest spell is that of points under water up to one that
is not (`Spell`), the recoveries are counted (`RecoveredIn`, `CameBack`), and every point
under water outside the present spell came back (`BackOK`). A step of the loop adds one
point; how each of these definitions grows by one is a lemma of its own.

**Simulator.** `SimInv`: the legs held are of levels bought in this cycle and what they
cost is within the budget (`LotsOK`), the phases of a candle agree with what is held
(`CycleOK`), the balance is the capital less what was spent and plus what was received,
and with what the lots cost it is the capital and the realized result (`Books`). A
purchase or a sale moves one lot, so the sum over the lots changes by one term.

**Platform.** The parts share no variables, so a step of the platform is a step of one
part or leaves the part as it is: every behaviour of the platform is one of each part
(`PlatformHasParts`), and the theorems of the parts carry over. For the LIVE desk the
types need a reason in three places (`DeskInv`): a bot gets the status its request was
made with, a confirmed ceiling was set before, and what a subscription needs together is
a positive sum of the packages it has read. `TypesOK` takes the type invariants of all
parts together; each is part of the inductive invariant of its part, and of its proof.

**Paper trading.** `PaperInv` has a part about rows and one about workers. `RowsInv`:
the rows are typed, each position agrees with the sums of its orders as long as nothing
was lost (`Agree`), and a level was bought at most once, and only if there is a leg for
it (`LegsKept`). `WorkersInv`: what a tick or request has read still exists, though it
may have changed. Every write is a rewrite of one row (`Rewrites`) that is a purchase or
a sale of what its row *as read* says; it agrees with the books if the row is still the
one that was read, and is marked as lost otherwise. That a level is bought once does not
depend on this: a second leg of the level meets the unique key.

**Signals.** The rule looks at the last candles only, so whoever has the end of the
history, long enough (`EndOf`), decides what the rule says of all of it (`SameRule`). A
fall from the highest to the lowest point is one from some point to some point, because
a dip is at most 50 %: the higher the start, the deeper the fall (`FallBetween`).
`SignalsInv` then says that what is kept, and what an answer holds before its open
candle, is the end of what was known, and that this is all but the newest candle.

**LIVE desk.** `SubscriptionsInv` adds to `OneActivePerPackage` what a subscribing
request has read: subscriptions that exist and that are to other packages or have ended.
They stay so, since no subscription starts twice; what appeared after the read is
refused at commit (`Serializable`). `CeilingInv` says that a ceiling marked confirmed is
one the user agreed to, and that a pass which goes on saw such a one: raising the
ceiling takes the confirmation away in the same write. `CoverInv` adds for
`CeilingCoversActive` what a subscribing request rests on (`Covers`): it has read what
was active, and while nothing else was made the ceiling does not fall below the one it
read, unless the user lowers it himself. The proof needs that a subscription made by
another request in between makes the commit fail, also one that was ended again since:
`Serializable` compares all that were made, as PostgreSQL does.

**Catalogue.** `CatalogueInv`: a request whose reads nobody wrote over (`~stale`) would
find again what it validated (`ReadHolds`), so what it writes is valid as a whole;
shares are unique per package and template. That a subscription pays for its bots is a
statement about sums: the rounded parts of an amount are at most the amount
(`AllocationsFit`, `BotsArePaid`); it needs only shares that were read together, so it
holds for a torn answer too. That each bot can pay its base order needs the three reads to
belong together (`BuyerHolds`).

**Demo orders.** `DemoInv`: once an account has an order with an id, its orders and the
calls that may still place one without another look (`Placing`: past the lists, or with
only a history left that does not have it) are together at most the calls that were ever
under way at once (`OnceAt`): a call that begins later finds the order, open or in the
history, which it never leaves. Before there is an order, the calls under way are the
bound. A LIVE key on its way to the database was validated, and what an exchange allows a key
does not change.

**Telegram.** `LinkInv`: of the calls that found a token unused one only claims it, it
has not connected before, and a token that connected is used. The chat is looked up
before it is written, which is not enough; the unique column refuses the second account
(`ConnectChat`).

**Settings.** The rules play no part beyond being checked: what a request writes is what
it validated as a whole, and an update writes all of the row.

**Market data.** `QuotesInv`: a quote in the cache is kept at most until its own time
plus timeout plus time to live, and a request under way is no older than the timeout.
`ListInv`: within the TTL of the last question, and without a failure since, its flight
is under way or gave a snapshot that is younger than the question (`AskedOnce`): so
nobody asks again.

`StreamsInv`: the stream in the Map is not stopped, and its timer is armed exactly when
it has no socket; every other stream is stopped for good (`StreamOK`). A feed somebody
listens to polls or is about to, and its stream is in the Map unless it was cut without
the browser's knowledge (`FeedAlive`).

**Accounts.** `AccountInv`: a version of the password never comes back, so what was read
with it, a token or the row in the hands of a request, is older than the row or has its
password (`OfItsVersion`); the last step on the row covers every authenticator code that
was accepted; a link that is unused has reset nothing.

**Webhook.** `DeliveryInv`: each copy of the counters, in memory, on its way or saved,
is one that deliveries explain (`Explained`: outcomes are at most the deliveries opened,
attempts at most the rounds there are). As long as no process restarted, the difference
is exactly the deliveries begun and not ended.

**Fees.** `NetInv`: a row claims at most what the order came to, and exactly that as
soon as it says that all fills are in it (`Within`); a call has read a prefix of the
fills, and the trades no earlier than the number of fills (`Aware`). So a sync that
finds an order ended has read all of its trades. That a prefix of the fills has a
smaller sum is an induction over the fills, again as a smallest counterexample.

**Only model-checked**, and why:

* `DcaCountMatchesOrders` and the bounds in `TestnetBot!TypeOK`: `bot_ladder` checks them
  for one runner, one sync and no retries, and no more is claimed. The retry pass of the
  code always runs, and the counter need not agree with the orders next to it
  (section 6). `BotTyped` proves the types for every bot.
* The five violated properties; the violation is the result.
* Liveness (`LockComesBack`, `NeverStuck`, `DepositsCredited`, `FeesSettled`,
  `RunsEnd`): TLAPS does not reason about `ENABLED`.

No module that a proof uses declares a RECURSIVE operator.

## 8. Plan

Done: locks, the bot, billing, backtest runs with simulator, candles and report, the
LIVE desk, packages, settings, paper trading, entry signals, fees, keys and demo
orders, notifications, accounts, market data; the proofs of section 7. Left:

1. Recovery mode, stop loss, orders by hand, `closePosition` and the exit of all
   positions in the TESTNET bot.
2. The limits of the risk services across the bots of one user.
3. Registration, and RSI over a grid of closes.

Modules that a proof is meant for use functions and folds in place of RECURSIVE
operators, one action per operation, and invariants that are conjunctions of
named parts.
