# fxcore in TLA+

fxcore is a server (Go) in which language models trade crypto futures: it runs
*traders* (goroutines that ask a model for decisions and send orders), *backtests*
(the same over recorded candles) and *debates* (several models speak and vote on a
trade), behind an HTTP API, on top of one SQL store and seven exchange adapters.
This directory holds TLA+ models of those parts and of what surrounds them, TLC
instances of the models, and proofs checked by TLAPS.

Paths below are relative to the repository. `PROJECT.json` has the same facts in a
form for tools: components, runs, the lines every definition stands for, the
mutants the properties catch, hazards, findings and theorems.

## 1. The system

| Component | State | Operations | Talks to |
|---|---|---|---|
| Trader lifecycle: `api/v1/service/trader_svc.go`, `trader/engine/{engine,ordersync}.go`, `cmd/server/main.go` | the trader's row (status, configuration); `Engine.runners`; per runner a context, a wait group, two goroutines | create, start, pause, resume, stop, update; loop, orderSyncLoop; restart of running traders | rows through `store.WithTrader`; registry under `e.mu` |
| Orders and positions: `engine.go` (execute, closePosition, drawdown guard), `ordersync.go`, `order_fill_store.go`, `store.go` | tables of positions, orders, fills; `Metrics` in the trader's row; the holding at the exchange | open, close, guard, orderSync + positionBuilder, close by API | exchange adapter; four writers to one table |
| A cycle's decisions: `engine.go` (runCycle, decide), `engine/risk.go`, `kernel/`, `llm/`, `provider/` | the decision record; snapshots | read, ask, parse, filter, sort, execute, record | providers, model, adapter |
| Exchange adapters: `exchange/*.go` | lot sizes | order, close, conditional order, leverage, positions, fills | the venues |
| Backtest runs: `backtest/*.go`, `store/backtest_store.go` | `Engine.runs`, run state, window and positions; row, trades | start, pause, resume, stop, label, delete, load; runLoop | provider chain, model, store |
| Debate engine: `debate/*.go`, `store/debate_store.go`, `handler/debate.go` | `Engine.sessions`, `Engine.subs`; session rows, participants, messages, votes | create, start, cancel, delete, execute, read, subscribe; debateLoop, event streams | model, store, SSE clients |
| Strategies, models, exchange accounts, Telegram: services and stores of these names | rows | create, read, update, delete; activation, connection tests, resolution of an account | store |
| Accounts and sessions: `handler/auth.go`, `pkg/cache`, `pkg/jwt`, `web/src/api/v1/client.ts` | users, reset tokens, refresh tokens; the tab's store | register, reset, login, refresh, logout; the tab's silent refresh | store, Redis or memory |
| Gates: `middleware/{ratelimit,sign}.go`, `pkg/cache` | windows of the limiter, nonces | Allow, set-if-absent of a nonce | Redis or memory |
| Data API and dashboard: `handler/{data,dashboard}.go`, `data_svc.go` | counters of connections | paged lists; a WebSocket with push and read goroutines | store |
| Libraries: `mcp/`, `httpclient/` | a stream; a connection | call with retries, streamed call; websocket dial | vendors |
| Start-up, router, DTOs, web pages, scripts | none | routing, restoring, shutdown | everything |

(Unless they begin with `cmd/`, `mcp/`, `httpclient/` or `web/` these are under
`internal/`.)

How they interact. A handler changes a row in one transaction (`WithTrader`) or
reads it, changes the copy and writes the whole row back (every other service), then
calls an engine, which changes its registry under a mutex and starts or cancels
goroutines. The goroutines never call back: they read the row at every turn, so
the row is the only channel from handler to loop besides the context. Debates and
backtests keep a second copy of the state in memory and write the row from copies
taken earlier. Traders share exchange accounts, with each other and with their owner.

What is hard in it: handlers of several steps that overlap (nothing serialises
requests on one object); whole rows written back from stale copies; loops that end
themselves while somebody stops them; a status kept twice and copied in both
directions; fills that come again, late, in parts or for orders nobody remembers;
adapters that say the same thing to seven venues in seven ways; calls of seconds or
minutes between two looks at the context; process death between a row's step and
the engine's; a tab, a server and a cache that each hold part of a login.

What makes each part correct:

- *Lifecycle*: a registered runner is alive and not cancelled; a trader that is
  running or paused is being run, once; a stopped runner never trades again; a
  stop returns and a stopped trader's goroutines end; the row follows its machine.
- *Book*: a fill acts at most once; a position is closed once; every closing is
  counted; every fill is recorded in the end; the book is what is held.
- *Cycle*: orders come only of an answer read in full, appear in its record, close
  before they open and respect the limits of the strategy.
- *Adapters*: what is sent is what was asked for; a close only closes; the guard
  flattens; what is reported is what was executed.
- *Backtest*: one running run per user; completed means the whole period; the
  trades account for the positions; the goroutine of a run ends, and does not end
  early.
- *Debate*: a consensus rests on every speech; participants speak in turn; one
  goroutine per session; it ends; a started debate is not pending again; its
  watchers miss nothing their queue has room for, and are let go.
- *Rows*: what was acknowledged is stored; an edit changes what it names; what is
  in use is not deleted; one active strategy; complete accounts.
- *Logins and gates*: one refresh token per login, none comes back; one refresh
  serves all waiting calls; a nonce is good once; no more than the limit.

## 2. Modules

A module's `Init`, actions and next-state relation follow the code's operations by
name; comments in it name the function each stands for where the name does not.

| Module | What it is |
|---|---|
| `TraderStatus` | abstract: what the API promises of one trader's row |
| `TraderLifecycle` | one trader: handlers, registry, both goroutines of a runner, crash and restart; implements `TraderStatus` but for a roll-back that comes late |
| `PositionBook` | one trader's positions in one symbol and their four writers, with the exchange as environment |
| `Decisions` | one cycle, from the account it reads to the orders it sends and the record it leaves |
| `Venues` | the seven adapters and the account they share with others |
| `BacktestRuns` | any runs of any users: control requests, replay goroutines, trades, the saved rows |
| `Debate` | one session: requests, debate goroutine, memory and rows |
| `DebateStreams` | the event streams of a debate: subscribers, their queues, the handler of each |
| `Strategies` | strategies, requests that overlap, and the traders that use them |
| `ModelAccounts`, `TelegramBinding` | a user's models with their keys and connection tests; the binding that names one |
| `ExchangeAccounts` | exchange accounts, and which one a trader resolves |
| `TokenChain` | abstract: a login lives by one token at a time, none comes back |
| `Sessions` | a tab, its calls and silent refresh, and the server's tokens; implements `TokenChain` |
| `UserAccounts` | registration and password reset |
| `RequestGate` | the rate limiter, in memory and in Redis |
| `SignedRequests` | the stamp, the signature and the nonce of a write request |
| `Listings` | a client's walk through the pages of a list |
| `DashboardSockets` | the quota of dashboard connections and a connection's two goroutines |
| `McpClient` | a call of the mcp library, plain with retries or streamed |
| `WebsocketDial` | the websocket dial and its handshake goroutine |
| `MCTrading`, `MCLoops`, `MCApi`, `MCProgress`, `MCDebate` | the instances TLC runs: constants that are no literals, symmetry, and the composites described below |
| `Configuration` | strategies, models, binding and accounts together, for what is promised of all |
| `*Proofs` | theorems (section 5): about the module of that name; `TradingProofs` about `TraderLifecycle`, `BacktestRuns`, `Venues` and `MCTrading`, `AccessProofs` about `UserAccounts`, `RequestGate`, `SignedRequests` and `Listings`, `ConfigurationProofs` about the parts of `Configuration`, `Decisions` and `MCApi`, `ConnectionsProofs` about `DebateStreams`, `DashboardSockets`, `WebsocketDial`, `McpClient` and `MCProgress` |
| `Counting` | lemmas on numbers up to a bound (the greatest, induction, what a loop computes), for the proofs |

Composition. Each of `MCTrading` (venues, a trader, the book), `MCLoops` (a trader, a
backtest), `MCApi` (a cycle's decisions, rows, logins and gates) and `MCProgress` (what
must end) checks several components in one run: a behaviour is of one `part` (`scene` in
`MCTrading`), chosen in the initial state, and the others rest. That is no interleaving of
the components, and is not meant to be one: they meet in rows, and what one module needs
of another is in it as an environment. `PositionBook` has from `TraderLifecycle` that
there may be two order-sync goroutines of a trader (`Syncs`) and that the process may die;
`Venues` has from it that closings come of positions read earlier; `Strategies` has the
traders that start and stop, `TelegramBinding` the models that come and go,
`ExchangeAccounts` the resolving loops, `Decisions` the rows that other writers of the
book add and remove.

### TraderLifecycle

`status`, `config`: the row. `registry`: the entry of this trader in
`Engine.runners`. `cancelled`, `loop`, `sync`, `first`: a runner's context, where its
two goroutines stand, whether its first cycle is still to come. `pc`, `held`: where a
handler stands and which runner it has in hand. `awaited` and `overtaken` are history:
runners some `Engine.Stop` has waited for, and starts whose row another request has
moved since. `up`: the process.

`TraderStatus` is the machine of the statuses as the comments promise it
(`trader_svc.go:203`, `store.go:470`). A start may be taken back to idle while it is on
`trial`; a pause or a stop that was accepted meanwhile ends the trial and stands. The
code does not keep this: `StatusPromise` is violated (`status_trampled`, finding 2), and what
does hold, `StatusUnlessTrampled`, names the one step that breaks it, a `Rollback` that was
overtaken, and says that no other step of any handler, loop, crash or restart does.

A request is one step per lock or transaction, as in the code. Start: transition of the
row (`Start`), registration under `e.mu` (`EngineStart`, or `EngineStartRefused`),
`wg.Add` and the two `go` statements (`Spawn`), or the roll-back to idle (`Rollback`),
whatever the row says by then. Stop: transition, removal under `e.mu` (`EngineStop`),
`Cancel`, `WaitReturns`; the wait returns at once when `wg.Add` has not happened yet. A
runner's name may be used again once nothing refers to it (`Free`), which keeps the model
finite without a counter.

A loop reads the row (any error of the read means "gone", `StoreMayFail`), works a
cycle, waits. Its deferred function (`LoopExit`) takes out of the registry whoever is
there, as `engine.go:112` does. `ResumeFrom` says at which statuses some client
sends *resume*: the code accepts it wherever *running* is allowed.

### PositionBook

`holding` and `fills` are the exchange; `orders`, `seen`, `book`, `trades` the
tables (`seen` and `orders` by their unique indexes) and `Metrics.TradeCount`; `eng`,
`syncs`, `api` the writers with what they have in hand; `built`, `lost`, `crashes`
are history. A closing is two steps (the row, the metrics), reading open rows and
acting on them are two, a sync takes the fills it got one by one, and the process
may die between any two. `positionBuilder` is `SyncBuild`, `SyncClose`, `SyncMetrics`
and `SyncBackfill`.

### Decisions and Venues

`Decisions`: `risk`, `openRows`, `peak`, `daily` are the rows a cycle reads and writes,
`cycle` is the goroutine. A model's answer is a sequence of up to `MaxSaid` decisions,
cut short or broken as parsing allows; the filter takes them in order with the checks
in the order of `risk.go`, the leverage capped after the margin has been computed.
A setting that is zero or negative gives way to its default, as in `strategyConfig` and
`filterByRisk` (three positions, five times or once the balance), and an order without
a price, or without a quantity, passes the checks of size, ratio and margin unmeasured.
The conditions on percentages of the code are kept as inequalities over integers. The
two loops over an answer, that of the filter and the one that parts closings from the
rest, are recursive functions of the number of decisions gone through.

`Venues`: the venue, chosen in Init, has a position mode, holdings long and short, one
leverage per contract, conditional orders that wait, and executes or refuses what is
sent by its form: `After` is external. `…Order` is what an adapter sends, `…Position`
and `…Fill` what it makes of the venue's listings. A call is three steps: the
quantity is formatted, the leverage is set, the order is posted. Others of the
account trade between them. `reported` adds up the fills as `positionBuilder` would read them.

Amounts are half lots, so that rounding shows. `FormatQuantity` is the set of what a
quantity may be formatted to, since the code divides floats: Binance, Bybit and Bitget
floor a quotient that may come out below its value, so that an amount of whole lots can
lose one (0.3 at step 0.1 goes out as 0.2, `formats.go:25`; what lies at a power of two
times the step cannot); KuCoin rounds, half a lot up or, where the quotient comes out
short, down; OKX and Gate floor; Hyperliquid keeps five significant figures
(`formats.go:39`) and takes the nearest, above what was asked or below
(`exchange_test.go:17`: 0.123456 goes out as 0.12346). `Figures` and `Scales` stand for
the five figures and the powers of ten. `OrdersAsAsked` says how far what is sent may be
from what was asked, per adapter.

### BacktestRuns

Per run: registry (`runs`), `state`, `runCancelled`, `position`, `traded`; the goroutine's
`runLoop`, `window`, `symbol`, `goal`; the saved `row` and the ledger `net` (opening trades
less closing ones). `client`, `target`, `copy` are the control requests: a state is
changed under the run's lock, then `syncState` reads the row and writes it in two
more steps (`SyncStateRead`, `Write`), so copies may be saved late. `tried` (symbols gone
through) is history. What a model trades, and what the equity then
calls for, is a choice in every step.

### Debate and DebateStreams

`known`, `meta`, `cancel`, `consensus`: the session in memory; `row`, `panel`, `talk`,
`votes`: its rows; `mu`: who holds `Engine.mu` across the read of `getSession`
(`Reads`, `Syncs`). `pc`, `hand`: where each client and each debate goroutine stands
and the status it has read or is about to save. `round`, `who`, `size`, `pick`: the
goroutine's locals. `ghosts`: goroutines working on an object `getSession` made up
because the session is no longer in memory. A goroutine that finds neither session
nor row dereferences nil: `Panic` kills the process and `Dies` says what is left.

`DebateStreams` numbers the events. `subs` is the engine's set of channels, `queue` each
channel, `stream` the handler (subscribed, snapshot sent, serving, leaving), `got` what
its client was sent. The broadcast offers an event to every channel and drops it
where there is no room.

### Rows: Strategies, ModelAccounts, TelegramBinding, ExchangeAccounts

Each request that reads, checks and then writes a whole row is two steps with a copy
in hand (`request`, `modelCall`, `bind`, `edit`), and gorm's `Save` inserts a row that is
gone. A configuration is a function from sections; a request names some of them. A
secret is the key with the RSA pair that sealed it, as a restart without a key in the
environment makes the old ones unreadable. `behind`, `outdated`, `overtaken` are
history: rows last written from a stale copy. The code's comments promise the same of those,
and there the promise is broken (section 4); the properties say what holds of the rest.
`Decrypts` reads the private fields that `creds_resolver.go` reads: the Lighter key only of an
account without an Aster key, Hyperliquid's only of an account of that type.

### Logins and gates: Sessions, UserAccounts, RequestGate, SignedRequests

`Sessions`: `live`, `issued`, `loginOf` are the server's tokens, numbered; `cookie`,
`user`, `token`, `refresh`, `call`, `logout` the tab, which does one event at a time while
requests and answers travel and get lost. `refresh` includes `refreshPromise`,
settled without reset when there was no token (`Stale`). `crossed`, `ended` are history.

`UserAccounts` takes a look-up and the later write apart. `RequestGate` has a clock; the
limiter is a sequence of stamps, in memory in one step under its mutex, in Redis in two
round trips; `company` says which requests were at the limiter together.

`SignedRequests` has a clock of seconds. `CheckStamp` compares a request's stamp with it,
ahead or behind; then the body is read, which may take any time, and `RequireSignature`
checks the signature and adds the nonce to what is kept (`spent`) for as long as a stamp
may deviate (`SignWindow`). `keeper` is where this process keeps nonces: `StartsAgain` finds
Redis or does not, and what was in memory is gone. `Add` may fail (`AddFails`,
`sign.go:99`): the request is answered 500 and SETNX was executed or not; or the answer
was lost, and go-redis's own second try finds the nonce and refuses the request as a
repetition (`disowned`). Either uses the nonce up for nothing.
`NonceUsedOnce` is what holds: two requests whose nonce was kept in one place are handled at
least a window apart; a message, which is a nonce and a stamp, is handled once;
a request refused for another reason leaves its nonce free. Its exceptions are the
code's: a stamp ahead of the clock is valid for longer than its nonce is kept; a repetition
checked in the last second of the window, or whose body is read past it, may find
the nonce gone; a start without Redis forgets the nonces of the last one. Redis losing
its own data is not modelled.

### Listings, DashboardSockets, McpClient, WebsocketDial

`Listings`: a page is two reads (rows, total) with writers in between; `walk` is the
client. A trader that belongs to nobody is open to everybody (`data.go:36`).
`DashboardSockets`: `acquireConn` line by line, then the two goroutines and every way a
connection ends. `McpClient`: `req` is the caller, `reader` the goroutine, `errCh` and the
unbuffered line channel what connects them, `idle` the timer; the context guard works on
sequences of messages that carry their size, its loops being recursive functions of the
number of messages gone through. `WebsocketDial`: one step per network operation, and
which of them look at the context.

## 3. Runs

States are distinct states of a complete search unless the run ends at a violation.

| Run | States | Shows |
|---|---|---|
| `loops` | 417,306 | *Trader*: overlapping start and stop, failing reads, resume from every state resume takes, crashes: `RegistryTruthful`, `NoCycleAfterStop` and, under fairness, `StopReturns` and `StoppedQuiesces`. *Backtest*: two windows of two symbols, two clients, labels, crashes: `CompletedCoversPeriod`, `TradesAccountForPositions`, `RunLoopEnds`. |
| `trading` | 2,119,772 | *Venues*: seven adapters, goroutines and the owner on one account: `OrdersAsAsked`, `ClosingsClose`. *Trader*: starts and stops one at a time, pauses, edits and crashes anywhere: `ExactlyOneLoop`, and the row implements `TraderStatus` but for a late roll-back (`StatusUnlessTrampled`). *Book*: all writers at once, two syncs, split fills, lost answers, a crash: `BuiltOnce`, `MetricsCoverClosed`, `ClosedOnce`. |
| `api` | 865,165 | Ten parts: `OrdersFollowRules` (a cycle), `OneActiveUnlessBehind` and `TradersKeepTheirStrategy`, `StoredAsTold` (models, Telegram), `AccountsServeTraders`, `OncePerAddressAndToken`, `TabAndServerAgree` and `LoginsFollowChain` (which implements `TokenChain`), `WalkShowsOwnRows`, `LimiterKeepsLimit`, `NonceUsedOnce`. |
| `progress` | 44,453 | What must end, and what must hold meanwhile: a debate (`ConsensusHeardAll`, `OneClientOrder`, `LoopEnds`), the calls of a tab and of the library (`CallsReturn`, `CallIsWhole`), `DialsClean`, `StreamsDeliver`, `QuotaHolds`, `ConnectionsEnd`, `EveryFillRecorded`; and six orders of one engine with a sync after each: `BookMatches`. |
| `lifecycle_bad_oneloop` | violation | With a start that overlaps a stop, `OneLoop` fails (finding 1). |
| `status_trampled` | violation | A roll-back writes over a stop that was accepted: `StatusPromise` fails (finding 2). |
| `book_bad_guard` | violation | One firing of the drawdown guard breaks `BookMatches` (finding 3). |
| `backtest_bad_loop` | violation | A pause inside a cycle ends the goroutine: `ActiveHasLoop` fails (finding 4). |
| `backtest_lock` | violation | A paused run is resumed beside a running one: `OneRunningRun` fails (finding 5). |
| `debate_double` | violation | Two clients, two goroutines on one session (finding 6). |
| `candles_ascend` | violation | The second source answers newest first (finding 7). |
| `tab_renewal` | violation | A call refused while logged out disables renewal (finding 8). |

Some properties are conjunctions of what one component owes one partner, so that one
run answers for it; each conjunct has a name and a comment of its own in its module, and
every property has a mutant of the code that breaks it (`PROJECT.json`; several where
the conjuncts are about different code).
`TypesOK` gathers the type invariants of a composite's parts.

Deadlock is checked where the system never stops by itself (`loops`, `lifecycle_*`,
`status_trampled`, `book_*`, `backtest_*`, `debate_double`); the other composites have
parts that end: a dial returns, a clock reaches `MaxTime`, a call of the library is over,
the book has had its orders.

Why the bounds are enough. Two is the least number of requests, goroutines or runners that
can get in each other's way, and most hazards here are of a pair. Two runners are the
least with which an old loop can meet a new registration; a third adds a third generation
(`trading` has it). Two concurrent starts are not in `loops`, which checks liveness too;
its invariants are theorems for any number of clients. Two configurations let an edit be
seen or missed (`trading`). Two orders are the least with which one can be closed for
another; an order of two parts is the least that splits; two syncs the least that race;
one crash hits any of them, and that a second does no more is a theorem. The engine alone
(`progress`) has the length, six orders, instead of the concurrency. Two windows and two
symbols are the least with a first and a last of each. Two participants are the least the
code debates with (`debate_loop.go:25`), two rounds the least in which a turn comes again,
two goroutines the least a session started twice needs. In `progress` one client of the
debate suffices for every order of *whole* requests and every interleaving with the
goroutine; overlapping requests are what `debate_double` shows to go wrong, and there
`SpeechesInTurn` fails too, from the same cause. Amounts of 1, 3 and 6 half lots are one
that floors to nothing, one that KuCoin rounds, and one of whole lots that is no power of
two of them, which a quotient may shorten; at Hyperliquid, with two figures and units of
1, 2 and 4, 3 and 6 fall between two multiples. `MaxHeld` is 6, so that a reduce-only cut
shortens orders. Two callers who meet trade one amount, 3 (scene `orders`), one who is
alone each of them (`sizes`); Bybit and KuCoin are in the second only, to keep the states
in bounds: what two callers do to each other there they do at the other venues in the same
modes. For decisions (`Said`), two positions or the default of three, orders just within
and beyond size, ratio and margin, one above the leverage allowed and one without a price.
One section of a strategy with two settings (plus "not mentioned" and "mentioned without
its trigger") is all `MergeConfigInto` tells apart. Two accounts of which one is newer,
two types of which one requires what the other lacks. A window of 2 and a clock of 3 let
stamps leave the window, of the limiter and of the signatures; two writes are what it
takes to use one nonce twice, one restart to forget it; a limit of 1 is the least; three
requests, two of them at the limiter at once, let one that is alone follow two that
overlapped. Pages of two over up to four rows are the least with a middle and a last page.
A queue of one and three events overflow; the code's 64 differ in number only (theorem
`Deliver`). Three lines reach a stream's data, its end and an error, two ticks its time
limit. `MaxCrashes`, `MaxRestarts`, `MaxNewKeys`, `MaxLogins`, `MaxTokens`, `MaxSeconds`,
`MaxStarts`, `MaxLedger`, `MaxEvents`, `MaxAccounts`, `MaxResting`, `MaxOrders` bound what
grows without end.

Symmetry is used in `trading`, `api`, `candles_ascend` and `debate_double`, none of which has a
liveness property; the sets that are permuted are requests, goroutines, runners and
ids that no constant singles out.

Fairness. Every goroutine that can run runs (weak fairness of its steps): the Go
scheduler is fair, the tickers fire, every call to a model or an exchange has a
timeout. Where a `select` has two ready cases Go picks one at random, so the
cancelled one is not passed over for ever (strong fairness of `SyncCancelled`). In
`Debate` a step may wait for `Engine.mu`, which others take again and again:
`sync.Mutex` hands itself over to a starving waiter, hence strong fairness of each
actor. Requests, trades, crashes are nobody's duty. Restart after a crash is fair
(a supervisor). `EveryFillRecorded` bounds crashes (`MaxCrashes`), as a process that
dies at every sync records nothing. In `Sessions` the tab's own steps and the failure of
a refresh that is never answered (the browser gives up) are fair, answers are not. In
`McpClient` the timer ticks, the reader and the caller run, and a closed body ends the
read that waits on it; the server is fair in that it answers or breaks off (the HTTP
client's own time limit). In `WebsocketDial` the network owes nothing; what is fair is
that an expired context ends the operations that heed it and a closed connection ends
the handshake. A dashboard's reading goroutine ends once its connection is closed or its
60 s deadline has passed.

## 4. Findings

1. `engine.go:112`: a loop that ends deletes from the registry whatever runner is
   there. If a stop has taken its own out and a start registered another, the new
   one is lost, uncancelled, and the next start runs a second loop beside it.
2. `trader_svc.go:172`: when `Engine.Start` refuses, the roll-back writes idle whatever the
   row says by then. A pause or a stop that was accepted since is undone, against
   `store.go:470` and `trader_svc.go:203` ("并发 start/pause 不会互相踩踏": concurrent start and pause
   do not trample each other).
3. The drawdown guard (`engine.go:204`) closes at the exchange and in the book but
   writes no order, so the next sync takes the closing's fill for one the engine has
   not heard of and backfills a position that does not exist.
4. `replay.go:92`: `stillRunning` is false for a paused run, and `runLoop` returns;
   the comment says it waits. A resume then leaves a run that nobody runs and that
   holds its user's lock.
5. `backtest/engine.go:182`: Start refuses while another run of the user is running, Resume
   does not look. `backtest/engine.go:3` promises one running run at most at any time.
6. `engine.go:344` of the debate engine: `getSession` copies the row's status over
   memory. Between Start's change of memory and its save the row says pending, so a
   second start passes and two goroutines debate.
7. `provider/okx.go:39`: the candles are handed on in OKX's order, newest first, while
   the indicators say that providers answer in ascending order. A failure of the first
   source is enough.
8. `web/src/api/v1/client.ts:121`: without a refresh token `tryRefresh` returns before
   the `finally` that resets `refreshPromise`. From then on every renewal of this page
   "fails" without being asked for, also after the next login.

Promises of the code that it breaks as well, without a run of their own. For each, a property
of the passing runs says what does hold, and has exactly this as its exception:

| Promise | Broken by | What holds |
|---|---|---|
| `dto/strategy.go:79`, `risk.go:86`: the margin in use stays within `max_margin_usage` | the margin is computed at the leverage asked for, which is lowered afterwards (`risk.go:88`), and so needs more | `MarginUnlessCapped` |
| `model/strategy.go:16`, `strategy_store.go:79`, `strategy_svc.go:173`: one strategy is active | an update writes its copy back whole, `is_active` included, after another strategy was made active (`strategy_svc.go:114`) | `OneActiveUnlessBehind` |
| `strategy_svc.go:156`: a strategy in use by a running or paused trader is not deleted | a trader comes to it between the look and the deletion | `DeleteSparesTraders` |
| `handler/auth.go:281`: a token resets a password once | two requests look it up before either deletes it, or the deletion fails (`auth.go:300`) | `ResetOnce` |
| `exchange_svc.go:106`, `:322`: an account keeps its required fields when it is updated | the check looks at the row as it was before the request (`:323`), so that it passes a request that empties a public field | `AccountsServeTraders`, about private fields |
| `bitget.go:62`, `:67`: close a long, close a short | the direction is derived from the side alone (`:85`), so a close goes in the direction of an open | `ReduceOnlyHolds`: as it is reduce-only it adds nothing; `GuardFlattens` leaves Bitget out |
| `debate/engine.go:323`: a subscriber with 64 events waiting is dropped | the event is dropped (`:330`) | `StreamsDeliver` |
| `sign.go:95`: a nonce repeated within five minutes is refused | a restart without Redis; and a stamp ahead of the clock makes a message valid for longer than that | `NonceUsedOnce` |

Seen while modelling, where no property claims otherwise:

- Lifecycle. A left-over order-sync goroutine survives a loop that ended itself when the
  trader is started again within its period (`ordersync.go:28`, `:12`). A Stop between its
  transition and `engine.Stop` takes away a runner another request has just started, and
  the row says running without a loop (`trader_svc.go:197`). Resume is accepted from idle
  and stopped (`:188`). Stop may return before the goroutines exist (`engine.go:82` and
  `:88`). Pause, edit and resume during one cycle leave a cycle with the old configuration
  (`:108`).
- Book. A long position opened by hand is backfilled as short (`ordersync.go:134`).
  A sync in the middle of an engine order puts it into the book twice (`:131`). The
  engine counts a closing another writer made (`engine.go:437`). A matching fill
  smaller than the row is dropped (`ordersync.go:110`); of an order filled in parts only
  the first part reaches `positionBuilder` (`:69`). A crash after `AddFill` loses the fill's
  effect (`:63`). Ids of fills and orders are unique over all exchanges (`fill.go:13`).
- Cycle. `resetDailyPnL` resets at every cycle (`engine.go:510`). A strategy without a positive
  limit of positions loses its other settings too.
- Adapters. Results of OKX, Bybit, KuCoin, Bitget and Hyperliquid carry no price, so entry
  and exit prices are 0 where the engine takes them from there; Hyperliquid's order id is
  "0" until it fills; Gate's filled quantity is negative for sells. Conditional orders of
  OKX and Gate drop `reduceOnly`; Bybit's is a market order that executes at once. In the
  one-way mode of Binance, OKX and Bybit orders are refused, as the adapters name a side.
  A close of everything may leave a lot where floats lose one. OKX reads a short in net
  mode as a long of negative amount. In hedge mode the guard closes a symbol once per
  side. Gate is asked for fills with milliseconds where seconds are stored. The engine's
  default `BTC-USDT` goes to each venue as it is.
- Backtest. `finish` overwrites stopped and paused (`replay.go:324`). Late
  saves leave a stale row, from which a restart loads the run; a save re-inserts a
  deleted row. A run loaded after a restart has no cancel function (`engine.go:244`).
  `e.runs` is read without its lock (`:304`, `:356`, `:375`). Depleted equity ends as
  liquidated without a liquidation (`replay.go:76`). Trades of a cycle that was under
  way outlive a stop and a delete. A position takes its notional and gives back
  notional/leverage (`replay.go:216`, `:251`).
- Debate. A session started and deleted before its goroutine's first line kills the
  process (`debate_loop.go:18`). Cancelled while the last vote is asked for, it
  completes and may execute (`:95`). A deleted row comes back with a late save. Old
  copies of the status may be saved over newer ones (`engine.go:369`). On equal
  weights the map's order decides (`debate_loop.go:208`, against the comment at
  `:183`). The page listens with `onmessage`, the server sends named events.
- Rows. Strategies, models and bindings are written back whole from copies that may be
  stale: an acknowledged key, binding or section is lost (`model_svc.go:175`), a deleted
  row comes back; `StoredAsTold` excepts rows marked `outdated` or `overtaken`.
  `CountDecisions` ignores the user when no trader is given, and is read before the rows'
  total can change.
- Clients. Any line of a stream, even an empty one, resets the idle timer
  (`mcp/client.go:163`). The tunnel of a websocket dial heeds neither context nor time
  limit. A dashboard client that sends nothing for 60 s is dropped, although the server
  pings it with JSON, which a browser does not answer by itself.

## 5. Proofs

All theorems are for any values of the constants that meet the module's named
assumption, and use nothing else, except three that state a further hypothesis on the
constants (`InTurn`, `EngineAlone`, `OneClient`; below). Each follows the same pattern: an
inductive invariant, one lemma for the initial states, lemmas for the steps grouped by
actor, a last step in temporal logic. The invariants were first checked by TLC on the
instances of section 3.

| Module | Theorem | States | Inductive invariant |
|---|---|---|---|
| `TradingProofs` | `TypeCorrect` | `TypeOK` | itself |
| | `RegistryIsTruthful`, `StopIsFinal` | `RegistryTruthful`, `NoCycleAfterStop` | `RunnerInv` |
| | `OneLoopInTurn` | `ExactlyOneLoop` | `TurnParts` |
| | `RowFollowsStatus` | `StatusUnlessTrampled` | `RowInv` |
| | `OrdersGoOut`, `ClosingsOnlyClose` | `OrdersAsAsked`, `ClosingsClose` | `VenueInv` |
| | `RunsKeepTypes`, `BooksBalance`, `CompletedIsWhole` | `RunsTypeOK`, `TradesAccountForPositions`, `CompletedCoversPeriod` | `Typed`, `Books`, `Periods` |
| | `TradingKeepsTypes` | `TypesOK` of `MCTrading` | `TradingInv` |
| `PositionBookProofs` | `BuilderIdempotent`, `PositionClosedOnce` | `BuiltOnce`, `ClosedOnce` | `Inv`, `BookShape` |
| | `ClosingsCounted` | `MetricsCoverClosed` | `CountInv` |
| | `BookShowsHolding` | `BookMatches` | `AloneInv` |
| | `BookKeepsTypes` | `BookTypeOK` | `BookTyped` |
| `DebateProofs` | `TypeCorrect`, `FullDebate` | `TypeOK`, `ConsensusHeardAll` | `Typed`, `HeardInv` |
| | `OneClientKeepsOrder` | `OneClientOrder` | `OrderInv` |
| `ConfigurationProofs` | `CyclesObeyTheirRules`, `DecisionsKeepTypes` | `OrdersFollowRules`, `DecisionsTypeOK` | `DecisionsInv` |
| | `TypeCorrect`, `OneActive`, `TradersKeep` | `StrategiesTypeOK`, `OneActiveUnlessBehind`, `TradersKeepTheirStrategy` | `StrategiesTyped`, `LateUsersNoted` |
| | `SecretsStored` | `StoredAsTold` | `ModelsInv`, `BindingInv` |
| | `AccountsServe` | `AccountsServeTraders` | `AccountsInv` |
| | `ApiKeepsTypes` | `TypesOK` of `MCApi` | `ApiInv` |
| `SessionsProofs` | `LoginsImplementChain` | `LoginsFollowChain` | `OneTokenEach` |
| | `TabKeepsUp` | `TabAndServerAgree` | `TabInv` |
| `AccessProofs` | `AddressesAndTokensOnce` | `OncePerAddressAndToken` | `UsersInv` |
| | `LimiterHolds` | `LimiterKeepsLimit` | `LimiterInv` |
| | `NonceOnce`, `SignedKeepsTypes` | `NonceUsedOnce`, `SignedTypeOK` | `SignedInv` |
| | `WalksAreWhole` | `WalkShowsOwnRows` | `ListInv` |
| `ConnectionsProofs` | `StreamsKeepTypes`, `Deliver` | `StreamsTypeOK`, `StreamsDeliver` | `StreamsInv` |
| | `QuotasHold` | `QuotaHolds` | `SocketsInv` |
| | `DialsEndClean` | `DialsClean` | `DialInv` |
| | `CallsAreWhole` | `CallIsWhole` | `McpInv`, `KeepsTheNewest` |
| | `ProgressKeepsTypes` | `TypesOK` of `MCProgress` | `ProgressInv` |

### Traders

`RunnerInv`: that a registered runner is not cancelled needs `HandlerInv` (the runner a
handler is about to cancel is not the registered one, the one it waits for is
cancelled), and that an awaited runner stays quiet needs `AwaitedInv` (it is cancelled,
and its loop stands before the check of its context or past it). Crashes included.

`TurnParts` adds to it, under `InTurn`, what serial requests bring: a loop that no registry
knows is one that a stop is waiting for (`StrayIsAwaited`); where the handler stands says
what the row and the registry are (`HandlerKnows`, `Unspawned`); a row that says running
has its loop (`RowIsTrue`). `InTurn` is one handler, resume only of what is paused, and
reads that do not fail; pauses, edits and crashes remain, and so do any number of
runners. It holds in the instance of `trading`. None of the three can be
spared: overlapping requests break the property (`lifecycle_bad_oneloop`), resume from
idle starts nobody, and a failing read ends a loop whose row says running.

`RowFollowsStatus` needs no such hypothesis. Each step moves the row as one step of
`TraderStatus`, or leaves it (`RowSteps`); a start that nobody has overtaken finds its own
*running* in the row (`OwnRow`, in `RowInv`), so that its roll-back is the `FallBack` of a
trial. What is left is the roll-back of a start that was overtaken, and `Trampled` is no
more than that.

`BuildInv` says an order whose fill is on its way to `positionBuilder` is in the orders
table, is at one sync only and was not built before, and that what was built is in the
table; the unique index carries it. Crashes and any number of syncs included.
`PositionClosedOnce` rests on `BookSteps`: a step adds an open row, closes one open row, or
leaves the table; the condition of the `UPDATE` keeps a closed row as it is. `CountInv`:
each step that closes a row starts one counting (`OneMoreClosed`), each counting that ends
adds one trade, and a crash moves all that were under way to `lost`.

`BookShowsHolding` is about the engine that has the account to itself (`EngineAlone`: its
orders and syncs one at a time, one size and side, no owner, guard, API close, lost
reply or crash), with any number of goroutines, orders and parts of a fill. `AloneInv`: no
pull ever meets an order the engine has not recorded (`OrdersInv`), and rows, holding and
what the engine has in hand balance (`Balanced`). What the book shows is a recursive
function over the rows; that it is the count of open rows times the size is shown by
induction over them (`CountingUp`). Each thing that `EngineAlone` excludes breaks
the property in the code: findings 2 and the list of the book in section 4.

`VenueInv`: the callers' types; what waits at a venue was sent by a form its adapter
produces (`RestingInv`); what is about to be sent is one of what the adapter's formatting may
make of what was asked (`FormattedInv`); where a close is for whole lots, the account
holds whole lots (`WholeInv`, `Exact`); a caller that was not disturbed still knows the account
(`LeverInv`, `CalmInv`): of any position the guard is done with there is at most the lot that a
float has lost; what was reported is what is held (`FillsInv`). That what is sent is near what
was asked for is arithmetic about `FormatQuantity`, one adapter at a time. It is about the
seven adapters as they are; the exceptions they need (section 4) are in the properties.

`BookTyped`, whoever trades: who remembers a row remembers one of the table, which never
shrinks (`RowsStay`); a goroutine that is not idle has a fill left; and a fill tells of an
order the exchange has numbered, which is why the tables hold no other.

### A cycle

`DecisionsInv`: the answer that was read in full is what the record tells
(`AnswerRecorded`); what is left to send consists of closings first, and its openings with
the open rows stay within what the filter counted (`OrdersInPlace`; `cycle.room`, which a
row that somebody else adds makes larger by one). Other writers add and remove rows
between any two steps.

What the two loops over an answer compute is shown by a least counterexample instead
of an induction theorem: the set of numbers of steps after which the loop's invariant
(`FilterInv`, `SplitInv`) holds contains 0 and, with each number, the next (`FilterStep`,
`SplitStep`), and a set of which that is true has no least number outside
(`CountingUp` of module `Counting`, from `WFMin` over the order of the naturals; then
`TallyRuns` and `HalvesRun`). `FilterInv` says of the decisions kept so far that each is of the
answer, capped or within the margin, and counts the openings among them; `SplitInv`, that
the two halves together are what was gone through, each in order. `RowCount` is
a cardinality, which adding or removing one row changes by one (`OneRow`).

### Backtests and debates

In `TradingProofs`, of backtests: `RunsKeepTypes` (with `WindowLeft`: a goroutine at a
symbol has a window left); `BooksBalance` from `Books`, i.e. the balance, `Fresh` (an
unused run has neither position nor trade) and `Doomed` (a run whose row is about to be
deleted is out of the registry and its id is used); `CompletedIsWhole` from `Periods`,
which ties the count of symbols to the place the goroutine is at.

`DebateProofs`: `TypeCorrect` (with `Walks`: a speaker is within the panel, a round in
progress within the rounds); `FullDebate` from `HeardInv`: every goroutine has behind it
complete rounds, and its own round up to its speaker (`Hears`), which no deletion
disturbs, as messages are deleted and objects made up only once the session is out
of memory (`Forgotten`), where it stays.

`OneClientKeepsOrder` is for one client at a time, as `debate_double` shows two to break it.
`OrderInv` adds to `HeardInv` that a session in memory has at most one goroutine, which begins
only when a start has taken it from pending (`BegunOnce`, `SpawnsReserved`); that a hand
holding *pending* is one that read it under the lock before anything began
(`HandsAreLate`), so that no late save brings it back; and that where the goroutine is says
how long the talk is (`TalkInv`).

### Configuration

`OneActive` carries along that only rows of the table are active or behind;
`TradersKeep` uses `LateUsersNoted`: a deletion under way knows every trader that came to use
the strategy since it looked. `ModelsInv` and `BindingInv` say of every copy in hand that it
is the row, or that the row is marked as one that changed since; `AccountsInv` that a complete
account stays complete, and that what a trader resolved before and could still use is
older than what it resolves now. `Configuration` puts the four modules together, since
`StoredAsTold` is about two of them.

`ApiKeepsTypes`, `TradingKeepsTypes` (of venues and trader; that of the book is
`BookKeepsTypes`) and `ProgressKeepsTypes` are about the composites. Their parts share no
state and one of them acts, so that a step of the composite is, for each part, a step of
it or a stutter (`PartsStep`); the invariant is the conjunction of the parts'. Three
things had not been needed before: a walk asks for no page far beyond what the table can
hold (`WalkBounded`), the limiter's places are numbers (`TurnTyped`), the idle timer is
within its limit (`IdleBounded`). The book that everybody writes is a second instance of
`PositionBook`; `LiveProofs` instantiates the proofs for it, and `LiveIsLive` says that
both instances are one.

### Logins, gates, connections

`NonceOnce`: that a later request is refused rests on `UsesKept`: a use that ended in a
handler is kept where it was made, by itself or by a later one, in Redis for good and in
memory as long as the process lives; the entry then says when the nonce is free again.
`HandledOnce` follows from it and from the stamp's window at the time of the check, which
`SignedTypeOK` carries along. `LimiterInv` counts, for any window, what was let through
against the limit and those that were at the limiter together (`company`).
`LoginsImplementChain` is the refinement of `TokenChain` (`ChainStep` maps every step to a
begin, a renewal, an end or a stutter) and rests on `OneTokenEach`: a good token was
handed out and is the only one of its login, so that the `CHOOSE` of the mapping has one
candidate. `TabInv` follows a refresh from the tab to the server and back: the token the
tab holds is the good one, or the answer that carries it is on its way.

`StreamsInv`: a channel in `subs` is of a handler that has not closed it, and a snapshot is no
older than its subscription. `SocketsInv`: the two counters are the requests that hold a
place, each stage of `acquireConn` counted (`PlacesCounted`). `McpInv`: text so far, the line
that is offered and the lines not yet read are what the server sent (`StreamInv`).

`KeepsTheNewest`, of the context guard, is about what three loops of the code compute
for any conversation: the system's messages parted from the others (`SplitParts`), the
sizes added up (`TokensTyped`), and the most of the newest others that fit (`Greatest`,
`MostKept`). `GuardShortens` puts them together. That such a recursive function is defined
at all, and has the values its loop has, is `LoopIsDefined`, once for all three.

`ListInv`, of a client that walks a list: a row it has not seen stands behind the pages it
has read (`BehindPages`), since a new row only pushes the others back (`RowsAdded`) and a page
shows what stands in its places (`SliceShows`). What is counted after the rows covers the
list (`OthersCounted`); the count of decisions is older than their rows, by no more than
was added (`DecisionsCounted`), and rows beyond it are no more than that (`FewStandBehind`).

### What proving changed

- `Sessions`: the type invariant said that tokens are the positive ones, but `crossed` may
  hold 0, a call without a token. It was false and TLC's bounds had not reached it.
- `RequestGate`: with Redis the limit may be exceeded by twice as many as in memory: by
  requests whose stamps were not yet added when a later one cleared the window, and by
  those that counted together. The property's bound was too tight, which takes four
  requests to see.
- `Venues`: two arms of a `CASE` in `After` were true at once for an order that names a side at
  a venue in net mode. TLC took the first; they are disjoint now.
- `Decisions` and `McpClient` used the library's folds and filters for the loops of the code.
  They are recursive functions now: what a fold computes cannot be said for every
  input here, what such a function does can.
- `Venues` formatted quantities exactly, by flooring integers. With what floats do and what
  Hyperliquid rounds, the guard may leave a remnant and a closing may be for more than is held,
  which only reduce-only keeps from turning the position.
- `TraderStatus` had a step from paused to idle, which was the code's fault and not its
  promise. Without it, and with starts and stops that overlap, TLC finds the roll-back.
- `RowCount` of `Decisions` picked the symbols in an order of its own; it is the
  cardinality of the set of open rows now. What a model may say is a record of any words,
  known or not.
- `KeepsTheNewest` said only that nothing is dropped from a conversation that fits. It says
  now that what is sent fits (unless one other message is left) and would not have fitted
  with one message more, which is what the guard is for (`context_guard.go:28`).
- The properties of a model's calls and of a dial mixed invariants with liveness. The
  invariants are `CallIsWhole` and `DialsClean`, and proved; the rest is in `CallsReturn` and
  `ConnectionsEnd`.
- `AccountTypes` must not be empty, `Sockets` must be finite: two assumptions that were
  silently true of the instances.

### Only model-checked

Everything under fairness, since ENABLED is out of the prover's reach: `StopReturns`,
`StoppedQuiesces`, `EveryFillRecorded`, `LoopEnds`, `RunLoopEnds`, `CallsReturn`,
`ConnectionsEnd`. Every invariant and every action property of the passing runs is a
theorem. Of those under a hypothesis on the constants (`InTurn`, `EngineAlone`,
`OneClient`) the hypothesis holds in the instance that checks them.

## 6. Not modelled

- Prices, floats (but for the rounding of quantities) and indicator arithmetic; texts,
  prompts and lint rules; the encodings, signatures and error codes of vendors. A quantity
  is a small integer; trades in a backtest are counted. The drawdown guard's condition and
  the equity a backtest arrives at are choices.
- Several traders' books: they share no state but unique indexes over all exchanges.
- The store is taken as SQLite serves it, one transaction at a time; what weaker
  isolation of another database would add is not modelled. A failed `WithTrader`
  changes nothing. Writes that ignore their error (`Save`) are taken to succeed.
- `liquidateAll` deletes positions and writes trades as one step.
- In `Debate`: rounds shown and weights of votes. `Debate` and `DebateStreams` are
  separate: what an event says is in the store before it is broadcast.
- Listing of open orders, balances, connection tests of accounts, equity snapshots,
  the summary's sums: single reads or writes of amounts that nothing else depends on.
- Start-up beyond the restoring of traders and backtests, the graceful shutdown of the
  HTTP server, mail, key files, proxies and transports: I/O.
- Routing, DTOs, pages, scripts and documents: no state.

`PROJECT.json` gives the state of each component.

## 7. What is left

In the order in which it would add most; the modules are laid out for it.

1. `TraderLifecycle` and `PositionBook` composed over the shared row, for the syncs left
   over by a restart.
2. `ModelAccounts` and `TelegramBinding` with one set of models; `ExchangeAccounts` with
   `Venues`, for a trader whose account changes between an order and its sync.
3. The replay's equity in small integers, for the conditions of `finish` and liquidation.
