# A TLA+ verification project for Navier-Stocks

Navier-Stocks is an intraday trading system in Go: one process (`src/src/main/main.go`)
runs five agents that talk through NATS JetStream subjects and share a PostgreSQL
database.  This directory holds TLA+ models of its core, the TLC runs that check them on
small instances, and proofs, checked by TLAPS, of what matters most.

Paths below are relative to the repository; its Go code lives in `src/src/` as seen from
the directory above this one.  `analysts/`, `pkg/` and `main/` are short for `src/src/analysts/`
and so on.

## 1. Inventory

| Component | State | Operations | Talks to |
|---|---|---|---|
| Scout: feed (`analysts/quantitative/feed.go`, `agent.go`, `pkg/groww/feed.go`) | socket, last snapshot, throttle times | connect, reconnect, re-subscribe; append and publish the snapshot every 100 ms; patch volumes from REST quotes every 5 s; stop | publishes `signal.price.*`; writes the tick stores |
| Scout: tick stores (`tickstore.go`) | a ring buffer of ticks per symbol, at most 25 symbols | append, patch the newest volume, read the last n, aggregate candles | written by poller and quoter, read by the detector |
| Scout: detector (`breakout.go`, `indicators/`) | none | evaluate every symbol each interval | publishes `signal.intent.new` |
| Sentiment Analyst (`analysts/sentiment`) | marks of the articles seen; the latest score is in the table | per ticker without a fresh score: fetch, deduplicate, score with an LLM, store, publish | writes `sentiment_scores`, publishes sentiment |
| Risk Manager (`analysts/riskmanager`) | exposure counters, last prices, day of the last square-off | handle an intent through five gates, promote it, register it; every 30 s square off and refresh the counters from the table | consumes `signal.intent.*`, `signal.price.*`; publishes `signal.execute.*`; reads and updates `positions` |
| Trader gateway (`analysts/trader/agent.go`, `papertrader.go`) | none of its own | handle an execution: deduplicate, insert the position, log it, acknowledge | consumes `signal.execute.*`; writes `positions`, `trade_log` |
| Exit monitor (`analysts/trader/exitmonitor.go`) | cache of open positions, set of in-flight marks | on a price: pick the crossed positions, publish the closing order, close the row; every interval: refresh the cache | consumes `signal.price.*`; publishes `signal.execute.*`; reads and updates `positions` |
| Market recorder (`analysts/recorder`) | the open file of the day | append, rotate, close | consumes `signal.price.*`, acknowledged by the client library; writes the archive |
| Replay tool (`pkg/replay`, `tools/replay`) | none | load a day's file, plan, publish on schedule, stop at Ctrl-C | reads the archive; publishes `signal.price.*` |
| Report tool (`pkg/database/report.go`, `tools/report`) | none | summarise the closed positions of a period | reads `positions` |
| NATS wrapper (`pkg/nats`) | durable consumers | ensure the stream, publish, subscribe with explicit acknowledgement | every agent |
| Database (`pkg/database`, `migrations/`) | tables `positions`, `trade_log`, `sentiment_scores` | the statements of each store | every agent |
| Groww client (`pkg/groww`) | access token, token bucket, socket | `GetQuote` behind the bucket, retry on 401 with a new token; live feed, reconnect | the scout |
| Clock (`pkg/utils/time.go`) | none | market-time predicates in IST | risk manager, exit monitor, feed |
| Boot and shutdown (`main/main.go`) | wait group | construct, `Run`, `Stop` | all agents |

What couples the agents is the stream and the `positions` table.  An intent becomes an
execution, an execution becomes a row, and two different agents close rows: the exit monitor
at a boundary and the risk manager's square-off at the end of the day.  Both first publish a
closing execution, which comes back to the trader gateway only to be logged.

What is hard here, and where the properties aim (PROJECT.json `hazards` has each one at its line):

- two goroutines around one cache or one set of counters, with the database read outside
  the lock (exit monitor refresh, exposure refresh);
- publish, then update the row, then update memory: three effects, each of which may fail
  or lose only its answer;
- at-least-once delivery: redelivery after a Nak, after `AckWait`, after a restart, with a
  second copy already queued at the client;
- a socket that may drop, and a `Stop` that may come, between any two calls of the reader;
- a ring buffer that wraps while one goroutine appends and another patches the newest tick;
- restarts that lose the memory and keep the table and the stream
  (`docker-compose.yml:72`, `restart: unless-stopped`);
- limits: the gates at their caps, counters at zero and below it for a moment, a text column too narrow for one of its values, a bucket that is
  refilled after a sleep;
- three reads of one ring under three locks, while two goroutines write to it;
- files that are appended to: a write that is cut leaves half a line for the next to go on in;
- things that must eventually happen: a crossed position closes, an execution finishes,
  what the square-off listed is closed.

Correctness per component, in a sentence each: the *exit monitor* never books a close the
market was not told of and never loses sight of a position; the *gateway* opens one position
per execution reference and lets go of no execution before its effect is in the database; the
*risk manager* counts what it published, once, keeps to its gates for it, and its square-off and
its refresh finish their work in spite of failures; the *feed* comes back while the market is open and
sends no price but the newest it holds; a *tick store* is a bounded queue; the
*detector* finds its setups and only those, and none in a dead feed; the *sentiment analyst* scores every listed story
in the end, if the news feed answers, and asks about none more than twice in a window; the *archive* gives back what was stored, in the order of its time
stamps; a *call* of the REST client returns; a *report* adds up and does not change afterwards; the *tables* never change a closed row; *boot and
shutdown* work on the whole schema, stop an agent after those that feed it, end unless an agent is in a call that does not, and lose no message to a crash.

## 2. Modules

| Module | Models | Kind |
|---|---|---|
| `MarketClock` | `pkg/utils/time.go`, `timeguard.go` | operators on minutes |
| `TickStore` | `tickstore.go`: the ring buffer, and the bounded queue it stands for (`Candles` is in `Detector`) | operators |
| `TickStore_proofs` | | lemmas about the ring buffer |
| `TickHistory` | what the tick stores promise | abstract specification |
| `FeedConnection` | `startFeedWithRetry`, `Start`, `consumeWithReconnect`, `Stop`, `pkg/groww/feed.go` | actions on the connection |
| `QuantitativeFeed` | `FeedConnection` with the pollers of `feed.go` and the ticker store | state machine |
| `QuantitativeFeed_proofs` | | theorems |
| `TradingSchema` | width of the `side` columns, `001_initial_schema.up.sql:5,30` | operators |
| `PositionTable` | `pkg/database/positions.go`, `crossed` of `exitmonitor.go` | statements on the table |
| `Liquidation` | what the exit monitor promises | abstract specification |
| `ExitMonitor` | `exitmonitor.go`, with restart, fills, square-off and clock around it | state machine |
| `ExitMonitor_proofs` | | theorems |
| `ExecutionLedger` | what the gateway promises | abstract specification |
| `TraderGateway` | `handleExecution`, `papertrader.go`, the durable subscription | state machine |
| `TraderGateway_proofs` | | theorems |
| `Exposure` | `exposure.go`, `bias.go`: the counters, one operator per atomic operation | operators on variables |
| `RiskManager` | `agent.go`, `executor.go`, `squareoff.go`, `sentiment.go` of the risk manager | state machine |
| `RiskManager_proofs` | | theorems |
| `DurableConsumers` | `pkg/nats`: streams, durable consumers, subscriptions, connections | operators on variables |
| `Scheduler` | the scheduler of `analysts/sentiment/scraper.go` | actions on variables |
| `Lifecycle` | `main.go`, `migrate.go`, `NewAgent`, `Run` and `Stop` of the five agents | state machine |
| `Lifecycle_proofs` | | theorems |
| `Detector` | `breakout.go`, `indicators/`, `pkg/math`, beside the two writers of the store | state machine |
| `Sentiment` | `agent.go`, `scraper.go`, `llm.go` of `analysts/sentiment`, `pkg/database/sentiment.go` | state machine |
| `Archive` | `analysts/recorder`, `pkg/replay`, `tools/replay` over the files and the stream | state machine |
| `GrowwClient` | `pkg/groww/client.go` under `GetQuote` | state machine |
| `Reports` | `pkg/database/report.go`, `tools/report` over the table | state machine |
| `MCPeriphery` | the last five machines, one per behaviour | model checking |
| `Periphery_proofs` | | theorems about each of the five, and about all of them together |
| `FoldTheorems` | | lemmas about folds, sums and sorted sequences |
| other `MC*` | instances of the five machines above them | model checking |

**Atomicity.**  One action is one critical section, one atomic operation on a shared counter,
or one call that leaves the process.  Go code between two of those touches only local
variables and is part of the action before or after it.  NATS runs the callbacks of one
subscription one after the other, so each agent has one callback at work at a time (`pc`) and,
beside it, its own loop (`refreshing`, `mpc`); the feed has three loops (`reader`, `poller`, `quoter`).

**Failing calls.**  A publish, an update or an insert may succeed, fail without effect, or take
effect and lose its answer; the third is the same action as the second with its effect.
`AnswersMayBeLost` switches the third off in the risk manager where a property is only about the first two.

### ExitMonitor

`HandlePrice` is `HandlePrice` and `evaluate`: under the lock it picks the cached positions of the ticker
that are not in flight and whose boundary is crossed, and marks them.  `close` is then, per
target, `PublishOk`/`PublishFails`, `MarkClosedOk`/`MarkClosedFails`, `DropFromCache`: after a failed publish the mark
is released, after the update, failed or not, the position leaves the cache and the mark is
deleted.  The targets of one callback are handled in any order: the order of `ListOpen` is left out.  `RefreshList` and
`RefreshInstall` are the two halves of `Refresh`: the query outside the lock, the assignment
under it.  Prices are a small grid: only their order with the two boundaries matters.
A price message that hits nothing changes nothing and is no step.

### TraderGateway

`Receive` parses and tells openings, closings and unusable payloads apart; `HasExecution`,
`InsertPosition`, `InsertTradeLog`, `Ack`, `Nak` and their failing variants are the calls of
`Execute` and `handleExecution` in their order.  `Unfit` are the openings that pass `exec.Validate` and that `pos.Validate` refuses
(`RefuseUnfit`, `papertrader.go:58`): those, and what does not fit the `side` columns, are Nakked and delivered again for ever.  `hasExecution` takes a query error for "not found", so
only the `UNIQUE` constraint stands behind it.  `Redeliver` puts another copy in the client's queue while
the message is unacknowledged; `Restart` empties the queue and keeps the consumer's state.

### RiskManager and Exposure

The intent callback reads each gate's counters in a step of its own (`TimeGate`, `SectorGate`, `TotalGate`,
`BiasGateLongs`, `BiasGateShorts`, `ScoreGate`, `Size`), publishes, and registers in four atomic operations.  The
loop of `Run` squares off (list, then publish, mark and release position by position) and then
refreshes (list, four resets, and the operations of the recount of each position).  `Release` is a decrement per counter and, where it came out below zero, an increment
that undoes it, each an action of its own (`DoReleaseTotal`, `DoUndoTotal`, `DoReleaseSide`, `DoUndoSide`): the callback reads and adds in between, and may read -1.  `DeleteSectors` models what
`sync.Map.Delete` does to a counter the callback has already loaded: the increment that follows
goes to an object nobody reads again (`handlerHolds`).

`StoresWired = FALSE` is the agent as `main.go` runs it: `SetPositions` and `SetScoreStore` are called by
tests only, so square-off, refresh and the sentiment gate do nothing.  `StoresWired = TRUE` is the agent
its code and comments describe.

### QuantitativeFeed, FeedConnection and TickStore

`conn` is `FeedClient.conn` with what the exchange knows of it: `none`, `open` (dialled), `subscribed`, `dead` (the
next read or write fails).  `reader` walks through `startFeedWithRetry` and then the loop of `consumeWithReconnect`; each dial,
write, read and pause is an action, each 60 s pause a `select` in which the stop channel may win.  The
first goroutine starts the second and returns, so both are one `reader`.  `stopper` is `Analyst.Stop`: the
agent's channel, the connector's channel, the socket.  Up to `maxRetries` dials are one `Reconnect` or one `ReconnectFails`.

The poller copies the snapshot (`PollSnapshot`), and per token skips it (`SkipToken`) or appends a tick (`StoreTick`) and
then publishes, fails to publish, or is throttled.  Tokens come in any order, as Go ranges over a map.  An exchange
token is named by its symbol; `Resolved` are the symbols whose token the universe has, so `tokenSymbol` fails for the others.
`Store` and `Append` are one step: only the poller makes stores, and nobody looks at an empty one.
`throttled` are the symbols whose interval has not passed.  The quoter asks symbol by symbol without a lock and patches
the tick that is the newest by then.  A tick is its price and its volume; a store that was never written is not in the map.

`TickStore` is the ring buffer as it is: `buf`, `write`, `full` (`size` is the constant `Size`).  `History` is the queue it
stands for; `TickHistory` says that a symbol's queue only takes a tick at its end, loses the oldest when it is full, or
gets the volume of its newest tick changed.

### Lifecycle, DurableConsumers and Scheduler

`main` walks through the migrations, the constructors, the signal, the two halves of each `Stop` (`SignalStop`, `FinishStop`) and
`wg.Wait` (`Exit`).  `run` is the goroutine of each `Run`: launched, perhaps long before it is scheduled; `ensured` between its
subscriptions; `ready` in its loop; `leaving`; `returned`, or `failed` when a call made it return early.  The agents differ where the code does:
trader and recorder wait for their `Run` in `Stop`, the others do not, so that their `Unsubscribe` may find the connection closed;
the recorder never closes its connection; the risk manager goes on when its price subscription fails, and
never unsubscribes it; the trader gives up and leaves its first subscription working.

`consumer` tells a durable consumer that a subscription of this process `created` from one it `found`: nats.go deletes the first when
it is unsubscribed and keeps the second.  `Publish` puts the one message of a subject before the consumers that exist then, which is
what `DeliverNew` means.  A process that ends, however it ends, keeps consumers and mail and loses everything else (`ProcessEnds`).
A callback is one step here (`Handle`); `TraderGateway` and `RiskManager` have its inside.  A cycle of the sentiment agent begins with `StartCycle` and
is under way (`calling`) until `EndCycle`, which nothing makes happen: its request to the news feed has no timeout and a context nobody cancels
(`scraper.go:49-51,76`, `sentiment/agent.go:75,133`), and `Run` sees no stop channel meanwhile.

### Detector

The store is the queue that `ImplementsHistory` shows the ring buffer to be; a tick now has the minute of its time stamp.
`LtpMessage` installs a snapshot with any stamp, an earlier one than the last as well, `PollLtp` appends it as often as it likes, `PatchVolume` is the quoter.  An evaluation is
`ReadCandles`, `ReadPrices`, `ReadVolumes`, the three calls that take the lock of the store, and `Conclude`; each ends it early where `evaluate`
returns.  `Candles`, `VWAPSide`, `BandSide` and `VolumeBreakout` are the indicators with every division and the root of the standard
deviation multiplied out, so that they are exact on integers; floating point is left out.  `IsSetup` is the reference: the comments of `breakout.go`
as sums over the ticks themselves, without candles, means or roots;
it speaks of stores whose minutes ascend (`MinutesAscend`), which is what `Candles` groups by.  `touched` and `stale` are history: whether the store was written to during
the evaluation, and whether it began with a window full of one snapshot.

### Sentiment

`StartCycle` to `PublishUpdate` are the calls of `processTicker` that leave the process, each with its failure.  Time is counted in ages
that stop at their limit: of a mark (`seen`), of the last two requests about a story (`asked`, `askedBefore`, kept for the property), of the latest score.
Time passes anywhere, in a cycle as well: a story is marked when it is fetched, and the LLM is asked about it later, behind the stories before it.
`Coverage` says which stories the news feed may list for which ticker.
A story is named by what `articleHash` hashes, its address; those without one are not in `Linked`, since `Validate` refuses their score.
`Stop` closes the database and the connection while a cycle may be anywhere in it: from then on what needs them fails, and
the request to the LLM does not.

### Archive

A message of the stream is its time stamp; a day's file is the sequence of the writes it received, each whole, cut before its newline, or cut
inside the object.  `AppendOk`, `AppendIsCut`, `AppendFails` and `CloseFails` are the ways out of `Append` and `rotateLocked`; whatever happened,
`Acknowledge` follows, since the subscription acknowledges behind the callback.  `handle` is the open file with its day, which stays installed when closing it fails.
`Parsed` are the lines `LoadTicks` can read: a write behind a cut one shares its line.  The replay tool is a second process: `StartReplay` loads
and plans, `GapPasses` and `HearAbort` are the two arms of its `select`, and what it publishes comes to the recorder like any price.

### GrowwClient

The one caller, `pollQuotes`, asks for one quote after the other, so one call is under way at a time.  The unit of time is what the bucket needs for one token;
`TakeToken`, `SleepForToken` and `WakeUp` are the branches of `Wait`.  After a 401 a client made from keys goes through `RefreshToken` back to the
beginning of `do`; nothing counts how often.  `requests` is history: how many were sent in each unit of the last second.

### Reports

`book` is the table in the order of its ids, with `Legacy` rows that have neither `closed_at` nor `pnl`.  `PrintReport` is one run of the tool: one statement, the sort,
the loop of `ComputeSummary` (`Tally`).  The query names `created_at`, a column that no migration makes (the table has `opened_at`):
`HasCreatedAt = FALSE` is the schema as it is, in which every report fails and the properties say nothing; the run sets it to
`TRUE` and is about a schema the query fits.

### MCPeriphery

The five machines share nothing, so `MCPeriphery` does not interleave them: `part` is chosen in the initial state, and a behaviour is one of that part while the others
stay off.  The fairness of a part that is off asks for nothing, because the action that starts a part is never fair.

## 3. Runs

| Run | Asks | Result |
|---|---|---|
| `exit` | marks, books and orders agree; implements `Liquidation`; crossed positions close; closed ones leave the cache | holds, 95k states |
| `exit_double_fire` | a closed position is not fired again | **violated** |
| `gateway` | one position per reference, no fill lost, what fits the schema acknowledged in the end; implements `ExecutionLedger` | holds, 26k states |
| `gateway_side_column` | every execution is acknowledged in the end | **violated** |
| `feed_safety` | ring buffers are bounded queues under two writers; no read on a socket without a subscription; implements `TickHistory` | holds, 408k states |
| `feed_live` | the feed comes back; the price the market keeps is heard of a symbol with a token; only the newest price is published; Stop ends the loops | holds, 36k states |
| `feed_unresolved` | the price the market keeps is heard, in the universe as it is built | **violated** |
| `lifecycle` | crashes lose no mail and it is read; agents stop after those that feed them, with their handles open; a shutdown ends if the calls of a sentiment cycle do | holds, 274k states |
| `risk_production` | exposure is what was published; the gates hold for it | holds, 887k states |
| `risk_wired` | what is counted was published, what is released was open; counters are below zero only in a `Release`; the refresh repairs the exposure for good; what is listed is squared off | holds, 198k states |
| `risk_squareoff_never` | open positions are squared off by 15:15, as main.go wires it | **violated** |
| `periphery` | a quiet evaluation finds setups and only those, a stale feed none; listed stories are scored, and asked about at most twice in the window; stored ticks are parsed, replayed in order, and every price is settled; calls return, in bursts the bucket pays for; reports add up and stay | holds, 803k states |

**Bounds and why they are enough.**  `exit` has a long and a short of one ticker over two
prices, so one price hits the stop of one and the target of the other, callbacks have two
targets, and the square-off can close either while a callback, a refresh and a restart
(`MaxCrashes = 1`) are under way; one instant lies in the exit window, the other past 15:15.  `gateway` has one entry of a long, one that `pos.Validate` refuses, the
exit of the first, whose side does not fit the column, and one unusable payload, whose deliveries interleave only through the queue, with `MaxCopies = 2` queued copies each (one at work plus one queued is
where duplicates bite) and one restart.  `risk_production` has three intents on two sectors, `MaxPromotions = 2`
(the first publish and its repetition), caps of 2 per sector and 3 in all and a ratio of 1, so that
each of the gates rejects in some behaviour; the shipped limits (1, 4, 3) are those of the other runs.  `risk_wired` has one
long and one short in different sectors and an afternoon that passes 15:15.  `feed_safety` has
two symbols for one place in the ticker store, buffers of two ticks so that they wrap, two volumes and one price; `feed_live` has one
symbol and two prices.  Both have a Monday and a Saturday instant that the clock may show in any order, which lets
the market open and close at any moment.  `lifecycle` looks at three parts of main's table, each
with the subjects that matter between its agents: intents that become executions (scout, risk manager, trader), prices that become
executions beside the sentiment scheduler (scout, trader, sentiment), and two readers of prices (scout, risk manager, recorder); `Init` chooses one, so
each keeps the order of the table, and every difference between two agents is in one of them.  Each subject has one message, and two crashes
or failed boots suffice for a consumer that is made, found and found again.  Drops, failures, snapshots and quotes are unbounded, since the state is
finite without counting them.  The theorems have none of these bounds.
`periphery`: the detector has two prices, volumes 0 and 1, two minutes, and a store of four ticks for a window of three prices and three volumes, so that windows
are shorter than the store and both wrap; both sides are reached, and so are evaluations torn by a writer.  The analyst has two
tickers and two stories, one listed for the first ticker only and one for both, so that the score of one hides the other until it is stale and a story may be
in hand behind another while its mark runs out; a window of two units against a staleness of one, so that scores and marks run out in either order; and one failing call.
The archive has two days, two time stamps, two messages and one fault (a cut write, a failing call, a lost acknowledgement or a crash): one write behind
a cut one, and one late tick behind a younger one, are the cases that matter.  The reports have three rows, a gain and a larger loss, two days of two instants.
The client has a rate of 3, the least at which the burst after a sleep exceeds what a full bucket and a second of refill allow.

**The side column.**  `SideWidth = 4` is the schema as it is.  Then no `SHORT` row is ever inserted and no
order that closes a `LONG` is ever logged or acknowledged.  The runs of the gateway have this width: `gateway_side_column` finds
`EveryExecutionFinishes` violated, and `gateway` says what holds all the same, `StorableExecutionFinishes` among it, with such an order and a refused opening
delivered again and again in between.  `exit` and `risk_wired` set `SideWidth = 5`, because they are about longs and shorts in the table together: it only adds
the behaviours that a wide enough column allows, and safety that holds there holds for the schema as it is.  All of `risk_wired` holds with four characters, too.  The theorems hold for every width.

**The exchange tokens.**  `Resolved` are the symbols whose token the universe has.  As it is built there are none
(`universe.go:33-64,90-95`); only the tests fill them in.  `feed_unresolved` has `Resolved = {}` and finds `PricesArrive` violated: no price is ever stored
or heard.  The other two runs are about the code behind the lookup, as its tests are, and `ResolvedPricesArrive` names the premise: it speaks of the symbols
that have a token.

**Deadlock** is checked for the exit monitor, whose refresh never ends, for the feed, whose clock goes on, for the
lifecycle, whose process is started again, and for the periphery, each part of which can always go on or begin anew.
Gateway and risk manager stop legitimately when everything is acknowledged, so their configurations say `CHECK_DEADLOCK FALSE`.

**Fairness.**  Weak fairness for the steps of a goroutine that has work (the Go scheduler, the
tickers).  Strong fairness for the successful outcome of a call that may fail again and again: the database and
the stream are not down for ever.  Strong fairness for `Receive`, because the consumer delivers in order, and for
`HandlePrice` of a crossed position the monitor holds: the premise "the market stays beyond the
boundary".  In the feed, a dial, a subscription and a publish get
through if they are tried for ever, and a `select` with both channels ready takes the stop channel some time: Go picks
at random.  `ResolvedPricesArrive` is about a price the last message keeps naming; nothing is assumed of the messages.
In `lifecycle` main, every `Run` and every callback go on, except that nothing ends a sentiment cycle (`EndCycle` is not fair; `ShutdownFollowsCalls` has the
return of its calls as its premise, and a `select` between a tick and the stop channel takes the latter some time), and a process that is down is started again
(`restart: unless-stopped`, or the operator); failing runs may fail for ever, which is why `MailIsRead` is about agents that did not give up.
In `periphery` the recorder's callback goes on and the consumer delivers; nothing is assumed of days, faults or the replay tool.  The agent of the analyst goes on except in `Fetch`,
which nothing makes return (`ListedIsScored` has that as its premise, and a story that stays listed while the process runs), and the clock goes on.  In the client a call goes on, a sleep ends, every request has an end (the HTTP client times out), and a server
that is asked with a good token again and again does not refuse it for ever: without that the recursion after each 401 does not end,
though `client.go:125` says "attempt token refresh once".
Nothing is assumed of the clock of the market, of restarts or of the square-off.

## 4. Disagreements found

With a run (PROJECT.json `findings` quotes the lines): the double fire of a closed position after a
late refresh; the square-off that is never wired; the side columns that hold four characters; the exchange tokens nobody fills in, without which
no tick is ever stored.

Seen while modelling, without a run:

- `executor.go:78`: a publish that was stored but whose answer is lost is Nakked and promoted again under a reference stamped anew, so nothing
  downstream can tell the copy: two open trades of one intent in one sector, though `exposure.go:11` says "at most one open trade per sector".
  `ExposureIsPublished` and `GatesHold` are therefore about what the agent knows it has published.
- `exposure.go:102` (likewise `:98`, and the total at `:94`): the decrement and the increment that undoes it are two operations, and `BiasGate` may read -1 in between,
  though `exposure.go:86-87` says of `Release` "It never underflows: closing below zero is ignored."  With -1 an entry on that side counts as none and imposes no ratio;
  `UnderflowIsUndone` says that it is -1 at the lowest, and only there.
- `sentiment/agent.go:133`, `scraper.go:76`: a request to the news feed that is never answered holds `Run`, and `main` waits for it for ever, though `main.go:97` logs
  "Shutting down all agents" and `sentiment/agent.go:144-145` says of `Stop` "unblocking Run()".
- `client.go:285-291`: after a sleep of the time one token takes, `Wait` sets the bucket to one short of full, whatever the sleep was worth.  One caller alone can send the whole
  bucket after every such sleep, up to the square of the rate in a second, where `client.go:21` speaks of "Rate-limit defaults (conservative safety margins applied)".
  `BurstsArePaidFor`, a part of `PartsOK`, says what the bucket still bounds.
- `exitmonitor.go:193`: a failed `MarkClosed` drops the position from the cache and deletes its mark; the next
  refresh brings the still open row back and it is fired again.
- `riskmanager/agent.go:156`: without a position store nothing ever decrements the exposure, so after
  `MaxTotalPositions` entries the agent rejects for good until it is restarted; and a restart starts from zero
  while positions are open.
- `squareoff.go:52`: once a day is done, an execution filled afterwards is not squared off that day.
- `exposure.go:142`: the refresh counts rows, so an execution published but not yet filled drops out of the counters.
- `riskmanager/sentiment.go`: a failing score query rejects and acknowledges the intent.
- `timeguard.go:20`: entries are refused from 09:15 to 09:30 and from 15:00 on weekdays only; before 09:15 and on a
  weekend they pass, though `docs/EXECUTION_GUIDE.md:261` describes a trading window.
- `papertrader.go:33`: a closing execution is logged once per delivery, as nothing in `trade_log` is unique.
- `papertrader.go:68`: when the `trade_log` insert fails after the position insert, the redelivery is taken for a duplicate and
  acknowledged, so the execution has no audit row, though `trade_log.go:10` calls the table "the immutable audit trail for
  every execution attempt".
- `feed.go:178`: `processSnapshot` does not ask whether the snapshot changed since the last poll, though its comment says "for each updated
  instrument".  It appends and publishes the same price every 100 ms, so 256 slots hold 25.6 s, less than one
  one-minute candle, and at most every fiftieth tick ever has a volume.  A dead feed keeps sending its last price, so
  `PriceStale` (`riskmanager/agent.go`) never fires for it; where it would, `squareoff.go:85` logs that it falls back to the entry price and does not.
- `feed.go:155`: a `Stop` during `Reconnect` closes nothing; the dial that follows installs a socket that is subscribed
  and read for as long as the process lives.  `StopEndsTheLoops` is therefore about a Stop that finds the reader reading.
- `feed.go:154` closes its channel unguarded: a second `Stop` panics, though `agent.go:113` guards the agent's own channel.
- `trader/agent.go:121`, `riskmanager/agent.go:148`, `recorder/agent.go:88`: a graceful stop unsubscribes, and nats.go deletes a durable consumer
  that the subscription created.  Executions nobody has read are lost then, and so is one in a callback whose `Ack` comes too late; the next process starts with `DeliverNew`.
  `connection.go:41` and `types.go:95` say that the durable prefix "ensures messages survive agent restarts".  They survive crashes (`FoundMailSurvives`, `MailIsRead`);
  `MailIsRead` does not hold without its `stopping`.  Between the trader's two `Unsubscribe`s a price can still make the exit monitor publish a closing
  order, which then reaches nobody.
- `main.go:72`: "so a single init failure aborts early before any goroutine is launched"; the goroutine of each agent is launched in the
  same iteration, so a later constructor that fails ends a process whose first agents may have published.
- `main.go:84`: the scout may publish before the risk manager has a consumer; on a first boot that intent reaches nobody.
- `main.go:87`: when a `Run` returns on a failed call nothing notices; the process goes on without the agent.  A trader whose price subscription
  fails keeps executing without its exit monitor.
- `report.go:110`: the query names `created_at`; migration 001 calls the column `opened_at` and no migration adds the other, so every report
  fails on the real schema.  The tests mock the database; `docs/EXECUTION_GUIDE.md:198` tells how to get a report.  `report.go:102` says
  "[from, to] (inclusive)" where the query leaves `to` out; `main.go` of the tool adds a day to make up for it.
- `report.go:57`: a period is cut at midnight of the machine the tool runs on, the breakdown by day at that of the time zone the driver returns.
- `recorder/store.go:91`: nothing waits for a callback in flight, so an `Append` after `Close` opens the file again.
- `recorder/store.go:80`: when closing the old file fails at a rotation it stays in place, and closing it again fails as well: from then on no tick is
  recorded until the process ends, and every one is acknowledged.
- `recorder/store.go:111`: an `Append` that fails is logged, and the client library acknowledges behind the callback: the tick is lost.  A file is
  never synced, so that a crash of the machine may take more than the last line.
- `recorder/store.go:65`: a write that is cut leaves part of a line, and `O_APPEND` puts the next tick in the same line: reading loses both.
  `docs/REPLAY_INSTRUCTIONS.md:45` calls the file of an interrupted day safe to reuse.
- `replay/engine.go:112`: a replay publishes on the live subjects, and a recorder that runs records it once more, into today's file.
- `replay/engine.go:105`: Ctrl-C is heard in a wait only; with speed 0, or between ticks of the same stamp, the replay goes on, though
  `docs/REPLAY_INSTRUCTIONS.md:83` says "Ctrl-C aborts cleanly mid-stream".
- `scraper.go:192`: a story is marked when it is fetched and the LLM is asked later, story after story (`sentiment/agent.go:195`), so two requests about
  it may be closer than the window; `AskedTwicePerWindow` says that there are not three.
- `scraper.go:184`: a story is marked by its address, whatever ticker it is listed for: listed for two tickers it is scored for the first that comes.  A story without an
  address is asked about once in every window, and its score is refused each time (`models/sentiment.go`).
- `sentiment/agent.go:152-159`: `Stop` closes the database and the connection, but the cycle goes on asking the LLM about the stories it has in hand.
- `client.go:135`: the retry after a 401 is a recursion that nothing counts; the comment at `client.go:125` promises one.
- `breakout.go:111,124,134`: candles, prices and volumes of one evaluation are read under three separate locks, and an intent of an evaluation that was
  torn need not be a setup of any one state of the store: TLC reaches such states in the instance of `periphery`.
- `breakout.go:134`: the poller stores a tick every 100 ms without a volume, and the quoter patches one every 5 s.  The window of eleven ticks a volume breakout needs
  then never holds the two volumes it takes: as the parameters are, the detector does not fire.
- With the shipped limits (four positions, ratio 3) the bias gate cannot reject before the platform gate does.

## 5. Proofs

The `*_proofs` modules prove, for every set of positions, executions, intents, sectors or symbols, every price grid, clock, limit,
column width, buffer size, number of rows, days, crashes, restarts and copies: the types, every safety invariant and every action property
of the passing runs, the three refinements, and invariants that no run needs any more (`IInv` of the gateway;
`MarksAreClosings`: the in-flight marks are the positions at work; `RecentIsLatest`: the readers return the end of the history).

They assume the named ASSUMEs of the modules only, which TLC evaluates on every run: sets of numbers, disjoint kinds of messages, well-formed
immutable columns, finite sets of intents and stories, limits that are not zero, and, for the lifecycle, that a part of main's table has the order of the
table (`SystemsAssumption`: agents in the order of `Place`).  Without the last `UpstreamIsSilent` is false: an agent would be stopped before one
that feeds it.

An invariant is seldom inductive as it stands.  What each proof adds, and why (`exit`, `risk_wired` and `periphery` check their inductive invariants as well):

*Exit monitor.*  "A row closed for a boundary has its order on the stream" is not inductive: the row is
written two steps after the boundary was tested.  `IInv` adds `StageOK` (at work, the callback holds targets whose boundary is
crossed at its price), `OrderSent` (between publish and drop the order of the current target is on the stream), `HeldWasFilled`
(what memory holds was in the table, and rows never disappear) and `MarksAreClosings`.  `ClosedIsFinal` and the
refinement are then one step per action.

*Gateway.*  "Acknowledged means executed" needs `AboutToAck` (at the point of acknowledging, the effect is there),
`DeliveredWasPublished` and `OnePositionPerRef`; the last also gives the refinement, where
`finished` is what was published and is no longer with the consumer.

*Risk manager.*  `ExposureIsPublished` relates four counters, written one after the other, to sets of executions.  It says what the callback
still owes each counter; beside it stand `PromotionsInOrder` (the n-th publish of an intent is its n-th execution), `CountedWasPublished` (a set that is counted
is finite, and does not hold the one that is being registered yet) and `NoStoreIsUsed`: without its stores the loop never lists and never deletes a counter the callback has
loaded.  `GatesHold` is about the moment after the registration, the gates are read up to six steps before it; `GatesPassed` carries
each of them from its read to there, which is sound because nothing else counts in between.  For the agent with its stores
too, `Bookkeeping` is proved (what is counted was published, once; what is squared off, released or recounted was open when the table was asked), and with it
`UnderflowIsUndone`: whatever the callback does meanwhile, a counter is below zero only between the decrement of a `Release` and its own undoing, and by one.

*Lifecycle.*  `UpstreamIsSilent` is a matter of order: `StoppedInOrder` says that all agents before the one main stops have closed their connections,
`NoneIsConnected` that an agent that was never constructed has none.  `RunHasItsHandles` needs `SchemaIsReady`, over boots that fail between two
migrations.  `PublishedOnAStream` needs `AtASubscription` and `StreamIsThere`, since a `Run` may be scheduled long after main launched it; `FoundMailSurvives` is then
one case per action.

*Tick store.*  The ring buffer is a bounded queue for every capacity: `AppendIsPush`, `UpdateIsPatch` and `RecentIsSuffix` say
that `AppendTick`, `UpdateLatestVolume` and `Recent` mean `Push`, `Patch` and `Latest` of `History`.  They rest on where the i-th tick lies
(`AtSlot`: an index wraps at most once) and on which slot is the newest (`LatestSlot`), in the buffer before and after it is full.

*Feed.*  `NeverSilent` needs `OpenIsFresh` (only the steps that subscribe next hold a dialled socket), `LoopsAreOff` makes `Start` run once,
and `HeardIsNewest` needs `PublishedIsStored`: between `Append` and `Publish` the price in hand is still the one of the newest tick,
since the quoter changes volumes only.  The refinement of `TickHistory` is then one lemma per operation of the buffer.

*Sentiment.*  `AskedTwicePerWindow` is about the story in hand when the LLM is asked.  Marks are a window apart; the requests they stand for are later, each by another delay.
`SentimentIInv` adds that the request before the last is not younger than the mark (`BeforeIsMarked`), so that it belongs to an earlier mark, and that
a story that waits for its request was last asked about under one earlier mark, and before that not within the window (`WaitingIsUnasked`), once each (`TodoIsDistinct`).

*Archive.*  `StoredIsParsed` follows from `StoredIsWritten`: a stored tick has a whole write in some file.  Files are only added to (`WriteGrows`),
by a cut write and by a crash in the middle of one as well.  `ReplayKeepsItsSchedule` follows from `ReplayIsOnSchedule`: the schedule is in the order of its stamps, because what
`LoadTicks` chooses as sorted exists and is sorted (`LoadTicksSorts`, `SortedExists`), and after Ctrl-C at most the step at hand is still waited for.

*Detector.*  `StaleFeedIsSilent` spans three reads under three locks.  `TailIsSnapshot` says that the polls since the last message stored the price of the
snapshot, whatever the quoter patches; when they fill the window, mean and deviation of it are that price and zero (`FlatWindowHasNoBand`), and the
last candle closes there (`LastCandle`), so no price lies outside the band.

`QuietIntentIsRight` sets the code's way (candles, weighted means, bands, a fold each) against `IsSetup`, which sums over the ticks.  Totals become curves: a
function of the prefix with one addend per step (`TotalCurve`, `TotalCombines`).  By induction over the prefixes of ticks whose minutes ascend, the candles' volumes, and closes
times volumes, sum up to the curves of the ticks, the candle of the present minute being the one that still changes (`FirstCandle`, `SameCandle`, `NextCandle`, `CandlesReach`);
so `VWAPSide` is the sign `IsSetup` takes (`VWAPSideIs`).  The variance is the spread over all pairs of prices (`VarianceIsSpread`), so `BandSide` is as well (`BandSideIs`), and
`SetupIs` puts the parts together.  What is left is the order of the reads: `MinutesAscend`, and `QuietReads`, what an untouched evaluation has in hand after each of them.

*Reports.*  `ReportIInv` says that what was printed is of the table as it is.  That the drawdown of the one-pass loop is the worst loss of
all runs of consecutive closes (`Drawdown`, `StretchSum`) is an induction over the trades, that the days make up the total (`DaysKeepTotal`) one over the
same loop.  `PastReportsStay` holds because no statement writes a stamp of a day that is over.

*Client.*  `ClientIInv`: a call that refreshes has keys, which is why a fetched token is with such a client only.
`BurstsArePaidFor` is not inductive: `SentIsTaken` adds that what went out since the last wait was taken out of the bucket.

*Together.*  `PeripheryIsItsParts`: a behaviour of `MCPeriphery` is a behaviour of each of its parts, fairness included, so the theorems about
the parts are theorems about it.

**Induction over data.**  The induction theorems of the library take an operator, which the provers here cannot instantiate.  `FoldTheorems` goes another way:
strict inclusion of finite sets is well founded (a theorem of the library without such a parameter), so a set of subsets of a finite set has a minimal
element (`MinimalSubset`), and from it come induction up to a number (`UpTo`), the function behind a fold with its recursion (`FoldByExists`, `FoldExists`),
sums in which any element may be taken first (`SumRemove`), and sorted sequences (`SortedExists`).  No module here uses RECURSIVE.

Three things the proofs found in the models.  The archive once noted a Ctrl-C as a number with a sentinel for "none"; with many faults allowed the sentinel is a place
in the schedule, and `ReplayKeepsItsSchedule` was false.  `aborted` is a set now.  The lifecycle was stated for any table, for which `UpstreamIsSilent` does not hold.  And the arms of the CASE in
`BandSide` overlapped: TLC takes the first that is true, the language any, so that nothing could be proved of the sides.  They exclude each other now.

Only model-checked: the liveness properties (`CrossedPositionCloses`, `ClosedLeavesCache`, `StorableExecutionFinishes`, `ExposureConverges`, `ListedIsSquaredOff`, `FeedRecovers`, `ResolvedPricesArrive`,
`StopEndsTheLoops`, `MailIsRead`, `ShutdownFollowsCalls`, `PricesAreSettled`, `ListedIsScored`, `CallsReturn`), since neither fairness nor ENABLED is within reach of the provers.

## 6. Not modelled, and the plan

Left out everywhere: JSON, XML, prompts, logging, floating point, the sizes of positions, and
everything PROJECT.json lists as `not_modelled`.  Parts of components that PROJECT.json lists as `partly` and why:

- indicators, live-data calls, orders, margins, queue and pull subscriptions without a caller in the system;
- the allocator (a set of intents it sizes to zero) and the price cache of the risk manager: it decides at which price a square-off is booked (the entry price when no tick
  has come), never whether one is; a price that `squareoff.go:84` finds stale is used all the same, whatever its log line says;
- the statements of a migration, one step here; the static universe; environment variables;
- the dashboard, which is a placeholder.

External behaviour that is assumed, not translated: a
subscription of nats.go calls its callback serially, and acknowledges behind it unless it is told not to; a durable consumer redelivers until acknowledged; PostgreSQL
executes one statement atomically; a file system appends in order; the container is restarted after a crash.

Done so far, the most important behaviour first: how positions are opened and closed (`TraderGateway`, `ExitMonitor`),
what lets them in and squares them off (`RiskManager`), where prices come from (`TickStore`, `QuantitativeFeed`),
how the process starts, stops and comes back (`Lifecycle`), and the parts around the trading path (`MCPeriphery`).  What is left, in this order:

1. `TradingSystem`: risk manager, gateway, exit monitor and square-off over one stream and one table; exposure
   against rows end to end.
