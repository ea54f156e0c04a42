# AI-SMC in TLA+

AI-SMC trades gold (XAUUSD) and bitcoin on MetaTrader 5. Once per fifteen-minute
bar a Python process decides and writes a signal into a file; a small HTTP server
hands the file to an Expert Advisor (EA) inside the terminal; the EA sends the
order and trails its stop. The processes share files and the broker, and nothing
acknowledges anything. Offline, a data lake, a detector, four aggregators and a
backtest decide whether a strategy is good enough to go live.

This directory models both. Of the live side: the daily halts and their files,
the booking of closed deals into them, the way from a decision to an order, the
trailing stop, what starts the processes again, the choice between trend and
range, range trading with its limits, the order manager, the start of a process,
the margin cap, and the caches of the macro and AI layers. Of the offline side:
the strategy from charts to setups, detection, the backtest of a window, the
walk-forward protocol, and the lake. TLC checks the models on small instances;
TLAPS proves some of the properties for every value of the constants.

Paths below are relative to the repository; `live_demo` is
`scripts/live_demo.py`, the EA is `mql5/AISMCReceiver.mq5`.

## 1. The system

### 1.1 Components

| Component | State it keeps | Operations | Talks to |
|---|---|---|---|
| Live loop (`live_demo`) | locals of `main` that outlive a cycle (`action`, `best`, `planned_lots`), `daily_pnl`, `peak_balance`, `last_reconcile_ts` | wait for the bar; halts; tick and data; decide; gates; journal; reconcile; `save_state` in `finally` | broker (positions, deals, account), state files, journal, `live_state.json` |
| Consecutive-loss halt (`risk/consec_loss_halt.py`) | streak, `tripped`, date; `consec_loss_state.json` | `is_tripped`, `record`, `reset`, load, save | live loop |
| Asian circuit breaker (`strategy/phase1a_circuit_breaker.py`) | losses, P&L, `tripped`, date; its JSON file | `is_tripped`, `record_trade_close`, `reset`, load, save | live loop |
| Deal reconcile (end of a cycle in `live_demo`, `monitor/reconcile_cursor.py`, `execution/mt5_positions_adapter.py`) | cursor in memory and in `last_reconcile_ts.json` | fetch closed deals, book each into both halts and `daily_pnl`, probe the account, move and save the cursor | broker history, halts |
| Drawdown guard (`risk/drawdown_guard.py`) | none (pure); fed `daily_pnl`, `peak_balance`, `info.balance` | `check_budget` | live loop |
| Pre-write gates (`risk/concurrent_gates.py`, `strategy/range_quota.py`, `risk/margin_cap.py`) | quota date and its file | `check_concurrent_cap`, `check_anti_stack_cooldown`, quota, margin | broker, live loop |
| Strategy server (`scripts/strategy_server.py`) | none | stamps `live_state.json` with its age and an identity | EA over HTTP |
| EA | last signal id and cooldown stamps per leg; table of tickets with initial stop and trail parameters; all in memory | poll, execute, trail | server, broker |
| Handle watchdog (`monitor/mt5_watchdog.py`) | streak of missing ticks | reset the MT5 handle, give up | live loop |
| Supervision (`scripts/bootstrap_vps.ps1`, `scripts/watchdog_smart.ps1`) | task states, restarts left | start at boot, restart on failure; every five minutes look for a process, its age, the age of its file | live loop, `live_state.json`, operating system |
| Single-instance guard (`live_demo` 61-127, 185-217) | PID file per leg, files of the old layout | create exclusively, detect stale, remove, migrate | operating system |
| Mode router (`strategy/mode_router.py`, `session.py`, `regime.py`, `instruments/*`) | none | choose trending, ranging or plain pipeline | live loop, A/B script |
| Range trader (`strategy/range_trader.py`, `range_quota.py`) | last setup per direction and its file, day of the Asian range and its file | detect, check guards, build setups | live loop |
| Trend strategy (`strategy/aggregator*.py`, `zone_scanner*.py`, `entry_*.py`, `htf_bias.py`) | cooling and active zones of an aggregator | bias, zones, entries, scores | live loop, backtest |
| Detection (`smc_core/*`) | none: each call detects anew | swings, breaks, blocks, gaps, liquidity, synthetic zones | strategy |
| AI layers (`ai/*`) | macro files, cached context, direction memory, prebuilt files | direction, regime, macro bias, each with fallbacks | LLM, CFTC, FRED, Yahoo, files |
| Python order path (`execution/*`, `risk/margin_cap.py`) | local positions, circuit file | execute, manage, reconcile, check the margin, send with retries | broker; live trading leaves orders to the EA |
| Data lake (`data/*`, `scripts/backfill_*`) | partition files, manifests | fetch, write, query | files |
| Backtest (`backtest/*`, `scripts/run_*`) | positions, trades, equity; JSON and JSONL results | adapter, engine, walk-forward loop, gates | aggregators, lake |
| Monitoring, dashboards, scripts | files they read | formatting; the pause button | files |

The full list, with what is modelled of each, is in `PROJECT.json`.

### 1.2 Interaction of the modelled parts

```
  broker history --closed deals--> reconcile --records--> consec halt, breaker
        ^                             |                        |
        |                          cursor file          head of a cycle
        |                                                      v
  EA <--poll-- strategy_server <--live_state.json-- decide, gates, publish
   |                                                      ^
   +--order, stop--> broker --positions, deals (a bar later)

  macro sources, LLM --overlay, analysis--> decide <--mode, range or trend setups-- detection

  sources --files, manifests--> lake --bars--> detection --> aggregator --setups--> engine
                                                   ^                                  |
                                                   +---- loss, open, close of a zone --+
```

### 1.3 What is hard about it, and what makes it correct

- **Halts that live in files** (crash and restart, days, manual resets). A halt
  must be active exactly when its rule holds of today's trades, and nothing but a
  new day or the operator may lift it.
- **Deals booked by a cursor** (at-least-once delivery, partial failure). No deal
  the cursor has passed may be missing from a halt; a deal may be booked again
  only where the code cannot know better; every deal is booked eventually, even
  over halted days.
- **Gates that read the broker before the EA has acted** (stale reads). The
  limits on positions, on entries close together and on Asian ranges can be
  passed; the question is by how much. A halt must let at most the cycle under way
  finish.
- **Locals that outlive a cycle** (stale state). An order must be sent on a
  recent decision.
- **Two timers that watch a third** (liveness, limits on ages). A leg that works
  may not be stopped, one that does not must come back.
- **A table in memory keyed by ticket** (resource bound, restart). A stop must
  never be loosened, and must follow the price at the distance that was asked for.
- **State that two legs share or fail to write** (restarts). A cooldown and a daily
  quota must hold over restarts; where the file is another leg's or was never
  written, it must be only there that they do not.
- **Calls the broker carries out without an answer** (unreliable delivery). A
  position that is gone must be booked once or reported; a stop must not move back;
  what is sent twice must be bounded.
- **Processes that start together** (interleaving of file operations).
- **Sources that fail one by one** (partial failure, caches of different lifetimes).
  What a decision rests on must be current, or its source must have failed.
- **A backtest that calls back** (protocol). Zones marked by callbacks must be the
  open trades; the books and the report must agree with what happened; nothing may
  be decided on a bar that has not been seen.
- **Windows, months and bars that are still forming** (boundaries). No day is tested
  twice, no broken zone is offered, no bar of the lake is lost but at the edges of
  a run.

## 2. Modules

| Module | Models | Uses |
|---|---|---|
| `DailyLatch` | what a daily halt promises (abstract specification) | |
| `LosingRun` | the rule "N losses in a row" on a list of P&Ls | |
| `ConsecLossHalt` | `risk/consec_loss_halt.py`, its file, crashes | `LosingRun`, implements `DailyLatch` |
| `Phase1aBreaker` | `strategy/phase1a_circuit_breaker.py`, its file, crashes | implements `DailyLatch` |
| `DealReconcile` | the reconcile of `live_demo` with the halts, the drawdown guard and the cursor | `LosingRun` |
| `SignalPath` | live loop, strategy server and EA, from decision to order | |
| `TrailingStop` | `ManageTrailingStops` of the EA and the broker's stops | |
| `Supervision` | the tasks of the two XAUUSD legs, `monitor/mt5_watchdog.py` in the loop, `watchdog_smart.ps1` | |
| `HtfBias` | the bias of the daily and four-hour charts | |
| `ZoneEntry` | zones, triggers, stops and targets of an entry, both generations | `HtfBias` |
| `Aggregator` | aggregators 1, 1.1, 2 and 3: filters, scores, cooling and active zones | `ZoneEntry` |
| `Backtest` | adapter and engine over one window, as each script connects them | `Aggregator` |
| `WalkForward` | the loop and verdicts of the gates, the single-window scripts | |
| `Detection` | `smc_core` on a window that slides | `ZoneEntry` |
| `Lake` | fetches, partition files, manifests, queries, killed runs | |
| `ModeRouter` | instruments, sessions, regimes, router, the A/B comparison | `HtfBias` |
| `RangeTrading` | `range_trader.py`, its files and `determine_action`, for two legs | `ModeRouter`, `ZoneEntry` |
| `OrderManager` | order manager and reconciler over a broker that answers badly | |
| `Startup` | single-instance guard, migration, connection | |
| `OrderPath` | margin cap and `send_with_retry` of several processes | |
| `MacroOverlay` | macro bias with its three sources and their caches | |
| `AiDirection` | who says the direction, live and from files | |
| `ConsecLossHalt_proofs`, `Phase1aBreaker_proofs`, `DealReconcile_proofs`, `SignalPath_proofs`, `TrailingStop_proofs` | the theorems about a module | the module, TLAPS |
| `Supervision_proofs` | the theorems about `Supervision` and `Startup` | both, TLAPS |
| `LivePython_proofs` | the theorems about `ModeRouter`, `RangeTrading`, `OrderManager`, `OrderPath`, `MacroOverlay`, `AiDirection` | these, TLAPS |
| `Research_proofs` | the theorems about `WalkForward`, `Lake`, `Backtest` and `Detection` | these, TLAPS |
| `MC*` | the sets a configuration cannot write down; the parts that a run checks side by side (`MCProtection`, `MCResearch`, `MCLivePython`) | the modules |

`DealReconcile` does not repeat the halts: it keeps the list of what was booked
and asks `HasLosingRun` of it. `ConsecLossHalt` proves that its counter decides
exactly that (theorem `HaltIsLosingRun`), so the two fit together. `SignalPath`
in turn lets a halt begin at any moment, which covers whatever trips it.

### 2.1 ConsecLossHalt and Phase1aBreaker

The two are built alike; the second has the names of the first with `Breaker` before them,
so that one run can hold both. `mem` is `self._state`, `file`/`readable` the JSON file, `saving` the interval in
which `write_text` has truncated the file and not filled it. `Rolled` is
`_apply_daily_reset_if_needed`, `Recorded` the body of `record` /
`record_trade_close`, `Loaded` is `_load_state`. Actions: `Start` (constructor),
`IsTripped` (a call, which may roll the day over and save), `Record` /
`RecordTradeClose`, `Reset` (operator), `SaveDone`, `Crash`, `Midnight`. With
`TornWrites` a process may die inside a save.

The reference the properties compare with is history: `trades` (today's P&Ls)
and `totals` (the running totals after each of today's trades). The code keeps
a counter that it resets, latches, saves and reloads; that the counter decides
the rule on the list is what `TrippedIffLosingRun` and `TrippedIffLimitReached`
say.

### 2.2 DealReconcile

`pc` walks through a cycle: `idle`, `body`, `consec`, `breaker`, `cursor`. Time
is the order of events: the broker's deals form a sequence and a moment is a
position in it. `cycleStart` is the `now` of the cycle; deals can close between
it and the fetch (`DealsDuringCycle`), which is where the code counts twice.
`HaltedCycle` publishes HOLD and skips the reconcile, `DoomedCycle` is the
unguarded `float(info.balance)` after a failed probe, `FailCycle` a cycle that
dies before its reconcile, `AbortReconcile` an exception between two bookings,
`Crash` a kill anywhere; `TogglePause` is the operator's flag. `DrawdownBlocks` has the
drawdown and, as `DailyLossBlocks`, the daily loss, which reads a `dailyPnl` that nothing
resets. `PeakChoices` includes the daily reset of the peak whose
probe fails. Switches allow each kind of failure; `faults` counts what
`MaxFaults` bounds.

### 2.3 SignalPath

One leg of one symbol. `choice` is the pair of locals `action`/`best`; it
survives the cycle, as Python locals of `main` do. `Decide` chooses anything the
strategy could and lets the quota, the cap and the anti-stack gate block it;
`DecideBlind` is a gate whose probe fails (they fail open); `CycleFails` jumps to
the `finally` block; `Publish` writes whatever `choice` holds under a new identity
and time. The server is the guard `Fresh`; the EA reads a signal once
(`lastId`), honours its cooldown, and may lose its memory (`EaRestarts`).
`decided`, `slot` and `haltSig` are history.

Time is counted in units of five minutes (`RangingCooldown` = 1); a bar is 3
units, the trending cooldown and the anti-stack window 6. `Tick` happens while the
loop waits for its bar and inside a cycle, before its decision, for as long as it likes:
the AI call of a cycle may take several bars, which the loop then misses (`headAt`). Only
from the decision to the publication, where there is no call but to the broker, a cycle takes less
than a unit. Since an age of d units stands for anything between d-1 and d+1,
each guard on an age is taken in its permissive form: the model does everything
the code can, and a little more.

### 2.4 TrailingStop

Positions at the broker with a direction, an entry and a stop; a tick moves the
price and closes every position whose stop it reaches. `tracked` and `slot` are
the EA's table. `Trail` is an iteration of `ManageTrailingStops` that modifies
the position, `Leave` one that returns early at any of its guards or whose
`PositionModify` is refused; both perform the side effect of `GetInitialSL`,
which takes a slot. `Open` records the signal's trail parameters under the
number of the deal. `best` and `intact` are history. Bid and ask are one price
and R-multiples are per cent.

### 2.5 Supervision

The two XAUUSD legs, control and macro, each with a process (`off`, `waiting` for
its bar, in a `cycle`, `writing` its file, `exiting`, which writes it too, `frozen`), its MT5
handle and tick streak, its `live_state` file (its age, and
whether it is whole) and its task (`restartIn`, `retries`).
`Tick` is a minute; it waits until every watchdog has run (`WatchTime`), every
restart that is due has happened and every cycle has ended that must. An age that
has just reached a limit may be read on either side, for the seconds the model
does not count. `GoodCycle`, `BlindCycle`, `LastBlindCycle` are a cycle with a
tick, without one, and the one that gives up; all end in the `finally` block, which empties
the file (`BeginWrite`) and then fills it (`FinishWrite`, `Exit`), so
a leg that has been blind for hours has a fresh file, and only the handle
watchdog can notice it. `FindsStale` takes a file that is not whole for an old one, be it that
its writer is at work or was killed there. `XauStale` stops both legs; `MacroStarts` is
`Start-ScheduledTask`, which a running task ignores. `Crash`, `Freeze`,
`HandleBreaks` and `QueryFails` are what `MaxFaults` counts. A cycle ends within
`MaxCycle` minutes or is `frozen`, and then may `Thaw`.

The single-instance guard is left to `Startup`: here a restarted process finds no
other of its leg, since its task has at most one.

### 2.6 HtfBias, ZoneEntry, Aggregator

Operators without variables: what the charts show at one moment (`Market`, see the
head of `Aggregator`) becomes a ranked list of setups. Prices are whole numbers,
confidences and scores thousandths. `GenerateSetups*` follow the four versions from
the bias through zones (from blocks, gaps, or price alone), direction filter,
triggers, stops and targets, the fitness judge, scores and the cut to the best few.
Cooling and active zones are arguments: who changes them is the caller.

### 2.7 Backtest and WalkForward

`Backtest` is one window of one script. `phase` is first the adapter's loop
(`GenerateAt` at the end of a chunk, `SkipBar` within one), then the engine's
(`StartEngine`, `Bar`, `Finish`). `Bar` is the whole iteration of the engine: closes at
stop or target, callbacks, opens with spread and slippage, the point of the equity
curve. `wiring` says which aggregator runs and which callbacks its script connects,
one definition per script. What the callbacks change is `cool` and `active`.
The clock of a cooldown is the wall clock, as in the code.

`WalkForward` slides the windows of a gate (`Walk`) over months of unequal length and
holes in the history, pools the results and judges (`Judge`), or stops at its own
check of parameters (`Abort`); `RunSingleWindow` is one process of a single-window
script that appends its line. What one backtest yields is drawn from a set.

### 2.8 Detection

`chart` is the window of the last bars, each with what the library found at it;
`NewBar` slides it, `BarMoves` widens the bar that is forming. `Detect` thins out the
swings in passes, tracks mitigation and fills bar by bar, and clusters equal swings.
The synthetic zones are computed from prices alone.

### 2.9 Lake

`files` are the partition files by root, timeframe and month, each readable or torn;
`manifests` what was written of a source. A job is one run of an ingest or backfill;
it fetches, writes file by file, writes the manifest, and may be killed between any two
of these or inside one. The command line and the scripts write under different roots, as
they do in the code.

### 2.10 ModeRouter and RangeTrading

`ModeRouter` answers one question about a bar, in the arm that sees the assessed regime
and in the one that does not (`CompareBar`). `RangeTrading` is a cycle of a leg
(`Cycle`): detection by blocks, swings or channel, guards, setups at a border,
`determine_action`, the quota and the cooldown, and the writes of both files, which may
fail. `RestartLeg` reads them again. `history` remembers the last two setups and ranges
of a leg, and when a restart lost what had not been written or was the other leg's.

### 2.11 OrderManager, OrderPath, Startup

`broker` and `local` are the positions on both sides. A call of the manager is several
steps, one per ticket (`call` is what it has left to do), because the broker closes
positions by itself between them. Each request is done, refused, or carried out
without an answer; a query shows the positions or fails and shows none. `booked`,
`dropped` and `unanswered` are history. Reconciliation is two operators on the state
(`ClosedByBroker`, `Untracked`).

`OrderPath` has one process per leg and symbol: it checks the margin, then makes up to
`MaxAttempts` attempts, of which each unanswered one may have been filled, and opens
its circuit. `Startup` has the steps of `_ensure_single_instance` one file operation at a
time, the migration of the old layout's files, which both legs try, and the connection;
a process may be killed anywhere. `RemovesOpenFile` tells POSIX from Windows. `robbed`
is history.

### 2.12 MacroOverlay and AiDirection

`ComputeMacroBias` is the whole of `compute_macro_bias`: what is due of each source is
fetched from whatever answers, and what fails is replaced by the file or left out. Yields are due
after midnight; reports are due always, because the test of their age raises (5.4), so
their file only stands in for a download that failed. The context is cached with the index, the
volatility or the real rate in it (`HasAny`). `overlay` is the answer just given, with the files
that were due and `lost` because their sources failed;
`inVain` is history. `MacroDies` loses what was in memory and a file being written.

`AiDirection` has two independent halves. Live: `AiCycle` takes an analysis or asks
for a new one, `AiCycleFails` is the analysis that raises. Backtest: `Ask` answers one
bar from the direction file through the engine's memory, and from the regime file;
a remembered answer may have expired (`hit`). What models, averages and prices say is
an input.

## 3. Runs

| Run | Checks | Distinct states | Shows |
|---|---|---|---|
| `protection` | `TrippedIffLosingRun` `ImplementsDailyLatch` `TrippedIffLimitReached` `BreakerIsDailyLatch` `StopFollows` `StopOnlyTightens` | 795,321 | the halt is active exactly when three trades of today lost in a row, the breaker when one of its limits was reached, over restarts and days; a stop is never loosened, and is where R of the signal's stop puts it |
| `consec_torn` | `HaltSurvives` (violated) | | a process killed inside a save comes back without its halt |
| `reconcile` | `NothingSkipped` `CountedOnce` `EventuallyBooked` | 534,784 | booking loses nothing, repeats only where it may, and ends unless the loop is held back again and again |
| `reconcile_daily` | `DailyHaltIsTodays` (violated) | | the loss of a day that is over stops the next day |
| `signal` | `ExecutedOnce` `CapHolds` `NoPileUp` `OneAsianRange` `HaltTakesHold` | 5,372,134 | how far each limit can be passed, and no further |
| `signal_stale` | `DecisionIsRecent` (violated) | | a failing cycle publishes the previous decision as a new one |
| `trailing_regime` | `StopFollowsRegime` (violated) | | a regime's trail parameters have no effect |
| `supervision` | `WorkingControlSpared` `ControlRecovers` | 4,361,055 | a control leg that works and is not about to write its file is left alone, one that does not comes back while its task has restarts |
| `backtest` | `BooksBalance` `ActiveZonesAreOpenTrades` `ReportAgrees` `StopOnLossSide` | 1,040,896 | the engine keeps its books and its callbacks in step under all sixteen wirings, and reports what happened |
| `look_ahead` | `NoLookAhead` (violated) | | a trade is opened at the open of the bar whose close made its signal |
| `research` | `TestedOnce` `SingleMatchesGate` `SwingsAreSignificant` `OfferedZonesAreIntact` `SyntheticZonesAreApart` `QueryIsComplete` `OnlyEdgesLoseBars` `ManifestFollowsFiles` | 246,835 | windows, detection and lake, each moving alone |
| `live_python` | `RouterNarrows` `LimitsSurviveRestarts` `RangeStopOnLossSide` `EveryCloseIsKnown` `OneInstance` `ExposureBounded` `StopsOnlyTighten` `OverlayIsCurrent` `AnalysisIsAccountedFor` `CachesSeeThePast` | 1,722,747 | router, range trading, orders, start, margin, macro data and directions, each moving alone |

In `protection`, `research` and `live_python` the variable `part` says which of the modules moves; the
others rest in one initial state. The modules share no variables, so nothing is lost by
it, and each property speaks of one of them.

What each property says, and of which code, stands above its definition.

### 3.1 Bounds and why they are enough

- *Halts*: three days, up to five trades a day, limit 3, one manual reset. Five
  trades hold a streak that is broken and rebuilt, and trades after the trip;
  the third day sees a state two days old. P&Ls are a loss, a break-even and a
  win (for the breaker: a small and a large loss and a win, so that both limits
  are reached in either order).
- *Reconcile*: two deals, two days and two faults with `ConsecLimit` 2, so that
  a halt, a halted day and the next day all occur while deals wait. The limits are those of
  the code, 3 % of a day and 10 % of drawdown, of 1000 dollars; a deal is 12 or 40, so
  that one or two reach the daily limit. What two deals lose stays below the drawdown limit,
  which one leg's own deals reach after the daily one. Losses only: wins make
  `HasLosingRun` and both limits rarer and change nothing else.
- *Signal path*: cap 1 and six units of time (three bars: 0, 3, 6, of which
  a long cycle may miss one or two), two days and
  one fault. The bound on each limit is `1 + Slack` over the limit, and each is
  tight: with one less, TLC finds a violation, so the case in question does
  occur within the bounds.
- *Trailing stop*: initial risk 2 points, prices 1..6, two positions that may be
  open together, activation at half an R and distance one R (so that a price can
  turn back without reaching the stop), a table of three slots so that numbers
  of deals and of positions fit. The violation run uses the EA's defaults, half
  an R for both.
- *Supervision*: the intervals of the scripts (bar 15, checks every 5, grace 10,
  stale 20, restart after 5, thresholds 3 and 5) and two faults, which may hit
  the same leg twice or both legs; two restarts instead of ten, so that "none
  left" occurs too.
- *Backtest*: five bars in chunks of two, so that setups come at the end of a chunk,
  in the middle of the window and at its end; four shapes of a bar (a quiet one, one
  that reaches targets, one that reaches stops, one that reaches both), and four
  markets, of which two are rising and falling, one is mixed and one is traded
  against its regime. All sixteen wirings of the scripts run.
- *Walk-forward*: histories that begin at a month's first day, on 28 November and on
  28 February, with a leap year and a hole of four months; three outcomes of a window,
  one of which passes, one fails, one has no losses.
- *Detection*: a window of three bars that slides once and whose last bar widens in
  every way three shapes allow; five rows of findings with neighbours too close,
  a block, a gap of either direction. A swing can be dropped in a second pass.
- *Lake*: three months of two bars, two runs out of five, of four sources, one of them
  across all months, one inside one, one from the middle of one to the middle of
  another.
- *Router*: every combination of session, regime, channel, price, direction, three
  confidences around the two floors, and assessments.
- *Range trading*: two legs with opposite switches, six scenes, four bars (two
  of an Asian session, one late, and the next day's first), two restarts, one failed
  write.
- *Orders*: two tickets, one fault, prices within five dollars around the stops and
  targets. *Start*: three processes of the control leg and one of the other, five
  starts in all, on Windows. *Margin*: three senders with margins 2, 1 and 2 under a
  cap of 4, two attempts; the bound of `ExposureBounded` is reached.
- *Macro*: half a day is one unit, a report every three days, published after one, a
  context that lives a day, four days in all; every combination of what can answer.
- *Directions*: live, a refresh after three cycles of eight; backtest, an hour of two
  bars, a lake of thirty, three questions in any order, so that a remembered answer is
  asked for by an earlier and a later bar.

The passing runs leave out, by constants, what is known to break a property and is
described in section 5: saves of a halt that are torn (`TornWrites`, on in `consec_torn`; of
the breaker, `BreakerTorn`), deal queries that fail silently (`FetchMayFail`), outages longer
than the lookback (`LongOutages`), handles that stay stuck (`HandleFaults`). The violation runs
with a configuration of their own keep the rest small or quiet, so that the trace shows the one thing.

`CHECK_DEADLOCK FALSE` stands where a bound ends the exploration (last day, last
trade, end of time).

### 3.2 Fairness

Two runs check a liveness property. `ControlRecovers` assumes weak fairness of the
whole next-state relation of `Supervision`: time goes on, and since `Tick` waits
for whatever is due, so does everything else; nothing makes a frozen call return
or a fault happen. `EventuallyBooked` uses the `FairSpec` of `DealReconcile`: weak fairness of the calendar, of the start of the process
(Task Scheduler restarts it), of the head of a cycle (the bar timer) and of each
step of a reconcile that has begun (sequential code); strong fairness of `Fetch`,
because single cycles may fail before their reconcile (no tick, an exception),
but the strategy does not fail in every cycle for ever. Nothing is assumed of the
market, of crashes or of the operator: `TogglePause` has no fairness, and who sets the flag
may leave it. The property therefore excepts, as `HeldBack`, a loop that is kept from trading
again and again without end: by the flag, by the drawdown guard (whose daily wire does not let go,
see `reconcile_daily`), or by the consecutive-loss halt of the last explored day, which only
the bound makes last. What is left is that a halt of an earlier day, failed cycles,
crashes, aborts and lost cursors delay a booking and never prevent it.

## 4. What is proved

| Theorem | Module | Assumes |
|---|---|---|
| `HaltIsLosingRun`: `Spec => []TrippedIffLosingRun` | `ConsecLossHalt_proofs` | no torn writes |
| `HaltImplementsDailyLatch`: `Spec => ImplementsDailyLatch` | | no torn writes |
| `BreakerIsLimitReached`, `BreakerImplementsDailyLatch` | `Phase1aBreaker_proofs` | no torn writes |
| `DealsCountOnce`: `Spec => []CountedOnce` | `DealReconcile_proofs` | |
| `NoDealIsSkipped`: `Spec => []NothingSkipped` | | fetches do not fail silently, outages shorter than the lookback |
| `CapIsPassedByOne`: `Spec => []CapHolds` | `SignalPath_proofs` | |
| `HaltLetsOneCycleFinish`: `Spec => HaltTakesHold` | | |
| `SignalsExecuteOnce`: `Spec => []ExecutedOnce`, `OneRangeADay`: `Spec => []OneAsianRange` | | |
| `EntriesDoNotPileUp`: `Spec => []NoPileUp` | | the cooldown of the EA covers the anti-stack window (30 minutes each) |
| `StopsOnlyTighten`: `Spec => StopOnlyTightens` | `TrailingStop_proofs` | |
| `StopFollowsBest`: `Spec => []StopFollows` | | the table has a slot for every number one run of the terminal sees |
| `WorkingControlIsSpared`: `Spec => WorkingControlSpared` | `Supervision_proofs` | a bar and a cycle pass before a file is stale |
| `OneInstancePerLeg`: `StartupSpec => []OneInstance` | | |
| `ClosesAreKnown`: `OrderSpec => []EveryCloseIsKnown`, `StopsTighten`: `OrderSpec => StopsOnlyTighten` | `LivePython_proofs` | |
| `RouterOnlyNarrows`: `RouterSpec => []RouterNarrows` | | |
| `RangeLimitsHold`: `RangeSpec => []LimitsSurviveRestarts` | | |
| `RangeStopsLose`: `RangeSpec => []RangeStopOnLossSide` | | |
| `OverlayCurrent`: `MacroSpec => []OverlayIsCurrent` | | |
| `AnalysisAccounted`: `AiSpec => []AnalysisIsAccountedFor`, `CachesArePast`: `AiSpec => []CachesSeeThePast` | | |
| `ExposureIsBounded`: `PathSpec => []ExposureBounded` | | |
| `TestedOnce` and `SingleMatchesGate` of `WalkSpec`: `DaysAreTestedOnce`, `SinglesMatchTheGate` | `Research_proofs` | the history begins by the 28th of a month |
| `ManifestsFollowFiles`, `EdgesLoseBars`, `QueriesAreComplete`: the three properties of the lake, of `LakeSpec` | | |
| `BooksAreBalanced`: `BacktestSpec => []BooksBalance`, `ActiveZonesAreExact`: `BacktestSpec => []ActiveZonesAreOpenTrades` | | |
| `StopsLose`: `BacktestSpec => []StopOnLossSide` | | |
| `ReportsAgree`: `BacktestSpec => []ReportAgrees` | | chunks of more than one bar |
| `SwingsStaySignificant`, `ZonesAreIntact`, `SyntheticStayApart`: the three properties of the detector, of `DetectionSpec` | | |
| `TypeCorrect`: the variables keep their types | `ConsecLossHalt`, `Phase1aBreaker`, `DealReconcile`, `SignalPath`, `TrailingStop`, `Supervision` | |

All hold for every value of the constants that the named `ASSUME`s of a module
admit (limits are positive, P&Ls are integers, and the like); the bounds play no
part. TLC evaluates the assumptions in the runs.

**The halts.** `TrippedIffLosingRun` is not inductive: it says nothing of the
streak below the limit, of the file, or of the dates. The invariant `IInv` adds
that the state the halt would decide by *describes* today's trades (`Describes`:
the counter is the length of the losing run at the end of the list, unless the
halt has tripped), that a process that is not saving has its state in the file
(`Durable`), and that no date is later than today (`DatesOK`). The proof goes
through one abstraction, `EffectiveStep`: whatever a step does to memory and
file, the effective state is unchanged, records one trade, or is fresh again.
The refinement of `DailyLatch` follows from it. The breaker
has the same argument with totals in the place of a streak.

**The reconcile.** `NothingSkipped` speaks of the cursor in memory and on disk.
`Progress` adds what the process is about to rely on: in the middle of a
reconcile everything before `next` is booked (in the second halt up to one
less), a finished one has booked up to `cycleStart`, and cursor, file and cycle
start never pass each other. Bookings are never undone (`BookingAdds`).

`CountedOnce` is the other side and holds with all failures. `CountInv` says it of every
deal and halt with one to spare for a deal that may still be booked (`Awaits`): by the
running reconcile, or by one after a restart that reads an older cursor. Each crash,
abort or failed save, which makes a deal wait again, brings a fault that pays for it.
A deal that closed during the cycle (`Fresh`) is booked beyond the cursor, once.

**The signal path.** For the cap, `CapInv` counts not only the open positions
but what is on its way: a published signal that the EA may still execute, and a
choice that passed the gates and is not published. A gate that passes has seen
fewer than the cap, but not the signal in flight; hence one over. For the halt, the
history `haltSig` is the number of the signal that the cycle under way will publish (or has
published, between two cycles) when the halt begins. `HaltInv` says that while it lasts a
published signal with a direction has no later number, and that a cycle still running will publish
at most this one, so every later cycle has seen the halt at its head. Nothing is said of time:
the AI call of that cycle may take bars, and its order then comes that late.

The other three limits are counts, and each needs the same idea: count what has
happened together with what is already on its way. `ExecInv`: a signal that can still
be read has one execution less than allowed. `SlotInv`: of an Asian session, the deals, the range
that is published and unread and the one that is chosen are at most one and the slack, and while
the quota is open one more has room. `PileInv`: while the window of a deal is open, what may
come on top is a range that was asked for or picked before the gate saw the deal, or
anything if the EA has forgotten the deal; a trending entry waits for the cooldown,
which is why it has to cover the window.

**The trailing stop.** For buys the guard `Progress` is the property. For sells
it also accepts a stop that is not positive ("no stop"), so the proof needs
`SellsHaveStops`: a sell always has one, because its first stop is above the
entry and each candidate is at or above the price.

That the stop is *exactly* where the best price puts it (`StopFollowsBest`) rests on
the table: `TableInv` and `SlotInv` say that a position of the table is known with the
first stop of its order, and one that is not has never been trailed. Without room in the
table (`TableHasRoom`, the code's "128 is generous") the next tick would take R from a
stop that has moved.

**The supervision.** Only a stale file lets a watchdog stop the control leg, so the
invariant `FreshInv` bounds the file's age by the clock: a leg that has published
and waits has a whole file no older than the bar, and in its next cycle one bar older. A file is
torn only while its process is in the act of writing, or after it was killed there, and a
process started since has not published. With `Bar + MaxCycle < StaleMinutes` (15 + 4 < 20) it is never stale. The proof
shows what the 20 minutes of the script rest on: a cycle of five minutes would
break it. It also shows the limit of the statement: in the moment between emptying and
filling the file the leg is as exposed as a frozen one (5.2).

**The order manager.** `EveryCloseIsKnown` relates the two sides only through
tickets. `OrderInv` adds that a call in progress has only tickets left that the
manager knows, at most one of them to be refreshed (`CallShape`), and that the manager's copy of a stop is the
broker's unless a change of it went unanswered or the copy is about to be refreshed
(`CopyOK`): the trailing rule compares with the copy, so without this a step could
loosen the stop.

**The start of a process.** A process that is past the guard holds the leg's PID file
(`OwnerHoldsFile` in `StartupInv`), until one has removed the file of a living process.
The theorem holds on POSIX and on Windows; what differs is how often that happens.

**The router.** `RouterInv` says that nothing was asked yet or one bar was put to both
arms; that the assessed arm only narrows is a case for each branch of the thresholds
(`NarrowedRoute`).

**Range trading.** `LimitsSurviveRestarts` compares the last two setups of a leg. `RangeInv`
relates the last one to what the leg remembers: it is in memory, or a restart since has
lost it, and of two in a row the second was allowed by the first, unless a restart
between them had lost it (`Kept`). A file that the leg has written, and no other leg since,
says what is in memory (`FilesAgree`); so a restart loses something only when it finds another file. Two
restarts in a row made the invariant fail in the first version of the model: the second
one forgot that the first had lost anything. The history now adds them up, and the run
has two restarts. `RangeStopsLose` rests on the guards: no range that passes them is
narrower than four dollars (`GuardedWidth`), so rounding cannot bring a target to the
wrong side of the stop.

**Margin.** The bound of `ExposureBounded` is that of what is open. `PathInv` puts the
attempts a sender may still make beside it (`Committed`): a check that passes has found
room for its own order, so what is open is below the cap by at least the smallest
order, and what is pending is at most one call of every sender. The sum over senders is a fold, of which the lemma `SumExists` proves
an explicit form first.

**Macro data and directions.** `MacroInv`: every file and cache holds something published
or fetched in the past, and an index that is missing was asked for in vain. A
call asks for reports whatever the file has, so an overlay has the newest one or the download failed
in that call; yields are asked for after midnight, and the index is the one of the three that
a cache of a day may leave out although a source would have it now. `AnalysisInv`: the analysis kept was
made when `updatedAt` says, and one that is taken is younger than the refresh.

`CachesSeeThePast` is about a memory that is filled by one bar and read by another of the
same hour. `CacheInv` says that what is remembered of an hour is what *every* bar of that
hour would find. It rests on `SearchFinds`, the correctness of the binary search
(`bisect_right`): whatever the number of entries, the answer is the last one at or before the bar. The
search is a recursive function of one record, [`lo`, `hi`, `best`]; its value is given
by an explicit witness, and that no other function satisfies the recursion by induction
on `hi - lo`.

**Windows of a gate.** `TestedOnce` is about dates: `dateutil` cuts the 31st to the last day
of the month, so three months twice are not six months once. From a day up to the 28th they
are (`LaterMonth`, `SameDate`), and `WalkInv` follows: the result of number n is that of the
window n - 1 steps from the start. Without the hypothesis the property is false: from 30
November 2018 on, 28 February 2020 is tested twice, because the window before ends a year and
three months on, on the 29th, and the next begins a year after the clipped 28 February
2019. A gate begins on the first day of the lake, which `backfill_data.py` fills from
1 January 2020 by default. `GateInv`
adds the lines of the single-window scripts, which step through the windows before theirs in a loop
of their own.

**The lake.** `LakeInv` relates a job in progress to the files: what it has written is there
(`Written`), and in a month still to be written it has every bar of its source's file, unless its range
begins or ends in that month (`Covers`); the rest of a month is all that has happened. This
gives both action properties. `QueryIsComplete` is about order: an answer is sorted,
without repetition, and its length is the number of rows. The model says so
through ranks (`InOrder` puts at place i the timestamp that has i - 1 before it), and the proof
shows that ranks are a bijection (`Ranks`).

**The backtest.** A market is anything that detector and regime layer can report (`Views`:
any number of blocks, gaps, breaks and swings, at any prices), and `BackInv` has two halves. The setups
are of the kind that the aggregator of the script makes (`Setups`), which is where the four pipelines
are proved about: a chart gives zones on the side of the bias (`ZonesOnSide`), a zone
gives entries on its side with the stop beyond the zone (`EntriesTyped`), a judge that answers pass or
refuse changes neither (`JudgeTyped`), and sorting, cutting, turning round (`Flipped`) and adding sweeps keep that (`Made`).
`StopsLose` needs its hypothesis about the height of a zone: without it an entry up to a quarter
of the height outside the zone can lie beyond the stop. The books are balanced (`Balanced`)
between two bars, but `ActiveZonesAreOpenTrades` does not hold in the middle of
the walk over the open positions: what is still to be walked is active and in neither list.
`ExitedSoFar` counts it: after k positions the active trades of a zone are those kept
plus those not yet looked at. That also gives that a trade that is closed is active at
that moment, so that the count of its zone is lowered and not removed while another is open.
Prices are positive in the program, where a callback is made only for a zone above 0; the
model makes it for every zone.

**The report.** `ReportAgrees` compares numbers that are computed from different data: the
profit and the drawdown from the equity curve, the breakdowns of versions 8 to 10 from the
closed trades. `CurveInv` says of every bar what the last does not show: the curve ends with the
balance plus what is open, and the drawdown of the curve so far, computed anew by `max_drawdown`, is
what the engine kept on the way (`DrawMore`: one more value is one more step). A breakdown
takes a part of the trades and the rest; that the two sums are the whole, in whatever order
the parts lie, is `PartsAdd`. The hypothesis is needed: the engine starts its peak with the initial balance and the
curve with the value after the first bar, and the two agree because no trade opens on it (`NothingYet`),
since the first chunk ends later. With `Chunk = 1`, TLC finds a window of two bars whose curve
starts below the balance and hides part of the drawdown. That is the plain adapter, which only
`cmd_backtest` uses; the scripts of the gates take four bars.

**The detector.** `ChartInv`: the window is never empty, its bars are in order of time, and the snapshot is
what `Detect` makes of it; all else is about what one detection does. For a gap, the filling is a walk
over the bars, and `OfferedZonesAreIntact` needs that one bar *anywhere* on the way that goes
through the gap fills it (`BreachFills`) and that no later bar empties it again
(`BreachedIsFilled`); a block is simpler, it looks at all bars at once. `ScannedFrom` then follows a
zone back through scoring, sorting and removal of overlaps to the block or gap that it was made from.
For the swings, a single pass is not enough: dropping one can bring two others together. That the passes
of `FilterSignificantSwings` end with none too close is a count: a pass leaves all as they are, or has
at least one fewer (`OnePass`), so that as many passes as there are swings suffice (`AllPasses`).
The loop of the code stops at the first pass that changes nothing, which gives the same. For the
synthetic zones, `KeepSpreads` is the invariant of the greedy scan, and the four sources have
to be shown to give whole prices (`AnchorsTyped`): bands from a sum and a root, extremes of
sessions that may be empty, and a week that may be missing.

**Induction and folds.** The library's induction theorems cannot be used with an operator as a
parameter. Where a proof needs induction over numbers it uses a set instead: the lemma `NatInd` (a
set that has 0 and, with each natural n, n + 1 has them all) follows from the
well-foundedness of `<`. A fold of the community modules is a function chosen by its
recursion over sets of places; `FoldExists` shows that there is one, and `FoldPlaces` that it takes
the elements from the first to the last, so that a property of a fold is an induction over places.
The definitions that the proofs look into filter and sort by rank (`Only`, `Descending`),
because `SelectSeq` and `SortSeq` are built into the prover without a
definition: it knows nothing of what they return.

**Only model-checked.** `EventuallyBooked` and `ControlRecovers` are liveness under
fairness, and no proof speaks of `ENABLED`. Every other property of the passing runs is
stated by a theorem. The properties of the violation runs have none; without torn saves
`HaltSurvives` is a part of `ImplementsDailyLatch`, which is proved.

## 5. Where the code and its documentation disagree

### 5.1 With a run

Details in `PROJECT.json`, `findings`.

1. A cycle that fails early publishes the previous decision as new: `signal_stale`.
2. A regime's trail parameters disable the trailing they should tune:
   `trailing_regime`.
3. The backtest fills a signal at the open of the bar from whose close it was made,
   where `engine.py` promises "strict no-look-ahead semantics": `look_ahead`.
4. A halt is lost when its process dies inside `write_text` (`consec_loss_halt.py` 73), where
   the file promises "so the halt survives process restarts": `consec_torn`.
5. `daily_pnl` is never reset (`live_demo` 953), so a trip of the daily-loss wire does not end
   "for the rest of the day" and skips the reconcile for good: `reconcile_daily`.

### 5.2 Bounded by a property

- `live_state.json` is emptied and then filled (`live_demo` 721), and `watchdog_smart.ps1`
  263-265 counts a file it cannot parse as stale. A check that falls between the two stops a leg
  that works, as if it were "alive but frozen" (`watchdog_smart.ps1` 23). `WorkingControlSpared`
  excepts the steps in which a leg is `writing`, and these only: with `"writing"` added to its
  set, TLC finds the stop.
- A deal that closes between the start of a cycle and its fetch is booked in that
  cycle and again in the next, or after a restart (`CountedOnce` allows exactly this).
- The "hard cap" on positions can be passed by one, and two entries in one direction can
  be as close as a bar, because a gate reads the broker before the EA has acted
  (`CapHolds`, `NoPileUp`). An EA restart lets the same signal be executed again
  (`ExecutedOnce`).
- Both legs write one `range_cooldown_state.json` (`live_demo` 904; `range_trader.py`
  586-590 says that restarts do not reset the cooldown), and a quota file that could not
  be written is ignored (`LimitsSurviveRestarts` excepts exactly these restarts).
- `max_drawdown` starts with the first value of the curve, not with the initial balance. With
  the plain adapter of `cmd_backtest`, which may open a trade on the first bar, the
  drawdown reported can be smaller than the engine's own (`ReportAgrees` is checked and proved for chunks).
- The margin cap is checked before other processes have sent (`ExposureBounded`).
- `regime_cache.py:188` says "no look-ahead", but bars are asked for by their opening
  time: an entry after midnight knows that day's daily bar with its close.
  `CachesSeeThePast` bounds by how much. The direction file is clean.
- The A/B report says that the assessed regime only takes range bars away; a bar in
  CONSOLIDATION with a direction between the two floors is ranged only with it
  (`RouterNarrows`).
- Two processes of a leg run together after one has removed the other's PID file: an
  orderly exit removes it whoever wrote it (`OneInstance`).

### 5.3 Left out of the passing runs by a constant

- A failed `history_deals_get` looks like "no deals" (`mt5_positions_adapter.py` 91): `live_demo`
  1921 moves the cursor past the deals in between, and no halt sees them. With
  `FetchMayFail`, `NothingSkipped` fails. `reconcile_cursor.py` 16-17 has the cursor
  persisted "after each successful reconcile".
- Torn saves have a run of their own for the halt (5.1); the breaker saves in the same way.
- A handle whose `initialize()` succeeds while ticks stay away has its streak cleared for
  ever, and the give-up is never reached: with the kind `"stuck"`, `ControlRecovers` fails.
- `StopFollows` is stated for a table with room: the EA's 128 slots are never pruned, and
  after that a position is trailed from whatever stop it has.

### 5.4 Met while modelling: live side

- The breaker's documentation says "< -$20" where the
  code has `<=`; the cursor falls back to one hour where its documentation says twelve.
- The anti-stack gate never applies to trending setups, whose class has no attribute
  `direction`; `_execution_path` is assigned only in the RANGE branch (1501) and read in
  every cycle with setups (1780). The margin gate fails open on exceptions.
- The dashboard's pause file is the control leg's only; the treatment legs of both
  symbols share one magic (`config.py` 556), so each books the other's deals.
- The watchdog's grace of 10 minutes is shorter than the wait for the first bar, up to
  15 (`watchdog_smart.ps1:226`): a process that waits for its first bar is stopped for
  the old file of the previous one. A frozen macro leg is "restarted" by a call its
  running task ignores; once the restarts of a task are used up nothing starts it
  again.
- The AI call is given up after three minutes, but leaving the `with` block waits for its
  thread (`live_demo` 287): a cycle may take several bars, and publishes its action that
  late, a halt that began in between notwithstanding (`HaltTakesHold` bounds it by cycles,
  not by time).
- Two legs that migrate the old files at once: the second finds them gone and ends.
- The range cooldown is used up before `check_range_guards` has refused the setup.
  `_min_range_width_resolved` is unused, so a BTCUSD range has no bounds on its width;
  the breakout test uses the point size of gold.
- Server-side closes never reach `OrderManager.daily_pnl`; `close_all` books at the last
  price it saw; the partial close at TP1 is documented and cannot happen (the full close
  at the same level comes first). `LiveLoop` writes "open" to the journal and sends no
  order: `_mt5_execute` always answers False.
- `cot_fetcher.py` 22-24 refreshes the reports "weekly"; in fact every call downloads. The
  newest date of a Polars Date column is a `datetime.date`, the test of its age reads its
  `tzinfo` (281), and the exception says "refresh". `FetchCot` models what happens.
- `ExternalContextFetcher` "never raises", but Stooq's "rising" and "falling" are refused by
  the type of the field, so it does, and the volatility index is lost with it. An answer
  with the volatility index but no dollar index is cached as live for the whole
  lifetime, and the health probe calls the bias fresh. `_CACHE_TTL_HOURS` of the yields
  is unused (midnight decides); price changes of the TIP ETF are kept and read back as
  yields; stale files have no age limit.
- When the AI call fails the averages speak with 0.7, though the engine itself is capped
  at 0.5 without macro data (and no engine of this code is given any). A debate of
  which every call failed answers "neutral" as `ai_debate`, never the fallback. A new
  engine per call means its memory never hits. Both legs write one `ai_analysis.json`.

### 5.5 Met while modelling: strategy and offline side

- The sweeps of version 3 look at no distance, so their stop may be on the winning
  side (`aggregator_v3.py` 212-320); the file says that version 3 "inherits ALL v1
  behavior", but sweeps skip the direction filter of the regime (`aggregator.py` 296), legacy
  gate and macro bias, and ignore the multiplier of the stop. In version 2 inverted trades are marked and cooled under the
  direction of the entry, which is not that of the zone.
- Zone cooldowns have no effect: setups are made before the engine runs, on the wall clock
  (`aggregator.py:384`), and `live_demo` never reports a loss. In version 1 a zone is freed
  while another of its trades is open, and `_MAX_ENTRIES_PER_ZONE` is not enforced.
- `htf_bias.py` 222-223 and 285-311 disagree about charts that contradict each other; the
  slope's bias gets the loosest floor. `abs(risk)` hides a stop on the wrong side in
  three places; the second target may be nearer than the first; the aggregator never
  passes an instrument's configuration, so gold's applies.
- Of swings of equal strength the later is kept even if it is less extreme; `swept` looks
  at the last bar only; `current_trend` and `htf_bias` may read opposite directions from
  the same breaks. Synthetic session zones include the session still open ("fully-closed"
  says the comment), are cut to three, and round numbers are the lowest, not the
  nearest.
- The scripts of gates 2 and 3 stop at a missing `_SL_BUFFER_POINTS`. The report of
  version 10 looks for shorts, which version 1.1 has flipped into longs; that of version
  8 calls `fvg_sweep_continuation` inverted. Gate results number windows by result; the
  scans count a window twice that was run twice; the single windows of versions 3 and 4
  accept any number, and none checks training bars or the end of the data.
- Trades open at the end of a window are in the equity but not in win rate or profit
  factor. `ab_compare` counts a trade without `result` as won when its `rr_ratio` is
  positive; `ai_filter_analysis` uses the daily close of the same day.
- A backfill of part of a month replaces the month's file; manifests have no timeframe in
  their name, so four runs leave one; a crash leaves files without one; one torn file
  makes every query raise; the health check takes the alphabetically last manifest for
  the newest; the command line's lake is not the scripts'. The mock terminal's tick is
  the bar before the last.
- `mode_router` is compared under the thresholds 1.5 and 0.8, while live trading uses 1.4 and
  1.0. `_atr_fallback` raises with fewer than 15 daily bars. In a backtest a bar before
  the first entry of a file would ask the live model; `CostTracker` is never asked before
  a debate.

## 6. Not modelled, and why

| Part | Why |
|---|---|
| Lot sizing and exposure | stateless formulas of floating-point numbers; what could be wrong in them is rounding, which whole numbers do not show |
| Scoring of news and macro data, regime rules, indicators, prompts, the debate | what they answer is an input of the models; that they may fail, and who answers then, is modelled |
| Money of the order manager | its gain is a mark of the ticket; `daily_pnl` of that class has no reader in live trading |
| `HysteresisState` | only tests create one |
| `LiveLoop`, alerts, journal, health probe, digests, dashboards, reports, panel | they read and format; the one command, the pause button, is an action of `SignalPath` |
| `MT5BrokerPort` against a real terminal | the broker is modelled by what the code must expect of it |
| Statistics of the offline analyses | arithmetic on the results of runs; no property about order or state |
| Watchdogs for BTCUSD, the server and the dashboard | the same script with one process |

Worth doing next: `LimitsSurviveRestarts` for more than two legs in TLC, with the files of
two symbols; an abstract specification of the lake (a map from timestamps to bars) that the files
refine between runs, with the refinement proved; `ControlRecovers` with the other services of the
machine; and the drawdown limit over days in which the account is also used by other legs.
