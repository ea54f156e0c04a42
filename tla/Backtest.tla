------------------------------- MODULE Backtest ------------------------------
(* A backtest of one walk-forward window.  The adapter first walks the bars  *)
(* of the window and asks the aggregator for setups at the end of every      *)
(* chunk; the engine then walks the same bars, fills and closes trades, and  *)
(* calls back into the aggregator that made the setups.                      *)
EXTENDS Aggregator

CONSTANTS
  Bars,            \* the shapes of a bar: [open, high, low, close]
  Markets,         \* what detector and regime layer can say at the end of a chunk
  Runs,            \* the scripts that are run: a subset of AllRuns
  N,               \* the bars of the window
  Chunk,           \* bars per call of the aggregator (1 for the plain adapter)
  InitialBalance, Spread, Slippage, Commission, MaxConcurrent,
  WallClock        \* datetime.now while the backtest runs, in bars

-----------------------------------------------------------------------------
\* What a script connects: the aggregator, with a regime cache or with the legacy
\* gate, and the callbacks of the engine into it.
Wiring(agg, legacy, calls) == [agg |-> agg, legacy |-> legacy, calls |-> calls]
AllCalls == {"sl", "open", "close"}

GateV1 == Wiring("v1", TRUE, {})
GateV2 == Wiring("v1", TRUE, {})
GateV3 == Wiring("v1", TRUE, {})
GateV4 == Wiring("v1", TRUE, AllCalls)
CmdBacktest == Wiring("v1", TRUE, {})
RunV3 == Wiring("v1", TRUE, {})
RunV4 == Wiring("v1", TRUE, AllCalls)
RunV5 == Wiring("v1", TRUE, AllCalls)
RunV6 == Wiring("v1", TRUE, {"sl"})
RunV7 == Wiring("v1", FALSE, {"sl"})
RunV8V1 == Wiring("v1", FALSE, {"sl"})
RunV8V2 == Wiring("v2", FALSE, AllCalls)
RunV9V1 == Wiring("v1", FALSE, {"sl"})
RunV9V3 == Wiring("v3", FALSE, {"sl"})
RunV10V1 == Wiring("v1", FALSE, {"sl"})
RunV10V11 == Wiring("v11", FALSE, {"sl"})

AllRuns == {GateV1, GateV2, GateV3, GateV4, CmdBacktest, RunV3, RunV4, RunV5, RunV6, RunV7,
            RunV8V1, RunV8V2, RunV9V1, RunV9V3, RunV10V1, RunV10V11}

ASSUME BacktestAssumption ==
  /\ N \in Nat \ {0} /\ Chunk \in Nat \ {0}
  /\ {InitialBalance, Spread, Slippage, Commission, MaxConcurrent, WallClock} \subseteq Nat
  /\ Runs \subseteq AllRuns
  /\ Bars \subseteq [open : Int, high : Int, low : Int, close : Int] /\ Markets \subseteq Views

VARIABLES
  wiring, bars, phase, next,
  setupsByBar,     \* bar -> setups the aggregator made at its end
  open, closed,    \* positions and trades
  balance, equity, \* equity: one value per bar
  peak, worst,     \* peak equity; the largest drawdown as [down, peak]
  cool, active     \* of the aggregator

dataVars == <<wiring, bars>>
bookVars == <<open, closed, balance, equity, peak, worst>>
zoneVars == <<cool, active>>
backtestVars == <<dataVars, phase, next, setupsByBar, bookVars, zoneVars>>

BacktestInit ==
  /\ wiring \in Runs /\ bars \in [1 .. N -> Bars]
  /\ phase = "generate" /\ next = 1 /\ setupsByBar = [i \in 1 .. N |-> <<>>]
  /\ open = <<>> /\ closed = <<>> /\ equity = <<>>
  /\ balance = InitialBalance /\ peak = InitialBalance
  /\ worst = [down |-> 0, peak |-> InitialBalance]
  /\ cool = <<>> /\ active = <<>>

-----------------------------------------------------------------------------
\* The adapter.
ChunkEnds == {i \in 1 .. N : i % Chunk = 0}
             \cup (IF N % Chunk > 0 /\ N > Chunk THEN {N} ELSE {})

GenerateAt ==
  /\ phase = "generate" /\ next <= N /\ next \in ChunkEnds
  /\ \E market \in Markets :
       setupsByBar' = [setupsByBar EXCEPT ![next] =
         Generate(wiring.agg, [market EXCEPT !.legacy = wiring.legacy],
                  bars[next].close, WallClock, cool, active)]
  /\ next' = next + 1
  /\ UNCHANGED <<dataVars, phase, bookVars, zoneVars>>

SkipBar ==
  /\ phase = "generate" /\ next <= N /\ next \notin ChunkEnds /\ next' = next + 1
  /\ UNCHANGED <<dataVars, phase, setupsByBar, bookVars, zoneVars>>

StartEngine ==
  /\ phase = "generate" /\ next > N
  /\ phase' = "run" /\ next' = 1
  /\ UNCHANGED <<dataVars, setupsByBar, bookVars, zoneVars>>

-----------------------------------------------------------------------------
\* Fills and exits.
SimulateFill(dir, bar) ==
  LET fill == IF dir = "long" THEN bar.open + Spread + Slippage ELSE bar.open - Slippage
      outside == IF dir = "long" THEN fill > bar.high ELSE fill < bar.low
  IN  IF outside THEN {} ELSE {fill}

Touches(pos, bar, level, isStop) ==
  IF (pos.dir = "long") = isStop THEN bar.low <= level ELSE bar.high >= level

CheckExit(pos, bar) ==
  IF Touches(pos, bar, pos.sl, TRUE) THEN {[price |-> pos.sl, reason |-> "sl"]}
  ELSE IF Touches(pos, bar, pos.tp2, FALSE) THEN {[price |-> pos.tp2, reason |-> "tp2"]}
  ELSE IF Touches(pos, bar, pos.tp1, FALSE) THEN {[price |-> pos.tp1, reason |-> "tp1"]}
  ELSE {}

Pnl(pos, price) == IF pos.dir = "long" THEN price - pos.fill ELSE pos.fill - price

\* The callbacks into the aggregator, where the script has connected them.
Mark(key, acts) ==
  IF "open" \notin wiring.calls THEN acts
  ELSE IF wiring.agg = "v2" THEN MarkZoneActive(acts, key) ELSE MarkZoneActiveV1(acts, key)
Clear(key, acts) ==
  IF "close" \notin wiring.calls THEN acts
  ELSE IF wiring.agg = "v2" THEN ClearZoneActive(acts, key) ELSE ClearZoneActiveV1(acts, key)

Book == [open |-> open, closed |-> closed, balance |-> balance,
         cool |-> cool, active |-> active]

ClosePositionCharged(b, pos, i, exit) ==
  [b EXCEPT !.balance = @ + Pnl(pos, exit.price) - Commission,
            !.closed = Append(@, [pos |-> pos, at |-> i, price |-> exit.price,
                                  reason |-> exit.reason])]
ClosePosition(b, pos, i, exit) ==
  LET key  == <<pos.hi, pos.lo, pos.dir>>
      rest == IF wiring.agg = "v2" THEN CooldownBarsV2 ELSE CooldownBars
  IN  [b EXCEPT
        !.balance = @ + Pnl(pos, exit.price),
        !.closed = Append(@, [pos |-> pos, at |-> i, price |-> exit.price,
                              reason |-> exit.reason]),
        !.active = Clear(key, @),
        !.cool = IF exit.reason = "sl" /\ "sl" \in wiring.calls
                 THEN RecordZoneLoss(@, key, i, rest) ELSE @]

ExitOrKeep(b, pos, i) ==
  IF CheckExit(pos, bars[i]) = {} THEN [b EXCEPT !.open = Append(@, pos)]
  ELSE ClosePosition(b, pos, i, CHOOSE x \in CheckExit(pos, bars[i]) : TRUE)
Exits(b, i) ==
  FoldLeft(LAMBDA acc, pos : ExitOrKeep(acc, pos, i), [b EXCEPT !.open = <<>>], b.open)

OpenPosition(b, setup, i, fill) ==
  LET e == setup.entry
      pos == [dir |-> e.dir, fill |-> fill, sl |-> e.sl, tp1 |-> e.tp1, tp2 |-> e.tp2,
              hi |-> setup.zone.hi, lo |-> setup.zone.lo, at |-> i, signal |-> e.price,
              trigger |-> e.trigger]
  IN  [b EXCEPT
        !.balance = @ - Commission,
        !.open = Append(@, pos),
        !.active = Mark(<<pos.hi, pos.lo, pos.dir>>, @)]

EnterOrPass(b, s, i) ==
  LET fill == SimulateFill(s.entry.dir, bars[i])
  IN  IF Len(b.open) >= MaxConcurrent \/ fill = {} THEN b
      ELSE OpenPosition(b, s, i, CHOOSE f \in fill : TRUE)
Entries(b, i) == FoldLeft(LAMBDA acc, s : EnterOrPass(acc, s, i), b, setupsByBar[i])

\* Exits before entries: a position is not closed on the bar that filled it.
Walked(b, i) == Entries(Exits(b, i), i)

SumOver(s, Value(_)) == FoldLeft(LAMBDA acc, x : acc + Value(x), 0, s)

\* A drawdown is a ratio: compared by cross multiplication.
Deeper(a, b) == a.down * b.peak > b.down * a.peak

Bar ==
  /\ phase = "run" /\ next <= N
  /\ LET after  == Walked(Book, next)
         value  == after.balance
                   + SumOver(after.open, LAMBDA p : Pnl(p, bars[next].close))
         top    == Most(peak, value)
         down   == [down |-> top - value, peak |-> top]
     IN  /\ open' = after.open /\ closed' = after.closed /\ balance' = after.balance
         /\ cool' = after.cool /\ active' = after.active
         /\ equity' = Append(equity, value) /\ peak' = top
         /\ worst' = IF Deeper(down, worst) THEN down ELSE worst
  /\ next' = next + 1
  /\ UNCHANGED <<dataVars, phase, setupsByBar>>

Finish ==
  /\ phase = "run" /\ next > N /\ phase' = "done"
  /\ UNCHANGED <<dataVars, next, setupsByBar, bookVars, zoneVars>>

BacktestNext ==
  \/ GenerateAt \/ SkipBar \/ StartEngine \/ Bar \/ Finish
  \/ phase = "done" /\ UNCHANGED backtestVars

-----------------------------------------------------------------------------
\* The report of the engine.
MaxDrawdownFromStart(curve) ==
  LET down(v) == [down |-> curve[1] - v, peak |-> curve[1]]
  IN  FoldLeft(LAMBDA acc, v : IF Deeper(down(v), acc) THEN down(v) ELSE acc,
               [down |-> 0, peak |-> curve[1]], curve)
MaxDrawdown(curve) ==
  FoldLeft(LAMBDA acc, v :
             LET top == Most(acc.top, v)
                 d   == [down |-> top - v, peak |-> top]
             IN  [top |-> top, worst |-> IF Deeper(d, acc.worst) THEN d ELSE acc.worst],
           [top |-> curve[1], worst |-> [down |-> 0, peak |-> curve[1]]], curve).worst

WinRate(trades) == <<CountIf(trades, LAMBDA t : Pnl(t.pos, t.price) > 0), Len(trades)>>

\* The line a single-window script writes about its trades: every one the profit
\* from the first bar to the last, versions 8 to 10 each on a breakdown of its own.
Reported(curve) == IF curve = <<>> THEN 0 ELSE curve[Len(curve)] - curve[1]
Wins(trades) == WinRate(trades)[1]
Of(Test(_)) == Only(closed, {i \in DOMAIN closed : Test(closed[i])})
Share(trades) == [count |-> Len(trades), wins |-> Wins(trades),
                  pnl |-> SumOver(trades, LAMBDA t : Pnl(t.pos, t.price))]

InvertedTriggers == {"ob_breakout", "choch_continuation", "fvg_sweep_continuation"}
FormatV8 == LET inverted(t) == t.pos.trigger \in InvertedTriggers
            IN  [inverted |-> Share(Of(inverted)), normal |-> Share(Of(LAMBDA t : ~inverted(t)))]
FormatV9 == LET sweep(t) == t.pos.trigger = "fvg_sweep_continuation"
            IN  [sweep |-> Share(Of(sweep)), normal |-> Share(Of(LAMBDA t : ~sweep(t)))]
\* Version 1.1 flips shorts into longs; its report looks for the shorts.
FormatV10 == LET flipped(t) == t.pos.trigger = "fvg_fill_in_zone" /\ t.pos.dir = "short"
             IN  [flipped |-> Share(Of(flipped)), rest |-> Share(Of(LAMBDA t : ~flipped(t)))]

-----------------------------------------------------------------------------
\* Properties.
AllSetups == UNION {Range(setupsByBar[i]) : i \in 1 .. N}
Trades == Range(closed)

\* BarBacktestEngine.run: the balance is what was there at first, plus what the
\* closed trades made, minus one commission per trade ever opened; and the
\* positions never exceed the limit, whatever a single bar closes and opens.
BooksBalance ==
  /\ balance = InitialBalance + SumOver(closed, LAMBDA t : Pnl(t.pos, t.price))
               - Commission * (Len(open) + Len(closed))
  /\ Len(open) <= MaxConcurrent

\* BarBacktestEngine.run with AggregatorV2: after any sequence of trades that
\* open and close in the same zone the aggregator counts exactly the open ones.
ActiveZonesAreOpenTrades ==
  wiring.agg = "v2" =>
    \A key \in DOMAIN active \cup {<<p.hi, p.lo, p.dir>> : p \in Range(open)} :
      ActiveCount(active, key) = CountIf(open, LAMBDA p : <<p.hi, p.lo, p.dir>> = key)

\* The report of a window agrees with what happened in it, although profit and
\* drawdown are taken from the curve, which starts with the first bar, and not from
\* the initial balance: the profit is that of the closed trades, less commissions,
\* plus what the trades left open are worth; and the drawdown is the engine's.  It
\* takes chunks of more than one bar (the scripts have four): if a trade can open on
\* the first bar the curve does not start with the initial balance.
ReportAgrees ==
  phase = "done" =>
    LET d == MaxDrawdown(equity)
        splits == {<<FormatV8.inverted, FormatV8.normal>>, <<FormatV9.sweep, FormatV9.normal>>,
                   <<FormatV10.flipped, FormatV10.rest>>}
    IN  /\ d.down * worst.peak = worst.down * d.peak
        /\ \A s \in splits : Reported(equity) =
             s[1].pnl + s[2].pnl - Commission * (Len(closed) + Len(open))
             + SumOver(open, LAMBDA p : Pnl(p, bars[N].close))

\* CheckEntry and its variants: an entry is looked for up to a quarter of the zone's
\* height outside the zone, and version 1.1 turns some round afterwards: where that
\* quarter is less than the least buffer of a stop, every stop is on the losing side
\* of its price.  (Not so the sweeps of version 3, which look at no distance.)
StopOnLossSide ==
  \A s \in AllSetups :
    /\ wiring.agg # "v2" /\ s.entry.trigger # "fvg_sweep_continuation"
    /\ s.zone.hi - s.zone.lo < 4 * MinBuffer
    => IF s.entry.dir = "long" THEN s.entry.sl < s.entry.price
       ELSE s.entry.sl > s.entry.price

\* engine.py says that a signal at a bar uses only data available at that bar's
\* open: the price it was made at is an earlier close, or that open.
NoLookAhead ==
  \A p \in Range(open) \cup {t.pos : t \in Trades} :
    p.signal \in {bars[i].close : i \in 1 .. p.at - 1} \cup {bars[p.at].open}
=============================================================================
