------------------------------ MODULE Detection ------------------------------
(* The detector: what a chart of the last bars shows.  The library finds     *)
(* swings, breaks, blocks and gaps, a row of findings per bar; this code     *)
(* thins them out, keeps track of what later bars did to them, and clusters  *)
(* the swings into liquidity levels.  Every cycle detects anew, on a window  *)
(* that slides and whose last bar is still forming.                          *)
EXTENDS ZoneEntry, Functions

CONSTANTS
  Shapes,        \* [high, low, close] of a bar
  Rows,          \* [swing, break, block, gap]: what the library finds, each a set
                 \* of at most one element
  Lookback,      \* bars of the window
  MaxBars,       \* bars that ever arrive
  MinDistance,   \* of two significant swings of one type
  Tolerance,     \* of equal highs and lows
  DayBars, WeekBars, Sessions,   \* calendar: bars of a day, a week, of each session
  VwapPeriod, RoundStep, RoundWindow, HalfWidth, Apart   \* of synthetic zones

ASSUME DetectionAssumption ==
  /\ {Lookback, MaxBars, DayBars, WeekBars, VwapPeriod, RoundStep} \subseteq Nat \ {0}
  /\ {MinDistance, Tolerance, RoundWindow, HalfWidth, Apart} \subseteq Nat
  /\ Sessions \in Seq(SUBSET (0 .. DayBars - 1))
  /\ Shapes \subseteq [high : Int, low : Int, close : Int]
  /\ \A r \in Rows : \A x \in r.block \cup r.gap :
       x.hi \in Int /\ x.lo \in Int /\ x.mitigated \in BOOLEAN

VARIABLES chart,    \* the window: [ts, high, low, close, row]
          snap      \* the snapshot made of it
detectionVars == <<chart, snap>>

-----------------------------------------------------------------------------
\* What the library found in the rows of a window, oldest first.
Found(w, field) == Only(w, {i \in DOMAIN w : w[i].row[field] # {}})
TheOne(S) == CHOOSE x \in S : TRUE

\* Swings.
DetectSwings(w) ==
  LET at == Found(w, "swing")
  IN  [i \in DOMAIN at |-> LET x == TheOne(at[i].row.swing)
                           IN  [ts |-> at[i].ts, type |-> x.type, price |-> x.price]]

TooClose(a, b) == a.type = b.type /\ Abs(a.price - b.price) < MinDistance

\* All swings of a chart have the same strength, so the later of two is kept.
Thinned(s) ==
  LET from[i \in 1 .. Len(s) + 1] ==
        IF i > Len(s) THEN <<>>
        ELSE IF i < Len(s) /\ TooClose(s[i], s[i + 1]) THEN <<s[i + 1]>> \o from[i + 2]
        ELSE <<s[i]>> \o from[i + 1]
  IN  from[1]

FilterSignificantSwingsOnce(s) == Thinned(s)
FilterSignificantSwings(s) ==
  LET pass[n \in 0 .. Len(s)] == IF n = 0 THEN s ELSE Thinned(pass[n - 1])
  IN  pass[Len(s)]

-----------------------------------------------------------------------------
\* Order blocks.
DetectOrderBlocks(w) ==
  LET none(x) == x.hi = 0 /\ x.lo = 0
      at == Only(w, {i \in DOMAIN w : w[i].row.block # {} /\ ~none(TheOne(w[i].row.block))})
  IN  [i \in DOMAIN at |-> LET x == TheOne(at[i].row.block)
                           IN  [ts |-> at[i].ts, type |-> x.type, hi |-> x.hi, lo |-> x.lo,
                                mitigated |-> x.mitigated]]

Breaches(bar, x) == IF x.type = "bullish" THEN bar.low < x.lo ELSE bar.high > x.hi
After(w, ts) == {i \in DOMAIN w : w[i].ts > ts}

UpdateMitigationByLast(obs, w) ==
  [k \in DOMAIN obs |-> [obs[k] EXCEPT !.mitigated = @ \/ Breaches(Last(w), obs[k])]]
UpdateMitigation(obs, w) ==
  [k \in DOMAIN obs |->
     [obs[k] EXCEPT !.mitigated = @ \/ \E i \in After(w, obs[k].ts) : Breaches(w[i], obs[k])]]

-----------------------------------------------------------------------------
\* Fair value gaps; how far a gap is filled, in hundredths.
DetectFvgs(w) ==
  LET at == Found(w, "gap")
  IN  [i \in DOMAIN at |-> LET x == TheOne(at[i].row.gap)
                           IN  [ts |-> at[i].ts, type |-> x.type, hi |-> x.hi, lo |-> x.lo,
                                filled |-> IF x.mitigated THEN 100 ELSE 0]]

FillPct(g, bar) ==
  LET size  == g.hi - g.lo
      depth == IF g.type = "bullish" THEN g.hi - Most(bar.low, g.lo)
               ELSE Least(bar.high, g.hi) - g.lo
      clear == IF g.type = "bullish" THEN bar.low >= g.hi ELSE bar.high <= g.lo
  IN  IF size <= 0 THEN 100 ELSE IF clear THEN g.filled
      ELSE Least(100, Most(g.filled, (100 * depth) \div size))

UpdateFillStatus(gaps, w) ==
  [k \in DOMAIN gaps |->
     FoldLeft(LAMBDA g, bar : IF g.filled = 100 \/ bar.ts <= g.ts THEN g
                              ELSE [g EXCEPT !.filled = FillPct(g, bar)],
              gaps[k], w)]

-----------------------------------------------------------------------------
\* Breaks of structure: dated by the bar that broke, where the library names one.
DetectStructure(w) ==
  LET at == Found(w, "break")
      dated(b) == LET x == TheOne(b.row.break)
                  IN  [kind |-> x.kind, dir |-> x.dir, price |-> x.price,
                       ts |-> IF \E i \in DOMAIN w : w[i].ts = x.broken THEN x.broken ELSE b.ts]
  IN  Reverse(Descending(Reverse([i \in DOMAIN at |-> dated(at[i])]), LAMBDA b : b.ts))

CurrentTrend(breaks) ==
  LET bos == SelectSeq(breaks, LAMBDA b : b.kind = "bos")
      two == {b.dir : b \in Range(LastOf(bos, 2))}
  IN  IF breaks = <<>> THEN "ranging"
      ELSE IF Last(breaks).kind = "choch" THEN Last(breaks).dir
      ELSE IF Cardinality(two) = 1 THEN Last(bos).dir
      ELSE "ranging"

-----------------------------------------------------------------------------
\* Liquidity: clusters of equal highs and of equal lows, greedily by price.
Clusters(swings) ==
  FoldLeft(LAMBDA groups, s :
             LET own == Last(groups)
             IN  IF groups # <<>> /\ s.price - own[1].price <= Tolerance
                 THEN Append(Front(groups), Append(own, s))
                 ELSE Append(groups, <<s>>),
           <<>>, Reverse(Descending(Reverse(swings), LAMBDA s : s.price)))

\* The level of a cluster is its mean price, sum / touches.
LevelsOf(swings, type) ==
  LET groups == SelectSeq(Clusters(SelectSeq(swings, LAMBDA s : s.type = type)),
                          LAMBDA c : Len(c) >= 2)
  IN  {[type |-> type, touches |-> Len(c), swept |-> FALSE,
        sum |-> FoldLeft(LAMBDA acc, s : acc + s.price, 0, c)] : c \in Range(groups)}

DetectLiquidityLevels(swings) == LevelsOf(swings, "high") \cup LevelsOf(swings, "low")

DetectLiquiditySweep(levels, bar) ==
  {[l EXCEPT !.swept = @ \/ IF l.type = "high" THEN bar.high * l.touches > l.sum
                            ELSE bar.low * l.touches < l.sum] : l \in levels}

-----------------------------------------------------------------------------
\* Zones from price alone, where the history has none: around the volume-weighted
\* average, today's sessions, round numbers and the extremes of last week.
HighOf(bars) == Max({b.high : b \in bars})
LowOf(bars) == Min({b.low : b \in bars})
Anchor(price, type) == [price |-> price, type |-> type]
MakeZone(anchor, price) ==
  [hi |-> anchor.price + HalfWidth, lo |-> anchor.price - HalfWidth, type |-> anchor.type,
   dir |-> IF anchor.price < price THEN "long" ELSE "short", conf |-> 400]

VwapBands(w, price) ==
  LET bars == LastOf(w, VwapPeriod)
      typical == [i \in DOMAIN bars |-> (bars[i].high + bars[i].low + bars[i].close) \div 3]
      mean == FoldLeft(LAMBDA acc, x : acc + x, 0, typical) \div VwapPeriod
      squares == FoldLeft(LAMBDA acc, x : acc + (x - mean) * (x - mean), 0, typical)
      std == Max({d \in 0 .. squares : d * d * VwapPeriod <= squares})
      bands == <<Anchor(mean + std, "synthetic_vwap"), Anchor(mean - std, "synthetic_vwap")>>
  IN  IF Len(w) < VwapPeriod THEN <<>> ELSE Only(bands, {i \in 1 .. 2 : bands[i].price # price})

\* The high and the low of each session of the day; three of them at most.
SessionHighsLows(w) ==
  LET today == {b \in Range(w) : b.ts \div DayBars = Last(w).ts \div DayBars}
      bars(s) == {b \in today : b.ts % DayBars \in s}
      both(s) == IF bars(s) = {} THEN <<>>
                 ELSE <<Anchor(HighOf(bars(s)), "synthetic_session"),
                        Anchor(LowOf(bars(s)), "synthetic_session")>>
  IN  FirstOf(FlattenSeq([i \in DOMAIN Sessions |-> both(Sessions[i])]), 3)

\* From the lowest up, three at most.
RoundNumbers(price) ==
  LET near == [k \in 1 .. 2 * RoundWindow + 1 |-> price - RoundWindow - 1 + k]
      grid == Only(near, {k \in DOMAIN near : near[k] % RoundStep = 0 /\ near[k] # price})
  IN  FirstOf([i \in DOMAIN grid |-> Anchor(grid[i], "synthetic_round")], 3)

PrevWeekHighLow(w) ==
  LET bars == {b \in Range(w) : b.ts \div WeekBars = Last(w).ts \div WeekBars - 1}
  IN  IF bars = {} THEN <<>>
      ELSE <<Anchor(HighOf(bars), "synthetic_prev_week"), Anchor(LowOf(bars), "synthetic_prev_week")>>

DedupeByLast(zones) ==
  FoldLeft(LAMBDA kept, z : IF kept # <<>> /\ Abs(Middle(z) - Middle(Last(kept))) <= Apart THEN kept
                            ELSE Append(kept, z), <<>>, zones)
DedupeByProximity(zones) ==
  FoldLeft(LAMBDA kept, z : IF \E k \in Range(kept) : Abs(Middle(z) - Middle(k)) <= Apart THEN kept
                            ELSE Append(kept, z), <<>>, zones)

Anchors(w, price) ==
  VwapBands(w, price) \o SessionHighsLows(w) \o RoundNumbers(price) \o PrevWeekHighLow(w)

\* Only in the top twentieth of the range, here that of the window.
BuildSyntheticZones(w) ==
  LET price == Last(w).close
      top == HighOf(Range(w))
      bottom == LowOf(Range(w))
      all == Anchors(w, price)
  IN  IF top = bottom \/ 100 * (price - bottom) < 95 * (top - bottom) THEN <<>>
      ELSE DedupeByProximity([i \in DOMAIN all |-> MakeZone(all[i], price)])

-----------------------------------------------------------------------------
\* The whole detection.
Detect(w) ==
  LET swings == FilterSignificantSwings(DetectSwings(w))
      breaks == DetectStructure(w)
  IN  [swings |-> swings,
       obs    |-> UpdateMitigation(DetectOrderBlocks(w), w),
       fvgs   |-> UpdateFillStatus(DetectFvgs(w), w),
       breaks |-> breaks, trend |-> CurrentTrend(breaks),
       levels |-> DetectLiquiditySweep(DetectLiquidityLevels(swings), Last(w))]

DetectionInit ==
  \E s \in Shapes, r \in Rows :
    /\ chart = <<[ts |-> 1, high |-> s.high, low |-> s.low, close |-> s.close, row |-> r]>>
    /\ snap = Detect(chart)

\* The bar that was forming is done and the next one starts.
NewBar ==
  /\ Last(chart).ts < MaxBars
  /\ \E s \in Shapes, r \in Rows :
       LET bar == [ts |-> Last(chart).ts + 1, high |-> s.high, low |-> s.low,
                   close |-> s.close, row |-> r]
       IN  chart' = LastOf(Append(chart, bar), Lookback)
  /\ snap' = Detect(chart')

\* The bar that is forming gets wider.
BarMoves ==
  /\ \E s \in Shapes :
       LET bar  == Last(chart)
           wide == [bar EXCEPT !.high = Most(@, s.high), !.low = Least(@, s.low),
                               !.close = s.close]
       IN  wide # bar /\ chart' = Append(Front(chart), wide)
  /\ snap' = Detect(chart')

DetectionNext == NewBar \/ BarMoves

-----------------------------------------------------------------------------
\* Properties.

\* filter_significant_swings, which drops pairs in passes until nothing changes:
\* what it leaves has no two neighbours of one type that are too close, nothing in
\* it is out of order, and the newest swing survives every pass.
SwingsAreSignificant ==
  LET raw == DetectSwings(chart)
  IN  /\ \A i \in 1 .. Len(snap.swings) - 1 : ~TooClose(snap.swings[i], snap.swings[i + 1])
      /\ Range(snap.swings) \subseteq Range(raw)
      /\ \A i, j \in DOMAIN snap.swings : i < j => snap.swings[i].ts < snap.swings[j].ts
      /\ raw # <<>> => Last(snap.swings) = Last(raw)

\* Detection and zone scan together: a zone that the scanner offers for trading has
\* not been broken by any bar since the block or the gap that made it, not even by
\* the bar that is forming.
OfferedZonesAreIntact ==
  \A dir \in {"bullish", "bearish"} :
    \A z \in Range(ScanZones(snap, dir)) :
      \E x \in Range(snap.obs) \cup Range(snap.fvgs) :
        /\ x.type = dir /\ x.hi = z.hi /\ x.lo = z.lo
        /\ ~\E i \in After(chart, x.ts) : Breaches(chart[i], x)

\* build_synthetic_zones: four sources give anchors that may coincide; what is left
\* is pairwise apart and covers every anchor: none is dropped unless a kept one is
\* next to it.
SyntheticZonesAreApart ==
  LET zones == BuildSyntheticZones(chart)
  IN  /\ \A i, j \in DOMAIN zones : i # j => Abs(Middle(zones[i]) - Middle(zones[j])) > Apart
      /\ zones # <<>> => \A x \in Range(Anchors(chart, Last(chart).close)) :
           \E z \in Range(zones) : Abs(Middle(z) - x.price) <= Apart

=============================================================================
