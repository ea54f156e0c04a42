----------------------------- MODULE RangeTrading ----------------------------
(* Trading a range, by two legs of one symbol that run as two processes: the *)
(* range is detected and checked, a setup is built at one of its borders,    *)
(* and the cycle decides among trend, range and plain pipeline.  A leg keeps *)
(* the time of its last setup in each direction and the day of its Asian     *)
(* range; both outlive a restart in a file, and the legs write one cooldown  *)
(* file but a quota file each.                                               *)
EXTENDS ModeRouter, ZoneEntry

CONSTANTS
  Symbol,         \* the instrument
  Legs,
  LegSettings,    \* leg -> its switches
  Scenes,         \* what a cycle may find in the market
  HourAt,         \* tick of a day -> hour
  Cooldown,       \* ticks between two setups of a direction
  SmaBars, SmaLag,\* the trend filter's average and how far back it is compared
  MaxNow, MaxRestarts,
  MaxFailures     \* writes of a file that fail

ASSUME RangeAssumption ==
  /\ Symbol \in {"XAUUSD", "BTCUSD"}
  /\ Cooldown \in Nat \ {0} /\ {MaxNow, MaxRestarts, MaxFailures} \subseteq Nat
  /\ SmaBars \in Nat \ {0} /\ SmaLag \in Nat \ {0} /\ HourAt \in Seq(0..23)

\* Prices are whole, an average of ranges is not negative, and charts are of either side.
ASSUME SceneAssumption ==
  \A scene \in Scenes :
    /\ scene.price \in Int /\ scene.atr \in Nat
    /\ scene.bars \in Seq([high : Int, low : Int])
    /\ scene.h1.swings \in Seq([type : {"high", "low"}, price : Int, age : Nat])
    /\ scene.h1.obs \in Seq([type : {"bullish", "bearish"}, hi : Int, lo : Int,
                             mitigated : BOOLEAN, age : Nat])

VARIABLES
  time,          \* the tick, a bar of fifteen minutes
  lastSetupTs,   \* leg -> direction -> {} or {the tick of its last setup}
  cooldownFile,  \* the same of the leg that wrote it last
  quota,         \* leg -> {} or {the day of its Asian range}
  quotaFile,
  ran,           \* the legs that have had their cycle of this bar
  built,         \* the setups built by the cycle that has just ended
  history,       \* leg -> what an observer knows of its limits
  restarts, failures
rangeVars == <<time, lastSetupTs, cooldownFile, quota, quotaFile, ran, built, history, restarts,
               failures>>

Config == GetInstrumentConfig(Symbol)
Sides == {"long", "short"}
Day(t) == t \div Len(HourAt)
Hour(t) == HourAt[(t % Len(HourAt)) + 1]
Session(t) == GetSessionInfo(Config, Hour(t))

-----------------------------------------------------------------------------
\* Detection: order blocks, else swings, else the channel of the last bars.
ValidateBounds(cfg, upper, lower, source, conf, bars) ==
  LET width == upper - lower
  IN  IF width <= 0 \/ (\E w \in cfg.minWidth : width < w) \/ (\E w \in cfg.maxWidth : width > w)
      THEN {}
      ELSE {[upper |-> upper, lower |-> lower, mid |-> (upper + lower) \div 2,
             source |-> source, conf |-> conf, bars |-> bars]}

DetectFromObBoundaries(cfg, h1) ==
  LET open(type) == {o \in Range(h1.obs) : o.type = type /\ ~o.mitigated}
      both == open("bearish") \cup open("bullish")
  IN  IF open("bearish") = {} \/ open("bullish") = {} THEN {}
      ELSE ValidateBounds(cfg, Max({o.hi : o \in open("bearish")}),
                          Min({o.lo : o \in open("bullish")}),
                          "ob_boundaries", 800, Max({o.age : o \in both}))

DetectFromSwingExtremes(cfg, h1) ==
  LET recent == Range(LastOf(h1.swings, 50))
      of(type) == {w.price : w \in {x \in recent : x.type = type}}
  IN  IF Len(h1.swings) < 2 \/ of("high") = {} \/ of("low") = {} THEN {}
      ELSE ValidateBounds(cfg, Max(of("high")), Min(of("low")), "swing_extremes", 600,
                          Max({w.age : w \in recent}))

DetectFromDonchianChannel(cfg, bars) ==
  LET recent == Range(LastOf(bars, Lookback48))
  IN  IF Len(bars) < Lookback48 THEN {}
      ELSE ValidateBounds(cfg, Max({x.high : x \in recent}), Min({x.low : x \in recent}),
                          "donchian_channel", 500, Lookback48)

DetectRange(settings, scene) ==
  LET blocks == DetectFromObBoundaries(Config, scene.h1)
      swings == DetectFromSwingExtremes(Config, scene.h1)
      found == CASE blocks # {} -> blocks
                 [] blocks = {} /\ swings # {} -> swings
                 [] OTHER -> DetectFromDonchianChannel(Config, scene.bars)
  IN  IF settings.requireValid /\ Trusted(scene.assess) \cap TrendRegimes # {} THEN {} ELSE found

-----------------------------------------------------------------------------
\* Guards.
CheckBoundsOnlyGuards(b, session, bars) ==
  LET profile == Profile(Config, session)
  IN  /\ b.upper - b.lower >= Config.guardWidth[profile]
      /\ CountBoundaryTouches(bars, b) >= 2
      /\ b.bars >= Config.guardBars[profile]

Opposed(bias, side) ==
  bias.conf >= 700 /\ bias.dir = (IF side = "long" THEN "bearish" ELSE "bullish")

CheckRangeGuards(b, setup, session, bars, bias) ==
  /\ CheckBoundsOnlyGuards(b, session, bars)
  /\ 10 * setup.reward >= Config.guardRr * setup.risk
  /\ ~Opposed(bias, setup.dir)

\* A quarter of the ATR beyond a border the range is broken.
CheckBreakoutFar(price, b, atr) ==
  IF price - b.upper > atr THEN "bullish_breakout"
  ELSE IF b.lower - price > atr THEN "bearish_breakout" ELSE "none"

CheckBreakout(price, b, atr) ==
  IF 4 * (price - b.upper) > atr THEN "bullish_breakout"
  ELSE IF 4 * (b.lower - price) > atr THEN "bearish_breakout" ELSE "none"

-----------------------------------------------------------------------------
\* A setup at a border.
SoftReversal3Bar(m15, side) ==
  LET wanted == IF side = "short" THEN "bearish" ELSE "bullish"
      swing == IF side = "short" THEN "high" ELSE "low"
  IN  \/ m15.breaks # <<>> /\ Last(m15.breaks).dir = wanted
      \/ \E w \in Range(LastOf(m15.swings, 3)) : w.type = swing /\ w.age <= 2

LastBarReversalConfirm(bars, side) ==
  LET last == bars[Len(bars)]
      prior == bars[Len(bars) - 1]
  IN  \/ Len(bars) < 2
      \/ side = "long" /\ last.close > last.open /\ last.close > prior.close
      \/ side = "short" /\ last.close < last.open /\ last.close < prior.close

\* The slope of the average in thousandths of a percent per bar, and the last
\* close against it in hundredths of a percent.
TrendMetrics(closes) ==
  LET total(s) == FoldLeft(LAMBDA a, b : a + b, 0, s)
      now == total(LastOf(closes, SmaBars))
      ago == total(SubSeq(closes, Len(closes) - SmaBars - SmaLag + 1, Len(closes) - SmaLag))
  IN  IF Len(closes) < SmaBars + SmaLag \/ now <= 0 THEN {}
      ELSE {[slope |-> ((now - ago) * 100000) \div (now * SmaLag),
             gap |-> ((Last(closes) * SmaBars - now) * 10000) \div now]}

TrendFilterShouldBlock(closes, side) ==
  \E t \in TrendMetrics(closes) :
    IF side = "long" THEN t.slope <= -50 /\ t.gap <= -100 ELSE t.slope >= 50 /\ t.gap >= 100

Band(b) == 30 * (b.upper - b.lower)     \* in hundredths of a dollar; every session is wide

BorderZone(b, side) ==
  IF side = "long"
  THEN [hi |-> b.lower + Band(b) \div 100, lo |-> b.lower, dir |-> "long", type |-> "ob"]
  ELSE [hi |-> b.upper, lo |-> b.upper - Band(b) \div 100, dir |-> "short", type |-> "ob"]

GradeRange(b, risk, reward) ==
  LET rr == (10 * reward) \div risk
  IN  Grade((IF b.source = "ob_boundaries" THEN 500 ELSE 300)
            + (IF rr >= 20 THEN 400 ELSE IF rr >= 15 THEN 300 ELSE 100))

\* The setup before its reward is asked for; none when the price is at its stop.
Priced(b, side, price, atr) ==
  LET sl == IF side = "long" THEN b.lower - SlBuffer(atr, 75) ELSE b.upper + SlBuffer(atr, 75)
      inset == (b.upper - b.lower) \div 10
      ext == IF side = "long" THEN b.upper - inset ELSE b.lower + inset
  IN  IF sl = price THEN {}
      ELSE {[dir |-> side, entry |-> price, sl |-> sl, tp |-> b.mid, ext |-> ext,
             risk |-> Abs(price - sl), reward |-> Abs(ext - price), conf |-> b.conf,
             grade |-> GradeRange(b, Abs(price - sl), Abs(ext - price))]}

MinRr(settings, assess) ==
  IF settings.regimeGate /\ "TRANSITION" \in Trusted(assess) THEN 20 ELSE 12

Cooled(last, now) == \A ts \in last : now - ts >= Cooldown

BuildSetup(settings, last, now, b, side, scene) ==
  {s \in Priced(b, side, scene.price, scene.atr) :
     /\ Cooled(last, now)
     /\ ~(settings.trendFilter /\ TrendFilterShouldBlock(scene.d1, side))
     /\ ChochInZone(scene.m15, BorderZone(b, side)) \/ SoftReversal3Bar(scene.m15, side)
     /\ settings.reversal => LastBarReversalConfirm(scene.m15bars, side)
     /\ 10 * s.reward >= MinRr(settings, scene.assess) * s.risk}

\* Near a border, unless the assessed regime forbids that side.
NearBorder(settings, b, side, scene) ==
  LET against == IF side = "long" THEN {"TREND_DOWN"} ELSE {"TREND_UP", "ATH_BREAKOUT"}
  IN  /\ IF side = "long" THEN 100 * (scene.price - b.lower) <= Band(b)
         ELSE 100 * (b.upper - scene.price) <= Band(b)
      /\ ~(settings.regimeGate /\ Trusted(scene.assess) \cap against # {})

GenerateRangeSetups(settings, last, now, b, scene) ==
  UNION {BuildSetup(settings, last[side], now, b, side, scene) :
           side \in {x \in Sides : NearBorder(settings, b, x, scene)}}

-----------------------------------------------------------------------------
\* The cycle's answer: an action, its setup, and the setups built on the way.
Answer(action, best, setups) == [action |-> action, best |-> best, built |-> setups]
Hold == Answer("HOLD", {}, {})

BestSetup(setups) == CHOOSE s \in Range(setups) : \A t \in Range(setups) : t.score <= s.score
Buy(side) == IF side = "long" THEN "BUY" ELSE "SELL"

DetermineTrending(scene, conf) ==
  LET wanted == IF scene.dir = "bullish" THEN "long" ELSE "short"
      best == BestSetup(scene.setups)
  IN  IF conf < 500 \/ scene.dir = "neutral" \/ scene.setups = <<>> THEN Hold
      ELSE IF best.dir = wanted THEN Answer(Buy(best.dir), {best}, {})
      ELSE IF scene.conf < 650 THEN Answer("override", {best}, {}) ELSE Hold

DetermineV1Passthrough(scene) ==
  IF scene.setups = <<>> THEN Hold
  ELSE Answer(Buy(BestSetup(scene.setups).dir), {BestSetup(scene.setups)}, {})

DetermineRanging(settings, last, now, b, scene) ==
  LET made == GenerateRangeSetups(settings, last, now, b, scene)
      kept == {s \in made : CheckRangeGuards(b, s, Session(now).name, scene.bars, scene.htf)}
      \* Both have the range's confidence: max() keeps the first, which is the long.
      best == IF \E s \in kept : s.dir = "long" THEN {s \in kept : s.dir = "long"} ELSE kept
  IN  IF CheckBreakout(scene.price, b, scene.atr) # "none" THEN Hold
      ELSE IF kept = {} THEN Answer("HOLD", {}, made) ELSE Answer("RANGE", best, made)

Asian(now) == Session(now).name \in Config.asian

DetermineAction(leg, now, scene, tripped) ==
  LET settings == LegSettings[leg]
      bounds == DetectRange(settings, scene)
      conf == scene.conf - Session(now).penalty
      q == [cfg |-> Config, dir |-> scene.dir, conf |-> conf, regime |-> ClassifyRegime(Config, scene.daily),
            session |-> Session(now).name, bounds |-> bounds, price |-> scene.price,
            guards |-> \E b \in bounds : CheckBoundsOnlyGuards(b, Session(now).name, scene.bars),
            assess |-> IF settings.router THEN scene.assess ELSE {}]
      mode == RouteTradingMode(q)
  IN  CASE mode = "trending" -> DetermineTrending(scene, conf)
        [] mode = "v1_passthrough" -> DetermineV1Passthrough(scene)
        [] mode = "ranging" ->
             IF Asian(now) /\ (tripped \/ Day(now) \in quota[leg]) THEN Hold
             ELSE DetermineRanging(settings, lastSetupTs[leg], now,
                                   CHOOSE b \in bounds : TRUE, scene)

-----------------------------------------------------------------------------
\* What an observer notes of a leg: its last two setups of a direction and its last
\* two Asian ranges, the restarts that lost either, and whether its files say what
\* it remembers.
Fresh == [setups |-> [side \in Sides |-> <<>>], ranges |-> <<>>,
          lostSetups |-> {}, lostRange |-> {}, wrote |-> TRUE, recorded |-> TRUE]

RangeInit ==
  /\ time = 0 /\ restarts = 0 /\ failures = 0
  /\ lastSetupTs = [leg \in Legs |-> [side \in Sides |-> {}]]
  /\ cooldownFile = [side \in Sides |-> {}]
  /\ quota = [leg \in Legs |-> {}] /\ quotaFile = [leg \in Legs |-> {}]
  /\ ran = {} /\ built = {}
  /\ history = [leg \in Legs |-> Fresh]

Stamp(last, made, now) ==
  [side \in Sides |-> IF side \in {s.dir : s \in made} THEN {now} ELSE last[side]]

\* The quota is recorded when a range is traded in an Asian session; the file is
\* written in place, and a write that fails leaves it as it was or empty.
RecordOpen(leg, used, content) ==
  /\ quota' = [quota EXCEPT ![leg] = IF used THEN {Day(time)} ELSE @]
  /\ quotaFile' = [quotaFile EXCEPT ![leg] = IF used THEN content ELSE @]

\* One cycle of a leg.  The gates before the order may block what was decided, and
\* then the setup's cooldown stays while the quota is not touched.
CycleWhole(leg, answer, blocked, saved, content) ==
  LET used == answer.action = "RANGE" /\ ~blocked /\ Asian(time)
      stamped == Stamp(lastSetupTs[leg], answer.built, time)
      writes == answer.built # {} /\ saved
      noted(side) == IF side \in {s.dir : s \in answer.built} THEN <<time>> ELSE <<>>
      wrong == (IF saved THEN 0 ELSE 1) + (IF content = {Day(time)} THEN 0 ELSE 1)
  IN  /\ failures + wrong <= MaxFailures /\ failures' = failures + wrong
      /\ answer.action # "RANGE" => ~blocked
      /\ answer.built = {} => saved
      /\ ~used => content = {Day(time)}
      /\ ran' = ran \cup {leg} /\ built' = answer.built
      /\ lastSetupTs' = [lastSetupTs EXCEPT ![leg] = stamped]
      /\ cooldownFile' = IF writes THEN stamped ELSE cooldownFile
      /\ RecordOpen(leg, used, content)
      /\ history' = [other \in Legs |->
           IF other # leg
           THEN [history[other] EXCEPT !.wrote = @ /\ ~writes]
           ELSE [history[leg] EXCEPT
                   !.setups = [side \in Sides |-> LastOf(@[side] \o noted(side), 2)],
                   !.ranges = IF used THEN LastOf(Append(@, time), 2) ELSE @,
                   !.wrote = IF answer.built # {} THEN saved ELSE @,
                   !.recorded = IF used THEN content = {Day(time)} ELSE @]]
      /\ UNCHANGED <<time, restarts>>

Cycle(leg) ==
  /\ leg \notin ran
  /\ \E scene \in Scenes, tripped \in IF Asian(time) THEN BOOLEAN ELSE {FALSE} :
       \E answer \in {DetermineAction(leg, time, scene, tripped)} :
         \E blocked, saved \in BOOLEAN, content \in {{Day(time)}, quotaFile[leg], {}} :
           CycleWhole(leg, answer, blocked, saved, content)

RestartLegForgets(leg) ==
  /\ restarts < MaxRestarts /\ restarts' = restarts + 1
  /\ lastSetupTs' = [lastSetupTs EXCEPT ![leg] = cooldownFile]
  /\ quota' = [quota EXCEPT ![leg] = {}]
  /\ history' = [history EXCEPT
       ![leg].lostSetups = IF history[leg].wrote THEN @ ELSE @ \cup {time},
       ![leg].lostRange = IF history[leg].recorded THEN @ ELSE @ \cup {time},
       ![leg].wrote = TRUE, ![leg].recorded = TRUE]
  /\ UNCHANGED <<time, cooldownFile, quotaFile, ran, failures>> /\ built' = {}

\* A leg's process is started again and reads its files.
RestartLeg(leg) ==
  /\ restarts < MaxRestarts /\ restarts' = restarts + 1
  /\ lastSetupTs' = [lastSetupTs EXCEPT ![leg] = cooldownFile]
  /\ quota' = [quota EXCEPT ![leg] = quotaFile[leg]]
  /\ history' = [history EXCEPT
       ![leg].lostSetups = IF history[leg].wrote THEN @ ELSE @ \cup {time},
       ![leg].lostRange = IF history[leg].recorded THEN @ ELSE @ \cup {time},
       ![leg].wrote = TRUE, ![leg].recorded = TRUE]
  /\ UNCHANGED <<time, cooldownFile, quotaFile, ran, failures>> /\ built' = {}

NextBar ==
  /\ time < MaxNow /\ time' = time + 1
  /\ ran' = {} /\ built' = {}
  /\ UNCHANGED <<lastSetupTs, cooldownFile, quota, quotaFile, history, restarts, failures>>

RangeNext == NextBar \/ \E leg \in Legs : Cycle(leg) \/ RestartLeg(leg)

-----------------------------------------------------------------------------
\* Two setups of a leg in one direction are a cooldown apart, and a leg trades one
\* Asian range a day, across restarts: except when between the two the leg was
\* restarted on a cooldown file the other leg had written since (the legs share
\* range_cooldown_state.json), or on one its own last save had failed to write, and
\* for the range, on a quota file that had not been written.
LimitsSurviveRestarts ==
  \A leg \in Legs :
    LET h == history[leg]
        Excused(pair, losses) == \E t \in losses : pair[1] <= t /\ t <= pair[2]
    IN  /\ \A side \in Sides :
             Len(h.setups[side]) = 2 =>
               \/ h.setups[side][2] - h.setups[side][1] >= Cooldown
               \/ Excused(h.setups[side], h.lostSetups)
        /\ Len(h.ranges) = 2 =>
             \/ Day(h.ranges[1]) # Day(h.ranges[2])
             \/ Excused(h.ranges, h.lostRange)

\* The stop of a range setup is on the side where the trade loses and its two targets
\* on the other, in order, although both distances are absolute values and the price
\* may already be beyond the border: the stop's distance exceeds that of a breakout.
RangeStopOnLossSide ==
  \A s \in built :
    IF s.dir = "long" THEN s.sl < s.entry /\ s.entry < s.tp /\ s.tp <= s.ext
    ELSE s.ext <= s.tp /\ s.tp < s.entry /\ s.entry < s.sl
=============================================================================
