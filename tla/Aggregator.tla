----------------------------- MODULE Aggregator ------------------------------
(* The aggregators: the multi-timeframe pipeline (v1), its variants 1.1 and  *)
(* 3, and the direction-led one (v2).  Each turns what the charts show at one*)
(* moment into a ranked list of setups, given the zones that are cooling     *)
(* down after a loss and those that hold an open trade.                      *)
(*                                                                           *)
(* A market is what the detector and the regime layer say at that moment:    *)
(*   d1, h4, slope       inputs of the higher-timeframe bias                 *)
(*   h1, m15             the charts (an absent one is in "missing")          *)
(*   synthetic           zones computed from price alone                     *)
(*   atr                 of the hourly chart                                 *)
(*   regime              [label, conf, debate, d1Atr, lowVol, nearAth]       *)
(*   volatility          the ATR regime of the daily (v2: four-hour) chart   *)
(*   direction           [dir, conf] of the direction engine (v2)            *)
(*   legacy              no regime cache and no AI: the ATR regime gates     *)
EXTENDS ZoneEntry, Functions

CONSTANTS
  SyntheticZones,  \* zones from price alone are used where history has none
  CooldownBars,    \* how long a zone rests after a loss, version 1
  CooldownBarsV2,  \* the same, version 2
  MacroBias        \* added to the score of a long setup, taken from a short one

ASSUME AggregatorAssumption ==
  /\ SyntheticZones \in BOOLEAN
  /\ CooldownBars \in Nat /\ CooldownBarsV2 \in Nat /\ MacroBias \in Int

Labels == {"TREND_UP", "TREND_DOWN", "CONSOLIDATION", "TRANSITION", "ATH_BREAKOUT"}
BiasDirs == {"bullish", "bearish", "neutral"}
SyntheticTypes == {"synthetic_vwap", "synthetic_session", "synthetic_round", "synthetic_prev_week"}

\* What a market can be.
Charts ==
  [breaks : Seq([kind : {"bos", "choch"}, dir : {"bullish", "bearish"}, price : Int, ts : Int]),
   obs : Seq([type : {"bullish", "bearish"}, hi : Int, lo : Int, mitigated : BOOLEAN]),
   fvgs : Seq([type : {"bullish", "bearish"}, hi : Int, lo : Int, filled : 0 .. 100]),
   swings : Seq([type : {"high", "low"}, price : Int, ts : Int]),
   levels : SUBSET [price : Int, swept : BOOLEAN]]
Views ==
  [d1 : Charts, h4 : Charts, h1 : Charts, m15 : Charts, slope : SUBSET Int,
   missing : SUBSET {"h1", "m15"}, legacy : BOOLEAN, atr : Nat,
   synthetic : Seq([hi : Int, lo : Int, type : SyntheticTypes, dir : {"long", "short"}, conf : Int]),
   regime : [label : Labels, conf : Int, debate : BOOLEAN, d1Atr : Int, lowVol : BOOLEAN,
             nearAth : BOOLEAN],
   volatility : {"ranging", "transitional", "trending"},
   direction : [dir : BiasDirs, conf : Int]]

AllTriggers == {"choch_in_zone", "fvg_fill_in_zone", "ob_test_rejection",
                "bos_in_zone", "fvg_sweep_continuation"}

\* The parameters of a regime.
Route(label) ==
  LET base == [mult |-> 75, rr |-> 25, floor |-> 450, dirs |-> {"long", "short"},
               triggers |-> AllTriggers, max |-> 3]
  IN  CASE label = "TREND_UP" -> [base EXCEPT !.rr = 30, !.dirs = {"long"}]
        [] label = "TREND_DOWN" -> [base EXCEPT !.rr = 30, !.dirs = {"short"}]
        [] label = "CONSOLIDATION" -> [base EXCEPT !.mult = 60, !.rr = 20]
        [] label = "TRANSITION" ->
             [base EXCEPT !.floor = 550,
                !.triggers = AllTriggers \ {"choch_in_zone", "ob_test_rejection"}]
        [] label = "ATH_BREAKOUT" ->
             [base EXCEPT !.mult = 90, !.rr = 35, !.dirs = {"long"}]

-----------------------------------------------------------------------------
\* Scores.
Unit(x) == Clamp(x, 0, 1000)
Round(x, d) == (x + d \div 2) \div d
ZoneQuality(zone) == (TypeScore(zone.type) + zone.conf) \div 2
GradeScore(g) == CASE g = "A" -> 1000 [] g = "B" -> 700 [] g = "C" -> 400
RrScore(rr) == IF rr >= 30 THEN 1000 ELSE IF rr >= 20 THEN 700
               ELSE IF rr >= 15 THEN 400 ELSE 200

TriggerScore(e) ==
  LET t == CASE e.trigger = "choch_in_zone" -> 900
             [] e.trigger = "fvg_fill_in_zone" -> 700
             [] e.trigger = "bos_in_zone" -> 550
             [] e.trigger = "ob_test_rejection" -> 500
             [] e.trigger = "fvg_sweep_continuation" -> 600
  IN  (6 * t + 4 * GradeScore(e.grade)) \div 10

LiquidityScore(bias, e) ==
  LET n == Cardinality(bias.levels)
      levels == IF n >= 6 THEN 400 ELSE IF n >= 3 THEN 250 ELSE IF n >= 1 THEN 100 ELSE 0
      far == e.tp1 # e.price /\ 10 * Abs(e.tp2 - e.price) >= 13 * Abs(e.tp1 - e.price)
  IN  Unit(levels + (IF e.tp2 # e.tp1 /\ far THEN 600 ELSE 0))

ScoreConfluence(bias, zone, e, macro) ==
  LET raw == Round(25 * (IF bias.dir = "neutral" THEN 0 ELSE bias.conf)
                   + 25 * ZoneQuality(zone) + 25 * TriggerScore(e)
                   + 15 * RrScore(e.rr) + 10 * LiquidityScore(bias, e), 100)
      lean == CASE bias.dir = "bullish" -> macro [] bias.dir = "bearish" -> -macro
                [] OTHER -> 0
  IN  Unit(raw + lean)

AiScore(conf, inverted) ==
  IF ~inverted THEN Unit(conf)
  ELSE IF conf < 200 THEN 200 ELSE IF conf > 700 THEN 300
  ELSE IF 300 <= conf /\ conf <= 500 THEN 800 + 2 * (500 - Abs(conf - 400))
  ELSE 500

TriggerScoreV2(e) ==
  LET t == CASE e.trigger = "choch_in_zone" -> 900
             [] e.trigger = "choch_continuation" -> 750
             [] e.trigger = "fvg_fill_in_zone" -> 700
             [] e.trigger = "ob_breakout" -> 650
             [] e.trigger = "fvg_sweep_continuation" -> 600
             [] e.trigger = "bos_in_zone" -> 550
  IN  (6 * t + 4 * GradeScore(e.grade)) \div 10

ModeBonus(e) == CASE e.trigger = "ob_breakout" -> 769
                  [] e.trigger = "choch_continuation" -> 909
                  [] OTHER -> 500

ScoreConfluenceV2(aiConf, zone, e) ==
  Unit(Round(30 * AiScore(aiConf, e.inverted) + 20 * ZoneQuality(zone)
             + 25 * TriggerScoreV2(e) + 10 * RrScore(e.rr) + 15 * ModeBonus(e), 100))

EffectiveThreshold(tier) == IF tier \in {2, 3} THEN 550 ELSE 450

\* The judge of a stop: its verdict is logged beside the setup and vetoes nothing.
JudgeSlFitness(e, regime, conf) ==
  LET risk == Abs(e.price - e.sl)
      against == CASE regime.label = "TREND_DOWN" -> "long"
                   [] regime.label = "TREND_UP" -> "short"
                   [] OTHER -> "none"
  IN  IF e.dir = against /\ regime.conf >= 600
      THEN "direction_regime_coherence"
      ELSE IF regime.d1Atr > 0 /\ 2 * risk < regime.d1Atr THEN "sl_floor_noise_band"
      ELSE IF regime.d1Atr > 0 /\ 2 * risk > 5 * regime.d1Atr
      THEN "sl_ceiling_signal_to_noise"
      ELSE IF regime.lowVol /\ e.rr >= 25 THEN "tp_reachability_low_vol"
      ELSE IF e.dir = "short" /\ regime.label = "ATH_BREAKOUT" /\ regime.nearAth
      THEN "ath_proximity_short_guard"
      ELSE IF regime.debate /\ regime.conf < 500 /\ conf < 600
      THEN "confluence_x_confidence_floor"
      ELSE IF regime.label = "TRANSITION" /\ conf < 600 THEN "transition_quality_guard"
      ELSE "accept"

-----------------------------------------------------------------------------
\* Zones after a loss, and zones that hold a trade.
Cooling(cool, key, now) == key \in DOMAIN cool /\ now < cool[key]
RecordZoneLoss(cool, key, at, bars) ==
  [k \in DOMAIN cool \cup {key} |-> IF k = key THEN at + bars ELSE cool[k]]
MarkZoneActive(active, key) ==
  [k \in DOMAIN active \cup {key} |->
     IF k # key THEN active[k] ELSE IF k \in DOMAIN active THEN active[k] + 1 ELSE 1]
ClearZoneActiveAll(active, key) == Restrict(active, DOMAIN active \ {key})
ClearZoneActive(active, key) ==
  IF key \in DOMAIN active /\ active[key] > 1
  THEN [active EXCEPT ![key] = @ - 1]
  ELSE Restrict(active, DOMAIN active \ {key})

\* Version 1 keeps a set of zones where version 2 counts trades.
MarkZoneActiveV1(active, key) == [k \in DOMAIN active \cup {key} |-> 1]
ClearZoneActiveV1(active, key) == Restrict(active, DOMAIN active \ {key})

ActiveCount(active, key) == IF key \in DOMAIN active THEN active[key] ELSE 0

-----------------------------------------------------------------------------
\* The pipelines.
Setup(entry, zone, conf, bias, verdict) ==
  [entry |-> entry, zone |-> zone, conf |-> conf, bias |-> bias, verdict |-> verdict]

ByConfluence(setups) == Descending(setups, LAMBDA s : s.conf)

Bias(market) == ComputeHtfBias(market.d1, market.h4, market.slope)

\* Zones of the hourly chart, and those from price when there are fewer than two.
ZonesV1(market, bias) ==
  LET found == ScanZones(market.h1, bias.dir)
  IN  IF SyntheticZones /\ Len(found) < 2
      THEN found \o Only(market.synthetic,
                         {i \in DOMAIN market.synthetic : market.synthetic[i].dir = Side(bias.dir)})
      ELSE found

StageReject(market, bias, zones) ==
  IF bias.dir = "neutral" THEN "htf_bias_neutral"
  ELSE IF market.legacy /\ market.volatility = "ranging" /\ bias.tier # 1
  THEN "legacy_ranging_gate"
  ELSE IF Side(bias.dir) \notin Route(market.regime.label).dirs THEN "direction_filter"
  ELSE IF "h1" \in market.missing THEN "h1_snapshot_missing"
  ELSE IF zones = <<>> THEN "no_h1_zones"
  ELSE IF "m15" \in market.missing THEN "m15_snapshot_missing"
  ELSE "none"

\* One zone of version 1: skipped when it rests, trades or was used by this call.
TryZone(market, bias, preset, price, now, cool, active, setups, zone) ==
  LET used    == {KeyOf(s.zone) : s \in Range(setups)}
      floor   == Most(EffectiveThreshold(bias.tier), preset.floor)
      entries == {e \in CheckEntry(market.m15, zone, price, market.atr,
                                   "ob_test_rejection" \in preset.triggers,
                                   preset.mult, preset.rr) :
                    e.trigger \in preset.triggers}
      scored(e) == LET c == ScoreConfluence(bias, zone, e, MacroBias)
                   IN  Setup(e, zone, c, bias.dir, JudgeSlFitness(e, market.regime, c))
  IN  IF Cooling(cool, KeyOf(zone), now) \/ KeyOf(zone) \in DOMAIN active \cup used
      THEN setups
      ELSE setups \o SetToSeq({s \in {scored(e) : e \in entries} : s.conf >= floor})

GenerateSetups(market, bias, zones, preset, price, now, cool, active) ==
  LET try(acc, z) == TryZone(market, bias, preset, price, now, cool, active, acc, z)
  IN  IF StageReject(market, bias, zones) # "none" THEN <<>>
      ELSE FirstOf(ByConfluence(FoldLeft(try, <<>>, zones)), preset.max)

\* Version 1.1: outside a trend, a short on a filled gap is traded the other way.
FlipSetupKeepStop(s) ==
  [s EXCEPT !.zone.dir = "long", !.entry.dir = "long",
            !.entry.tp1 = 2 * s.entry.price - @, !.entry.tp2 = 2 * s.entry.price - @]
FlipSetup(s) ==
  LET e == s.entry
  IN  [s EXCEPT !.zone.dir = "long",
                !.entry = [e EXCEPT !.dir = "long",
                             !.sl = e.price - Abs(e.sl - e.price),
                             !.tp1 = e.price + Abs(e.price - e.tp1),
                             !.tp2 = e.price + Abs(e.price - e.tp2)]]

GenerateSetupsV11(market, v1) ==
  LET flips(s) == /\ market.volatility # "trending"
                  /\ s.entry.trigger = "fvg_fill_in_zone" /\ s.entry.dir = "short"
  IN  [i \in DOMAIN v1 |-> IF flips(v1[i]) THEN FlipSetup(v1[i]) ELSE v1[i]]

\* Version 3 adds sweeps of filled gaps to what version 1 found.
SweepEntry(market, preset, zone, price) ==
  Entry(market.m15, zone.dir, price, ComputeSl(zone, market.atr, 75), preset.rr, 40,
        "fvg_sweep_continuation",
        GradeEntry("fvg_sweep_continuation", zone, preset.rr), FALSE)

CheckFvgSweeps(market, bias, preset, price, now, cool, active, v1) ==
  LET floor  == Most(EffectiveThreshold(bias.tier), preset.floor)
      free(z) == /\ KeyOf(z) \notin {KeyOf(s.zone) : s \in Range(v1)} \cup DOMAIN active
                 /\ ~Cooling(cool, KeyOf(z), now)
                 /\ FvgSweep(market.m15, z, price)
      scored(z) == {Setup(e, z, ScoreConfluence(bias, z, e, 0), bias.dir, "") :
                      e \in SweepEntry(market, preset, z, price)}
      sweeps(z) == SetToSeq({s \in scored(z) : s.conf >= floor})
      zones == ScanZones(market.h1, bias.dir)
  IN  IF bias.dir = "neutral" \/ market.missing # {} THEN <<>>
      ELSE FlattenSeq([i \in DOMAIN zones |-> IF free(zones[i]) THEN sweeps(zones[i]) ELSE <<>>])

GenerateSetupsV3(preset, v1, sweeps) ==
  IF sweeps = <<>> THEN v1 ELSE FirstOf(ByConfluence(v1 \o sweeps), preset.max)

\* Version 2: the direction engine leads; without a direction only inverted entries.
ProcessZones(market, price, now, cool, active, zones, allowNormal) ==
  LET open(z) == ~Cooling(cool, KeyOf(z), now) /\ ActiveCount(active, KeyOf(z)) < 2
      entries(z) == {e \in CheckEntryV2(market.m15, z, price, market.atr, market.volatility) :
                       allowNormal \/ e.inverted}
      scored(z) == {Setup(e, z, ScoreConfluenceV2(market.direction.conf, z, e),
                          market.direction.dir, "") : e \in entries(z)}
      good(z) == SetToSeq({s \in scored(z) : s.conf >= 400})
  IN  FlattenSeq([i \in DOMAIN zones |-> IF open(zones[i]) THEN good(zones[i]) ELSE <<>>])

GenerateSetupsV2(market, price, now, cool, active) ==
  LET dir == market.direction.dir
      scan(d, normal) == ProcessZones(market, price, now, cool, active,
                                      ScanZonesV2(market.h1, d), normal)
  IN  IF market.direction.conf < 200 \/ market.missing # {} THEN <<>>
      ELSE FirstOf(ByConfluence(IF dir = "neutral"
                                THEN scan("bullish", FALSE) \o scan("bearish", FALSE)
                                ELSE scan(dir, TRUE)), 5)

\* Which of the pipelines.  Versions 1.1 and 3 start from what version 1 found.
GenerateFrom(version, market, bias, preset, v1, price, now, cool, active) ==
  CASE version = "v1"  -> v1
    [] version = "v11" -> GenerateSetupsV11(market, v1)
    [] version = "v2"  -> GenerateSetupsV2(market, price, now, cool, active)
    [] version = "v3"  ->
         GenerateSetupsV3(preset, v1,
           CheckFvgSweeps(market, bias, preset, price, now, cool, active, v1))

GenerateWith(version, market, bias, preset, price, now, cool, active) ==
  GenerateFrom(version, market, bias, preset,
               GenerateSetups(market, bias, ZonesV1(market, bias), preset, price, now, cool, active),
               price, now, cool, active)

Generate(version, market, price, now, cool, active) ==
  GenerateWith(version, market, Bias(market), Route(market.regime.label), price, now, cool, active)
=============================================================================
