------------------------------- MODULE HtfBias -------------------------------
(* The direction of the higher timeframes: the structure breaks and order    *)
(* blocks of the daily and the four-hour chart, and the slope of the daily   *)
(* moving average, become one direction with a confidence and a tier.        *)
(* Confidences are in thousandths, slopes in thousandths of a percent per    *)
(* bar; a slope that cannot be computed is the empty set.                     *)
EXTENDS Integers, Sequences, FiniteSets, SequencesExt

Least(a, b) == IF a < b THEN a ELSE b
Most(a, b) == IF a > b THEN a ELSE b
Clamp(x, lo, hi) == Least(hi, Most(lo, x))
Abs(x) == IF x < 0 THEN -x ELSE x
LastOf(s, n) == SubSeq(s, Most(1, Len(s) - n + 1), Len(s))
CountIf(s, Test(_)) == Cardinality({i \in DOMAIN s : Test(s[i])})

Recent(chart) == LastOf(chart.breaks, 5)
Latest(chart) == Last(chart.breaks)

DirectionFromBreaks(chart) ==
  LET bulls == CountIf(Recent(chart), LAMBDA b : b.dir = "bullish")
      bears == CountIf(Recent(chart), LAMBDA b : b.dir = "bearish")
  IN  IF chart.breaks = <<>> THEN "neutral"
      ELSE IF Latest(chart).kind = "choch" THEN Latest(chart).dir
      ELSE IF bulls > bears THEN "bullish"
      ELSE IF bears > bulls THEN "bearish" ELSE "neutral"

BreakConfidence(chart) ==
  IF chart.breaks = <<>> THEN 0
  ELSE Least(1000, 200 * CountIf(Recent(chart), LAMBDA b : b.dir = Latest(chart).dir))

ObProximityBonus(chart, dir) ==
  Least(200, 50 * CountIf(chart.obs, LAMBDA o : o.type = dir /\ ~o.mitigated))

KeyLevels(d1, h4) ==
  UNION { {b.price : b \in Range(LastOf(c.breaks, 3))}
          \cup UNION {{o.hi, o.lo} : o \in {x \in Range(c.obs) : ~x.mitigated}}
          \cup {l.price : l \in {x \in c.levels : ~x.swept}} : c \in {d1, h4} }

Strong(slope) == {s \in slope : Abs(s) >= 50}

SlopeBias(slope, levels) ==
  LET s == CHOOSE x \in slope : TRUE
  IN  [dir |-> IF s > 0 THEN "bullish" ELSE "bearish",
       conf |-> Clamp(300 + Least(150, 3 * (Abs(s) - 50)), 300, 450),
       levels |-> levels, tier |-> 4]

Undecided(slope, levels) ==
  IF Strong(slope) # {} THEN SlopeBias(slope, levels)
  ELSE [dir |-> "neutral", conf |-> 0, levels |-> levels, tier |-> 0]

ComputeHtfBias(d1, h4, slope) ==
  LET d1Dir  == DirectionFromBreaks(d1)
      h4Dir  == DirectionFromBreaks(h4)
      levels == KeyLevels(d1, h4)
      tier1  == (5 * BreakConfidence(d1) + 3 * BreakConfidence(h4)) \div 10
                + ObProximityBonus(d1, d1Dir) + ObProximityBonus(h4, d1Dir)
      tier2  == (6 * BreakConfidence(h4)) \div 10 + ObProximityBonus(h4, h4Dir)
      tier3  == (BreakConfidence(d1) + ObProximityBonus(d1, d1Dir)) \div 2
  IN  IF d1Dir = "neutral" /\ h4Dir = "neutral" THEN Undecided(slope, levels)
      ELSE IF "neutral" \notin {d1Dir, h4Dir} /\ d1Dir # h4Dir
           THEN Undecided(slope, levels)
      ELSE IF d1Dir = h4Dir
           THEN [dir |-> d1Dir, conf |-> Clamp(tier1, 700, 1000),
                 levels |-> levels, tier |-> 1]
      ELSE IF h4Dir # "neutral"
           THEN [dir |-> h4Dir, conf |-> Clamp(tier2, 400, 700),
                 levels |-> levels, tier |-> 2]
      ELSE [dir |-> d1Dir, conf |-> Clamp(tier3, 300, 500),
            levels |-> levels, tier |-> 3]
=============================================================================
