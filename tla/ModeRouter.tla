------------------------------ MODULE ModeRouter -----------------------------
(* Which of three ways to trade a bar is traded: the instruments' settings,  *)
(* the session of an hour, the regime of the daily range, the router between *)
(* trending, ranging and the plain pipeline, and the script that compares    *)
(* the router with and without the assessed regime over the same bars.       *)
(* Prices are whole dollars, confidences in thousandths, shares of a range   *)
(* and ATRs in hundredths; what may be missing is a set of one or none.      *)
EXTENDS HtfBias

CONSTANTS
  Lookback48,          \* the bars of a Donchian channel
  RouterBars           \* what the comparison may find on a bar

ASSUME RouterAssumption == Lookback48 \in Nat \ {0} /\ \A bar \in RouterBars : bar.hour \in 0..23

-----------------------------------------------------------------------------
\* Instruments.  The bounds of a range's width, None for bitcoin, are sets.
Hours(name, from, to, penalty) == [name |-> name, from |-> from, to |-> to, penalty |-> penalty]

Xau == [
  sessions |-> <<Hours("ASIAN_CORE", 0, 6, 200), Hours("ASIAN_LONDON_TRANSITION", 6, 8, 150),
                 Hours("LONDON", 8, 13, 0), Hours("LONDON/NY OVERLAP", 13, 16, 0),
                 Hours("NEW YORK", 16, 21, 0), Hours("LATE NY", 21, 24, 100)>>,
  asian |-> {"ASIAN_CORE", "ASIAN_LONDON_TRANSITION"}, core |-> {"ASIAN_CORE"},
  minWidth |-> {2}, maxWidth |-> {200}, narrow |-> 15, wide |-> 30,
  guardWidth |-> [asian |-> 4, other |-> 8], guardBars |-> [asian |-> 8, other |-> 12],
  guardRr |-> 12, trending |-> 140, ranging |-> 100]

Btc == [
  sessions |-> <<Hours("HIGH_VOL", 12, 22, 0), Hours("LOW_VOL", 22, 12, 0)>>,
  asian |-> {}, core |-> {}, minWidth |-> {}, maxWidth |-> {}, narrow |-> 15, wide |-> 25,
  guardWidth |-> [asian |-> 15, other |-> 15], guardBars |-> [asian |-> 6, other |-> 8],
  guardRr |-> 15, trending |-> 500, ranging |-> 200]

GetInstrumentConfig(symbol) == IF symbol = "BTCUSD" THEN Btc ELSE Xau

\* Ranges are traded, and have a wide band, in every session of either instrument.
SessionNames(cfg) == {cfg.sessions[i].name : i \in DOMAIN cfg.sessions}

GetSessionInfo(cfg, hour) ==
  CHOOSE s \in Range(cfg.sessions) :
    IF s.from < s.to THEN s.from <= hour /\ hour < s.to ELSE s.from <= hour \/ hour < s.to

\* classify_regime: of the daily ATR as a share of the price, if there are bars enough.
ClassifyRegime(cfg, atr) ==
  IF \E a \in atr : a >= cfg.trending THEN "trending"
  ELSE IF \E a \in atr : a < cfg.ranging THEN "ranging" ELSE "transitional"

-----------------------------------------------------------------------------
\* The router.  A question q has the instrument, the direction and its confidence,
\* the regime, the session, the bounds with their guards, the price and the
\* assessment of the regime; the answer is one of three modes.
TrendRegimes == {"TREND_UP", "TREND_DOWN", "ATH_BREAKOUT"}
TrustThreshold == 600

Directed(q, floor) == q.dir \in {"bullish", "bearish"} /\ q.conf >= floor
PriceInRange(q) == \A b \in q.bounds : b.lower <= q.price /\ q.price <= b.upper
HasRange(q) == q.bounds # {} /\ q.guards /\ q.session \in SessionNames(q.cfg)

\* The assessed regime decides first; an empty answer falls through.
Trusted(assess) == {a.regime : a \in {x \in assess : x.conf >= TrustThreshold}}

ByAssessmentAnywhere(q) ==
  IF Trusted(q.assess) \cap TrendRegimes # {} THEN {"trending"}
  ELSE IF "CONSOLIDATION" \in Trusted(q.assess)
  THEN IF q.bounds # {} THEN {"ranging"} ELSE {}
  ELSE {}

ByAssessment(q) ==
  IF Trusted(q.assess) \cap TrendRegimes # {} THEN {"trending"}
  ELSE IF "CONSOLIDATION" \in Trusted(q.assess)
  THEN IF ~Directed(q, 500) /\ HasRange(q) /\ PriceInRange(q) THEN {"ranging"} ELSE {}
  ELSE IF "TRANSITION" \in Trusted(q.assess)
  THEN {IF q.regime = "trending" /\ Directed(q, 450) THEN "trending" ELSE "v1_passthrough"}
  ELSE {}

ByDirection(q) == IF Directed(q, 450) /\ q.session \notin q.cfg.core THEN {"trending"} ELSE {}

ByRange(q) ==
  LET suppressed == q.regime = "trending" /\ q.session \notin q.cfg.core /\ ~PriceInRange(q)
  IN  IF HasRange(q) /\ ~suppressed THEN {"ranging"} ELSE {}

RouteTradingMode(q) ==
  LET first == CASE ByAssessment(q) # {} -> ByAssessment(q)
                 [] ByAssessment(q) = {} /\ ByDirection(q) # {} -> ByDirection(q)
                 [] ByAssessment(q) = {} /\ ByDirection(q) = {} -> ByRange(q)
  IN  IF first = {} THEN "v1_passthrough" ELSE CHOOSE mode \in first : TRUE

-----------------------------------------------------------------------------
\* The touches of a range: bars whose high is near its top or low near its bottom.
CountBoundaryTouches(bars, b) ==
  CountIf(bars, LAMBDA x : \/ 20 * Abs(x.high - b.upper) <= b.upper - b.lower
                           \/ 20 * Abs(x.low - b.lower) <= b.upper - b.lower)

Profile(cfg, session) == IF session \in cfg.asian THEN "asian" ELSE "other"

-----------------------------------------------------------------------------
\* The comparison.  It has a regime of its own, and a range of its own: none in a
\* trending regime, and otherwise the channel of the last bars, with guards that
\* ask for the price inside and for no duration.
ClassifyAtrRegime(atr) ==
  IF \E a \in atr : a >= 150 THEN "trending"
  ELSE IF \E a \in atr : a <= 80 THEN "ranging" ELSE "transitional"

SynthesiseRangeBounds(bars, price, regime, session) ==
  LET tail == LastOf(bars, Lookback48)
      b == [upper |-> CHOOSE x \in {y.high : y \in Range(tail)} : \A y \in Range(tail) : y.high <= x,
            lower |-> CHOOSE x \in {y.low : y \in Range(tail)} : \A y \in Range(tail) : x <= y.low]
  IN  IF Len(bars) < Lookback48 \/ regime = "trending" \/ b.upper <= b.lower
      THEN [bounds |-> {}, guards |-> FALSE]
      ELSE [bounds |-> {b},
            guards |-> /\ b.upper - b.lower >= Xau.guardWidth[Profile(Xau, session)]
                       /\ CountBoundaryTouches(tail, b) >= 2
                       /\ b.lower <= price /\ price <= b.upper]

\* The question about a bar; the assessment is the cached one.
QuestionAt(bar) ==
  LET session == GetSessionInfo(Xau, bar.hour)
      regime == ClassifyAtrRegime(bar.atr)
      range == SynthesiseRangeBounds(bar.h1, bar.price, regime, session.name)
  IN  [cfg |-> Xau, dir |-> bar.dir, conf |-> bar.conf - session.penalty, regime |-> regime,
       session |-> session.name, bounds |-> range.bounds, guards |-> range.guards,
       price |-> bar.price, assess |-> bar.assess]

Arms == {"baseline", "treatment"}
RouterForBar(arm, q) ==
  RouteTradingMode(IF arm = "treatment" THEN q ELSE [q EXCEPT !.assess = {}])

VARIABLES
  asked,        \* {} or the last question of the comparison
  routerStats   \* arm -> mode -> bars
routerVars == <<asked, routerStats>>

Modes == {"trending", "ranging", "v1_passthrough"}

RouterInit == asked = {} /\ routerStats = [arm \in Arms |-> [mode \in Modes |-> 0]]

\* One bar with setups goes through both arms.
CompareBar ==
  \E bar \in RouterBars :
    LET q == QuestionAt(bar)
    IN  /\ asked = {} /\ asked' = {q}
        /\ routerStats' = [arm \in Arms |->
             [routerStats[arm] EXCEPT ![RouterForBar(arm, q)] = @ + 1]]

\* The bars of an arm whose setups the engine is given.
Approved(arm) == routerStats[arm]["trending"] + routerStats[arm]["v1_passthrough"]

\* backtest_mode_router_ab expects the assessed regime to take range bars away, and
\* to give none: what the treatment trades as a range, the baseline would have, but
\* for a bar assessed as a consolidation whose direction is between the two floors
\* (0.45 to trend, 0.5 to override the consolidation).  And the engine is given every
\* bar of an arm that is not a range.
RouterNarrows ==
  \A q \in asked :
    /\ RouterForBar("treatment", q) = "ranging" =>
         \/ RouterForBar("baseline", q) = "ranging"
         \/ Directed(q, 450) /\ ~Directed(q, 500) /\ "CONSOLIDATION" \in {a.regime : a \in q.assess}
    /\ \A arm \in Arms : Approved(arm) = 1 - routerStats[arm]["ranging"]
=============================================================================
