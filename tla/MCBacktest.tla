---------------------------- MODULE MCBacktest -----------------------------
EXTENDS Backtest

Brk(kind, dir, price, ts) == [kind |-> kind, dir |-> dir, price |-> price, ts |-> ts]
Ob(type, hi, lo) == [type |-> type, hi |-> hi, lo |-> lo, mitigated |-> FALSE]
Gap(type, hi, lo, filled) == [type |-> type, hi |-> hi, lo |-> lo, filled |-> filled]
Sw(type, price, ts) == [type |-> type, price |-> price, ts |-> ts]
Chart(breaks, obs, fvgs, swings, levels) ==
  [breaks |-> breaks, obs |-> obs, fvgs |-> fvgs, swings |-> swings,
   levels |-> {[price |-> p, swept |-> FALSE] : p \in levels}]

Trend(dir) == Chart(<<Brk("bos", dir, 100, 1), Brk("bos", dir, 101, 2)>>, <<>>, <<>>, <<>>, {})
Regime(label) == [label |-> label, conf |-> 700, debate |-> TRUE, d1Atr |-> 8,
                  lowVol |-> FALSE, nearAth |-> TRUE]

\* Two zones in a rising market, one of them swept on the M15 chart.
Base == [d1 |-> Trend("bullish"), h4 |-> Trend("bullish"), slope |-> {},
         h1 |-> Chart(<<>>, <<Ob("bullish", 102, 99)>>,
                      <<Gap("bullish", 98, 91, 0)>>, <<>>, {}),
         m15 |-> Chart(<<Brk("choch", "bullish", 100, 1), Brk("bos", "bullish", 97, 2)>>,
                       <<>>, <<>>, <<Sw("low", 96, 1)>>, {}),
         missing |-> {}, legacy |-> FALSE, synthetic |-> <<>>, atr |-> 4, regime |-> Regime("TREND_UP"),
         volatility |-> "ranging", direction |-> [dir |-> "bullish", conf |-> 600]]

\* A gap that has been half filled, in a falling market; no engine direction.
Falling ==
  [Base EXCEPT
     !.d1 = Trend("bearish"), !.h4 = Trend("bearish"),
     !.h1 = Chart(<<>>, <<Ob("bearish", 102, 99), Ob("bearish", 96, 93)>>,
                  <<Gap("bearish", 101, 99, 50)>>, <<>>, {}),
     !.m15 = Chart(<<>>, <<>>, <<Gap("bearish", 101, 99, 60)>>,
                   <<Sw("high", 99, 1), Sw("high", 100, 2)>>, {97}),
     !.regime = Regime("TREND_DOWN"), !.direction = [dir |-> "neutral", conf |-> 400]]

\* The daily and the four-hour chart disagree; the slope decides.
Mixed ==
  [Base EXCEPT
     !.h4 = Trend("bearish"), !.slope = {-120},
     !.h1 = Chart(<<>>, <<>>, <<Gap("bearish", 99, 97, 0)>>, <<>>, {}),
     !.synthetic = <<[hi |-> 103, lo |-> 100, type |-> "synthetic_session", dir |-> "short", conf |-> 500]>>,
     !.m15 = Chart(<<Brk("bos", "bearish", 102, 1)>>, <<>>, <<Gap("bearish", 98, 97, 100)>>,
                   <<Sw("high", 103, 1), Sw("low", 101, 2)>>, {}),
     !.regime = Regime("CONSOLIDATION"), !.direction = [dir |-> "bearish", conf |-> 100]]

\* The regime forbids what the charts show.
Against == [Mixed EXCEPT !.regime = Regime("TREND_UP")]

MCMarkets == {Base, Falling, Mixed, Against}

Shape(o, h, l, c) == [open |-> o, high |-> h, low |-> l, close |-> c]
MCBars == {Shape(100, 103, 98, 99), Shape(100, 116, 100, 104),
           Shape(100, 100, 84, 98), Shape(101, 116, 84, 100)}
MCRuns == AllRuns
MCMacroBias == 50
MCSpec == BacktestInit /\ [][BacktestNext]_backtestVars
=============================================================================
