---------------------------- MODULE MCLivePython -----------------------------
(* The Python side of live trading, each part moving alone: the comparison    *)
(* of the two routers, two legs that trade ranges, the order manager on a     *)
(* broker that answers badly, processes that start, processes that share one  *)
(* account's margin, the macro overlay, and who says the direction.           *)
EXTENDS RangeTrading, OrderManager, Startup, OrderPath, MacroOverlay, AiDirection

VARIABLE part    \* which of them moves
tradingVars == <<routerVars, rangeVars, orderVars, startupVars, pathVars>>
pythonVars == <<part, tradingVars, macroVars, aiVars>>

MCInit ==
  /\ part \in {"router", "range", "orders", "startup", "margin", "macro", "direction", "files"}
  /\ RouterInit /\ RangeInit /\ OrderInit /\ StartupInit /\ PathInit /\ MacroInit /\ AiInit
  /\ price = 102
  /\ part # "startup" => ~legacy

Trading ==
  \/ part = "router" /\ CompareBar /\ UNCHANGED <<rangeVars, orderVars, startupVars, pathVars>>
  \/ part = "range" /\ RangeNext /\ UNCHANGED <<routerVars, orderVars, startupVars, pathVars>>
  \/ part = "orders" /\ OrderNext /\ UNCHANGED <<routerVars, rangeVars, startupVars, pathVars>>
  \/ part = "startup" /\ StartupNext /\ UNCHANGED <<routerVars, rangeVars, orderVars, pathVars>>
  \/ part = "margin" /\ PathNext /\ UNCHANGED <<routerVars, rangeVars, orderVars, startupVars>>

MCNext ==
  /\ part' = part
  /\ \/ Trading /\ UNCHANGED <<macroVars, aiVars>>
     \/ part = "macro" /\ MacroNext /\ UNCHANGED <<tradingVars, aiVars>>
     \/ part = "direction" /\ LiveAiNext /\ UNCHANGED <<tradingVars, macroVars>>
     \/ part = "files" /\ CacheNext /\ UNCHANGED <<tradingVars, macroVars>>

MCSpec == MCInit /\ [][MCNext]_pythonVars

-----------------------------------------------------------------------------
Ob(type, hi, lo, age) == [type |-> type, hi |-> hi, lo |-> lo, mitigated |-> FALSE, age |-> age]
Swing(type, level, age) == [type |-> type, price |-> level, age |-> age]
Bar(h, l) == [high |-> h, low |-> l]
OC(o, c) == [open |-> o, close |-> c]
Regime(label) == {[regime |-> label, conf |-> 700]}
M15(breaks, swings) == [breaks |-> breaks, swings |-> swings]
Break(dir, level) == [kind |-> "choch", dir |-> dir, price |-> level]
Pick(dir, score) == [dir |-> dir, score |-> score]

\* The price is a little under a range between two blocks; the last bar turns up.
AtSupport ==
  [h1 |-> [obs |-> <<Ob("bearish", 140, 135, 20), Ob("bullish", 105, 100, 30)>>, swings |-> <<>>],
   bars |-> <<Bar(139, 120), Bar(130, 101), Bar(128, 100)>>, price |-> 99, atr |-> 6,
   m15 |-> M15(<<Break("bullish", 104)>>, <<>>), m15bars |-> <<OC(101, 98), OC(98, 99)>>,
   d1 |-> <<120, 118, 116, 120>>, daily |-> {90}, dir |-> "neutral", conf |-> 400,
   htf |-> [dir |-> "neutral", conf |-> 0], assess |-> Regime("CONSOLIDATION"),
   setups |-> <<>>]
\* At its top, where the soft reversal is a swing; the daily trend is up.
AtResistance ==
  [AtSupport EXCEPT
     !.h1 = [obs |-> <<>>, swings |-> <<Swing("low", 100, 20), Swing("high", 140, 15)>>],
     !.price = 140, !.m15 = M15(<<Break("bullish", 120)>>, <<Swing("high", 140, 1)>>),
     !.m15bars = <<OC(139, 141), OC(142, 139)>>, !.d1 = <<100, 104, 108, 116>>,
     !.htf = [dir |-> "bullish", conf |-> 800], !.assess = Regime("TRANSITION")]
\* Blocks that cross; the channel is narrow, and both borders are near.
Narrow ==
  [AtSupport EXCEPT
     !.h1 = [obs |-> <<>>, swings |-> <<>>], !.price = 108,
     !.bars = <<Bar(112, 104), Bar(111, 104), Bar(112, 105)>>,
     !.m15 = M15(<<>>, <<Swing("low", 105, 2), Swing("high", 111, 1)>>),
     !.m15bars = <<OC(108, 107)>>, !.assess = {}]
\* A trend, which one assessment confirms and an engine disputes.
Trending ==
  [AtSupport EXCEPT !.dir = "bearish", !.conf = 800, !.daily = {160},
     !.assess = Regime("TREND_DOWN"), !.setups = <<Pick("long", 500), Pick("short", 700)>>]
Disputed ==
  [Trending EXCEPT !.conf = 600, !.daily = {}, !.assess = {},
     !.setups = <<Pick("long", 700), Pick("short", 500)>>]

\* Under the range by more than the stop's distance, and by less than an ATR.
Fallen == [AtSupport EXCEPT !.price = 94, !.m15bars = <<OC(93, 92), OC(92, 94)>>]
MCScenes == {AtSupport, Fallen, AtResistance, Narrow, Trending, Disputed}
MCLegs == {"control", "macro"}
Plain == [requireValid |-> FALSE, reversal |-> FALSE, trendFilter |-> FALSE,
          regimeGate |-> FALSE, router |-> FALSE]
Strict == [requireValid |-> TRUE, reversal |-> TRUE, trendFilter |-> TRUE,
           regimeGate |-> TRUE, router |-> TRUE]
MCLegSettings == [leg \in MCLegs |-> IF leg = "control" THEN Plain ELSE Strict]
MCHourAt == <<4, 6, 22>>

\* The comparison's bars: every assessment, with directions around the two floors,
\* in, above and without a channel.
Bars3 == <<Bar(112, 100), Bar(111, 101), Bar(112, 100)>>
MCRouterBars ==
  [hour : {3, 10}, atr : {{}, {70}, {100}, {160}}, h1 : {Bars3, <<Bar(112, 100)>>}, price : {106, 115},
   dir : {"neutral", "bullish"}, conf : {400, 480, 700},
   assess : {{}, {[regime |-> "CONSOLIDATION", conf |-> 500]}}
            \cup {Regime(r) : r \in {"CONSOLIDATION", "TRANSITION", "TREND_UP"}}]

MCPrices == 100..104
MCOrders == {[dir |-> "long", sl |-> 99, tp |-> 104], [dir |-> "short", sl |-> 0, tp |-> 100]}

MCProcesses == {"c1", "c2", "c3", "m1"}
MCLegOf == [p \in MCProcesses |-> IF p = "m1" THEN "macro" ELSE "control"]

MCSenders == {"xau", "btc", "xau_macro"}
MCMargin == [s \in MCSenders |-> IF s = "btc" THEN 1 ELSE 2]
\* What answers in a cycle: the reports or not, yields from one source or none, and of the
\* dollar index, the volatility and the real rate one of the cases that fetch tells apart.
MCReachable ==
  {reports \cup yields \cup index :
     reports \in {{}, {"cftc"}}, yields \in {{}, {"tip_etf"}, {"fred"}},
     index \in {{}, {"vix"}, {"real_rate"}, {"yahoo"}, {"stooq"}, {"vix", "exchangerate"}}}
=============================================================================
