----------------------------- MODULE MCResearch ------------------------------
(* The offline tools, each moving alone: the data lake, the detector on a    *)
(* sliding chart, and the acceptance protocol.                               *)
EXTENDS WalkForward, Detection, Lake

VARIABLE part    \* which of them moves
researchVars == <<part, walkVars, detectionVars, lakeVars>>

\* Of the parts that rest, one initial state is enough.
WalkRests == gate = "v1" /\ dataStart = (CHOOSE d \in DataStarts : TRUE)
ChartRests == chart[1].row.swing = {} /\ chart[1].row.gap = {} /\ chart[1].high = 101

MCInit ==
  /\ part \in {"walk", "detection", "lake"}
  /\ WalkInit /\ DetectionInit /\ LakeInit
  /\ part # "walk" => WalkRests
  /\ part # "detection" => ChartRests
  /\ part # "lake" => now = 0

MCNext ==
  /\ part' = part
  /\ \/ part = "walk" /\ WalkNext /\ UNCHANGED <<detectionVars, lakeVars>>
     \/ part = "detection" /\ DetectionNext /\ UNCHANGED <<walkVars, lakeVars>>
     \/ part = "lake" /\ LakeNext /\ UNCHANGED <<walkVars, detectionVars>>

MCSpec == MCInit /\ [][MCNext]_researchVars

-----------------------------------------------------------------------------
D(y,m,d) == [y |-> y, m |-> m, d |-> d]
MCDataStarts == {D(2019,1,1), D(2018,11,28), D(2019,2,28)}
MCDataEnd == D(2020,12,15)
MCHoles == {<<2020,m>> : m \in 4..7}
O(r,t,w,p,l,d) == [returns |-> r, trades |-> t, wins |-> w, profit |-> p, loss |-> l, dd |-> d]
MCScripts == {SingleV3, SingleV8}
MCOutcomes == {O(<<3,-1,2>>,60,30,40,20,5), O(<<-2,1>>,30,10,5,15,25), O(<<1,1>>,40,20,10,0,0)}

MCSessions == <<{0}, {1}, {}>>
Bar3(h, l, c) == [high |-> h, low |-> l, close |-> c]
MCShapes == {Bar3(101, 100, 100), Bar3(104, 99, 104), Bar3(99, 96, 97)}
Row0 == [swing |-> {}, break |-> {}, block |-> {}, gap |-> {}]
Found1(type, hi, lo) == {[type |-> type, hi |-> hi, lo |-> lo, mitigated |-> FALSE]}
High(price) == {[type |-> "high", price |-> price]}
Low(price) == {[type |-> "low", price |-> price]}
Broke(kind, dir, at) == {[kind |-> kind, dir |-> dir, price |-> 101, broken |-> at]}
MCRows ==
  {Row0,
   [Row0 EXCEPT !.swing = High(104)],
   [Row0 EXCEPT !.swing = High(106), !.gap = Found1("bearish", 103, 100)],
   [Row0 EXCEPT !.swing = Low(99), !.block = Found1("bullish", 101, 98),
                !.break = Broke("bos", "bullish", 2)],
   [Row0 EXCEPT !.swing = High(108), !.gap = Found1("bullish", 102, 98),
                !.break = Broke("choch", "bearish", 0)]}

All == [tf \in Timeframes |-> Times]
MCOffered == [s \in {"mt5","csv","histdata","yfinance"} |->
   CASE s = "mt5" -> All
     [] s = "csv" -> [tf \in Timeframes |-> {0,1,2}]
     [] s = "histdata" -> [tf \in Timeframes |-> IF tf = "D1" THEN {0,2,3,4} ELSE {}]
     [] s = "yfinance" -> [tf \in Timeframes |-> {1,2,4}]]
Req(s,tfs,a,b) == [source|->s,tfs|->tfs,from|->a,to|->b]
MCRequests == {Req("mt5",<<"D1","M15">>,0,6), Req("mt5",<<"D1">>,1,4), Req("csv",<<"M15">>,0,1), Req("histdata",<<"M15","D1">>,0,1),
  Req("yfinance",<<"D1","M15">>,1,4)}
=============================================================================
