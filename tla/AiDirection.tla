----------------------------- MODULE AiDirection -----------------------------
(* Who says where the market goes, and when that was said.  The live loop    *)
(* asks a new engine every few hours and keeps the answer.  A backtest looks *)
(* its directions up in a file built beforehand, through an engine that      *)
(* remembers them by the hour of the bar, and its regimes in another.  What  *)
(* a language model or a moving average says is an input; confidences are    *)
(* per cent.  No engine of this code is given macro data.                    *)
EXTENDS Integers, FiniteSets, FiniteSetsExt, Functions

CONSTANTS
  RefreshEvery,    \* 14400 s of the live loop, in cycles
  MacroFreeCap,    \* 50: the confidence without macro evidence
  AiEnd,           \* bounds the live loop
  D1, H4, HourLen,   \* of a backtest, in its bars
  DataEnd,         \* the last bar of the lake, which begins with bar 0
  Lookback,        \* bars before the first entry of a file
  MaxAsked         \* bounds the backtest

ASSUME AiAssumption ==
  /\ {RefreshEvery, MacroFreeCap, AiEnd, DataEnd, MaxAsked} \subseteq Nat
  /\ {HourLen, H4, D1} \subseteq Nat \ {0} /\ H4 % HourLen = 0 /\ D1 % H4 = 0
  /\ Lookback % D1 = 0 /\ Lookback \in Nat \ {0} /\ Lookback <= DataEnd

VARIABLES
  aiNow,       \* live: the cycle
  analysis,    \* {} or {[dir, conf, at, failed]}: ai_analysis
  updatedAt,   \* last_ai_update
  taken,       \* {} or {the analysis this cycle decides by}
  calls,       \* backtest: calls so far
  memory,      \* hour of a bar -> answer: DirectionEngine._mem_cache
  answered     \* {} or {[ts, direction, regime]}: the last answers
liveAiVars == <<aiNow, analysis, updatedAt, taken>>
cacheVars == <<calls, memory, answered>>
aiVars == <<aiNow, analysis, updatedAt, taken, calls, memory, answered>>

AiInit ==
  /\ aiNow = 0 /\ analysis = {} /\ updatedAt = -RefreshEvery - 1 /\ taken = {}
  /\ calls = 0 /\ memory = <<>> /\ answered = {}

-----------------------------------------------------------------------------
\* Views: what a call of the model may answer.  "up" is no direction: it is refused.
View(dir, conf) == [dir |-> dir, conf |-> conf]
Neutral == View("neutral", 30)
Views == {View("bullish", 90), View("bearish", 5), View("up", 97)}

\* _run_direction_debate: an analyst that fails is neutral, and a judge that fails leaves
\* the macro analyst's view, so there is an answer when all three failed.  A refused one
\* leaves the fallback, and so does a missing program.
RunDirectionDebate ==
  {View(v.dir, Max({10, Min({95, v.conf})})) : v \in {w \in Views : w.dir # "up"} \cup {Neutral}}

\* _sma_dxy_fallback, of a dollar index that is always flat here.
SmaDxyFallback == {View("bullish", 50), View("bearish", 50), Neutral}

\* get_direction, without a file and with nothing to remember.
DirectionAnswers == {[v EXCEPT !.conf = Min({@, MacroFreeCap})] : v \in RunDirectionDebate \cup SmaDxyFallback}

\* run_ai_analysis: the engine's answer, or, when it raised or was given up after three
\* minutes, what the daily averages say, given fifty bars of them.
Technical == {View("bullish", 70), View("bearish", 70), Neutral, View("?", 0)}
RunAiAnalysis ==
  {[dir |-> v.dir, conf |-> v.conf, at |-> aiNow, failed |-> FALSE] : v \in DirectionAnswers}
  \cup {[dir |-> v.dir, conf |-> v.conf, at |-> aiNow, failed |-> TRUE] : v \in Technical}

RefreshDue == aiNow - updatedAt > RefreshEvery

\* A cycle that comes to decide, with a new analysis if one is due.
AiCycle ==
  /\ taken = {}
  /\ IF RefreshDue
     THEN /\ analysis' \in {{a} : a \in RunAiAnalysis} /\ updatedAt' = aiNow
     ELSE UNCHANGED <<analysis, updatedAt>>
  /\ taken' = analysis'
  /\ UNCHANGED aiNow

\* The analysis raises when its file, which is every leg's, cannot be written: the cycle
\* ends without a decision.
AiCycleFailsLate ==
  /\ taken = {} /\ RefreshDue /\ updatedAt' = aiNow
  /\ UNCHANGED <<aiNow, analysis, taken>>
AiCycleFails ==
  /\ taken = {} /\ RefreshDue
  /\ UNCHANGED liveAiVars

\* The next cycle, or one after cycles that ended before the analysis; or a new process.
NextCycle ==
  /\ aiNow < AiEnd /\ aiNow' = aiNow + 1 /\ taken' = {}
  /\ \/ UNCHANGED <<analysis, updatedAt>>
     \/ analysis' = {} /\ updatedAt' = -RefreshEvery - 1

LiveAiNext == (AiCycle \/ AiCycleFails \/ NextCycle) /\ UNCHANGED cacheVars

-----------------------------------------------------------------------------
\* build_direction_cache and build_regime_cache: an entry every H4 from the end of the
\* lookback to the last bar of the timeframe, made from the bars that opened before it.
LastOpen(length) == DataEnd - (DataEnd % length)
Entries(length) == 1 + (LastOpen(length) - Lookback) \div H4
EntryTime(i) == Lookback + i * H4

OpenedBefore(length, t) == Max({o \in 0 .. t - 1 : o % length = 0})
CacheEntry(length, i) == [ts |-> EntryTime(i), bar |-> OpenedBefore(length, EntryTime(i))]

\* lookup: the rightmost entry at or before ts, of any age.
Search(n, ts) ==
  LET search[r \in [lo : 0 .. n, hi : -1 .. n - 1, best : 0 .. n - 1]] ==
        LET mid == (r.lo + r.hi) \div 2
        IN  IF r.lo > r.hi THEN r.best
            ELSE search[IF EntryTime(mid) <= ts
                        THEN [lo |-> mid + 1, hi |-> r.hi, best |-> mid]
                        ELSE [r EXCEPT !.hi = mid - 1]]
  IN  search[[lo |-> 0, hi |-> n - 1, best |-> 0]]
Lookup(length, ts) ==
  IF ts < EntryTime(0) THEN {} ELSE {CacheEntry(length, Search(Entries(length), ts))}

DayKey(ts) == ts \div D1
HourKey(ts) == ts \div HourLen

\* get_direction for a bar: what is remembered of its hour, unless it has expired; else
\* the file; without either the debate or the fallback, {} here.
GetDirection(ts, hit) == IF hit THEN memory[HourKey(ts)] ELSE Lookup(H4, ts)

\* classify_regime_ai for the same bar: the file, else ({}) what the bars give.
Ask(ts, hit) ==
  /\ calls < MaxAsked /\ (hit => HourKey(ts) \in DOMAIN memory)
  /\ LET direction == GetDirection(ts, hit)
     IN  /\ memory' = [h \in DOMAIN memory \cup {HourKey(ts)} |->
                         IF h = HourKey(ts) THEN direction ELSE memory[h]]
         /\ answered' = {[ts |-> ts, direction |-> direction, regime |-> Lookup(D1, ts)]}
  /\ calls' = calls + 1

\* Every window has an engine of its own.
NewEngine == memory # <<>> /\ memory' = <<>> /\ UNCHANGED <<calls, answered>>

CacheNext ==
  /\ NewEngine \/ \E ts \in 0 .. DataEnd, hit \in BOOLEAN : Ask(ts, hit)
  /\ UNCHANGED liveAiVars

-----------------------------------------------------------------------------
\* The live loop decides by an analysis that is no older than the refresh, although
\* analyses and cycles fail and processes restart; and where it is surer than what no
\* macro evidence allows, it is the averages that are, because the engine failed.
AnalysisIsAccountedFor ==
  \A a \in taken :
    aiNow - a.at <= RefreshEvery /\ (a.conf > MacroFreeCap => a.failed)

\* Lookups and memory together: a bar is answered by the newest entry of the file at or
\* before it, whatever was asked before.  A direction was made from bars closed by then;
\* a regime may know the daily bar of its day, which closes at most D1 - H4 later.
CachesSeeThePast ==
  \A a \in answered :
    /\ (a.direction = {} <=> a.ts < Lookback) /\ (a.regime = {} <=> a.ts < Lookback)
    /\ \A e \in a.direction \cup a.regime : e.ts <= a.ts
    /\ \A e \in a.direction :
         e.bar + H4 <= a.ts /\ (e.ts + H4 <= a.ts => e.ts + H4 > LastOpen(H4))
    /\ \A e \in a.regime :
         e.bar <= a.ts - H4 /\ (e.ts + H4 <= a.ts => e.ts + H4 > LastOpen(D1))
=============================================================================
