---------------------------- MODULE MacroOverlay -----------------------------
(* The macro overlay of the XAUUSD leg that has one: a bias from the CFTC's  *)
(* weekly report, from daily real yields and from the dollar index.  Each    *)
(* source is kept by rules of its own: reports in a file that every call     *)
(* downloads anew and that only stands in when that fails, yields in a file  *)
(* until midnight, the index in memory for a day.  A cycle downloads what it *)
(* can, and goes on without what it could not get.  What the numbers say is  *)
(* left out: a report is its number, yields are where they came from and     *)
(* when.                                                                     *)
EXTENDS Integers, FiniteSets, FiniteSetsExt

CONSTANTS
  DayLen,       \* the day, in units of time
  ReportEvery,  \* a report is dated n * ReportEvery ...
  ReportLag,    \* ... and published so much later
  ContextTtl,   \* macro_cache_ttl_hours
  HasFredKey,   \* FRED_API_KEY is set
  Reachable,    \* what may answer during a cycle: sets of sources
  MacroEnd      \* bounds the exploration

ASSUME MacroAssumption ==
  /\ {DayLen, ReportEvery, ContextTtl} \subseteq Nat \ {0} /\ HasFredKey \in BOOLEAN
  /\ {ReportLag, MacroEnd} \subseteq Nat
  /\ \A up \in Reachable :
       up \subseteq {"cftc", "fred", "tip_etf", "vix", "real_rate", "yahoo", "stooq", "exchangerate"}

VARIABLES
  macroNow,   \* the time
  cotFile,    \* {} or {newest report} of cot_gold_history.parquet; unreadable is {}
  tipsFile,   \* {} or {[at, source]} of tips_history.parquet; unreadable is {}
  context,    \* {} or {[at, dxy]}: ExternalContextFetcher._cached, with or without the index
  overlay,    \* {} or {the answer just given: [cot, tips, dxy, lost]}
  inVain      \* history: when the index was asked for and not got, while that is cached
macroVars == <<macroNow, cotFile, tipsFile, context, overlay, inVain>>

Published(t) == {n \in 0 .. t : n * ReportEvery + ReportLag <= t}

MacroInit ==
  /\ macroNow = ReportLag /\ cotFile = {} /\ tipsFile = {} /\ context = {}
  /\ overlay = {} /\ inVain = {}

-----------------------------------------------------------------------------
\* _fetch_from_cftc: every report published so far, or nothing.
FetchFromCftc(up) == IF "cftc" \in up THEN Published(macroNow) ELSE {}

\* COTFetcher.fetch downloads and merges what it got; the file stands in for a download
\* that fails.  _cache_needs_refresh never comes to compare the newest date with the
\* week of _CACHE_TTL_DAYS: it is a date, and reading its tzinfo raises, which counts
\* as due.
FetchCot(up) ==
  LET fresh == FetchFromCftc(up)
  IN  IF fresh # {} THEN {Max(cotFile \cup fresh)} ELSE cotFile

\* TIPSFetcher.fetch_history: today's file, else FRED with a key, else the ETF, else an
\* older file.
TipsNeedRefreshOn(yields) == \A y \in yields : y.at < macroNow - DayLen
TipsNeedRefresh(yields) == \A y \in yields : y.at \div DayLen < macroNow \div DayLen

TipsSources(up) == {s \in {"fred", "tip_etf"} \cap up : s = "fred" => HasFredKey}
FetchTips(up) ==
  LET from == TipsSources(up)
  IN  IF from = {} \/ ~TipsNeedRefresh(tipsFile) THEN tipsFile
      ELSE {[at |-> macroNow, source |-> IF "fred" \in from THEN "fred" ELSE "tip_etf"]}

\* is_fresh; the cached answer is served as it is, with or without an index in it.
ContextFresh == \E c \in context : macroNow - c.at < ContextTtl

\* _fetch_dxy: the index, from the first source that has it.  Stooq names a direction
\* that ExternalContext refuses when the index has moved: fetch raises.
IndexFrom(up) ==
  CASE "yahoo" \in up -> "yahoo" [] "stooq" \in up -> "stooq"
    [] "exchangerate" \in up -> "exchangerate" [] OTHER -> "none"
Refused(up, moved) == IndexFrom(up) = "stooq" /\ moved

\* _fetch_all and fetch: an answer with anything in it is cached, the index, the
\* volatility or the newest real rate, which only a key can ask for.
HasAny(up) == IndexFrom(up) # "none" \/ "vix" \in up \/ (HasFredKey /\ "real_rate" \in up)
FetchContext(up, moved) ==
  LET index == IndexFrom(up) # "none"
  IN  IF ContextFresh \/ Refused(up, moved) \/ ~HasAny(up) THEN context
      ELSE {[at |-> macroNow, dxy |-> index]}

\* _dxy_bias: an answer that was cached, or has just been.
IndexOf(answer) == {c \in answer : c.dxy /\ macroNow - c.at < ContextTtl}

\* What a call asks its sources for and does not get: reports always, yields when due.
Lost(up) ==
  {s \in {"cot"} : "cftc" \notin up}
    \cup {s \in {"tips"} : TipsNeedRefresh(tipsFile) /\ TipsSources(up) = {}}

\* compute_macro_bias, with the sources that answer; a file that cannot be written is
\* left as it was, and the answer does not need it.
ComputeMacroBias(up, moved) ==
  LET reports == FetchCot(up)
      yields == FetchTips(up)
      answer == FetchContext(up, moved)
  IN  /\ cotFile' \in {reports, cotFile} /\ tipsFile' \in {yields, tipsFile}
      /\ context' = answer
      /\ inVain' = IF ~ContextFresh /\ IndexOf(answer) = {} THEN inVain \cup {macroNow} ELSE inVain
      /\ overlay' = {[cot |-> reports, tips |-> yields, dxy |-> IndexOf(answer),
                      lost |-> Lost(up)]}
      /\ UNCHANGED macroNow

\* The process dies: what it had in memory is gone, and so is a file it was writing.
MacroDies ==
  /\ context' = {} /\ overlay' = {}
  /\ \/ UNCHANGED <<cotFile, tipsFile>>
     \/ cotFile' = {} /\ UNCHANGED tipsFile
     \/ TipsNeedRefresh(tipsFile) /\ tipsFile' = {} /\ UNCHANGED cotFile
  /\ UNCHANGED <<macroNow, inVain>>

MacroTick ==
  /\ macroNow < MacroEnd /\ macroNow' = macroNow + 1 /\ overlay' = {}
  /\ inVain' = {t \in inVain : macroNow + 1 - t < ContextTtl}
  /\ UNCHANGED <<cotFile, tipsFile, context>>

MacroNext ==
  \/ \E up \in Reachable, moved \in BOOLEAN : ComputeMacroBias(up, moved)
  \/ MacroDies \/ MacroTick

-----------------------------------------------------------------------------
\* What the overlay rests on, through failures, restarts and files that were lost: the
\* newest report there is, yields asked for today and an index less than the cache's
\* lifetime old; and where one is older, or missing, its sources failed in this very
\* call, for the index at some call within that lifetime.
OverlayIsCurrent ==
  \A o \in overlay :
    /\ o.cot = {Max(Published(macroNow))} \/ "cot" \in o.lost
    /\ (\E y \in o.tips : y.at \div DayLen = macroNow \div DayLen) \/ "tips" \in o.lost
    /\ o.dxy # {} \/ inVain # {}
=============================================================================
