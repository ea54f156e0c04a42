-------------------------------- MODULE Lake ---------------------------------
(* The data lake: one file per timeframe and month, written by the ingest    *)
(* command (from CSV) and by two backfill scripts (from the terminal, or from*)
(* Yahoo without one, and from HistData), read by half-open queries.  The    *)
(* command keeps its files under "data", the scripts under "data/parquet";   *)
(* both write their manifests to "data/manifests".  Bars are numbered.       *)
EXTENDS Integers, Sequences, FiniteSets, FiniteSetsExt, SequencesExt, Functions

CONSTANTS
  Months, PerMonth,    \* the bars 0 .. Months * PerMonth - 1
  Offered,             \* source -> timeframe -> bars the source has
  Requests,            \* what backfills are asked for: [source, tfs, from, to]
  EndInclusive,        \* the terminal returns the bar at the end of a range too
  MaxJobs

Horizon == Months * PerMonth
Month(ts) == ts \div PerMonth
Times == 0 .. Horizon - 1
Timeframes == {"M15", "D1"}
Roots == {"data", "parquet"}
Sources == {"mt5", "yfinance", "csv", "histdata"}

ASSUME LakeAssumption ==
  /\ {Months, PerMonth} \subseteq Nat \ {0} /\ MaxJobs \in Nat /\ EndInclusive \in BOOLEAN
  /\ \A r \in Requests :
       /\ r.source \in Sources /\ {r.tfs[i] : i \in DOMAIN r.tfs} \subseteq Timeframes
       /\ {r.from, r.to} \subseteq Nat /\ r.from < r.to

VARIABLES
  files,       \* <<root, timeframe, month>> -> [bars, source, torn] of the files there are
  manifests,   \* source -> [tf, bars]: the bars its manifest counts
  now,         \* the newest bar that has happened
  job,         \* {} or the backfill under way: [req, tfs left, months got, bars, months left]
  jobs         \* backfills started
lakeVars == <<files, manifests, now, job, jobs>>

LakeInit ==
  /\ files = <<>> /\ manifests = <<>> /\ now \in Times /\ job = {} /\ jobs = 0

RootOf(source) == IF source = "csv" THEN "data" ELSE "parquet"

-----------------------------------------------------------------------------
\* Sources: what a request can yield.  The terminal cuts by date, its end included
\* or not; the CSV adapter takes the whole file; HistData is downloaded by years and
\* months, of which any may fail; Yahoo cuts by date.
Happened(source, tf) == Offered[source][tf] \cap 0 .. now
Within(bars, from, to) == {ts \in bars : from <= ts /\ ts <= to}

FetchMt5(req, tf) ==
  Within(Happened("mt5", tf), req.from, IF EndInclusive THEN req.to ELSE req.to - 1)
FetchCsv(req, tf) == Happened("csv", tf)
FetchHistData(tf, got) == {ts \in Happened("histdata", tf) : Month(ts) \in got}
FetchYahoo(req, tf) == Within(Happened("yfinance", tf), req.from, req.to - 1)

FetchNewest(req, tf, got) ==
  LET offered == {ts \in Happened(req.source, tf) : req.from <= ts}
  IN  {ts \in offered : Cardinality({x \in offered : x > ts}) < 3}
Fetch(req, tf, got) ==
  CASE req.source = "mt5" -> FetchMt5(req, tf)
    [] req.source = "csv" -> FetchCsv(req, tf)
    [] req.source = "histdata" -> FetchHistData(tf, got)
    [] req.source = "yfinance" -> FetchYahoo(req, tf)

\* Timeframes a source is asked for: Yahoo has daily bars only.
Supported(req) ==
  IF req.source = "yfinance" THEN SelectSeq(req.tfs, LAMBDA tf : tf = "D1") ELSE req.tfs

-----------------------------------------------------------------------------
\* A backfill: its timeframes one after the other.
Start(sources, got) ==
  /\ job = {} /\ jobs < MaxJobs
  /\ \E req \in {r \in Requests : r.source \in sources} :
       /\ Supported(req) # <<>>
       /\ job' = {[req |-> req, tfs |-> Supported(req), got |-> got, bars |-> {}, left |-> {}]}
  /\ jobs' = jobs + 1
  /\ UNCHANGED <<files, manifests, now>>

StartIngest == Start({"csv"}, {})
StartBackfill == Start({"mt5", "yfinance"}, {})
StartHistData == \E got \in SUBSET (0 .. Months - 1) : Start({"histdata"}, got)

Done(j) == IF Len(j.tfs) = 1 THEN {} ELSE {[j EXCEPT !.tfs = Tail(@), !.bars = {}]}

\* No bar at all: HistData goes on with the next timeframe, the others give up.
FetchBars ==
  \E j \in job :
    /\ j.bars = {}
    /\ LET bars == Fetch(j.req, Head(j.tfs), j.got)
       IN  job' = IF bars # {} THEN {[j EXCEPT !.bars = bars, !.left = {Month(ts) : ts \in bars}]}
                  ELSE IF j.req.source = "histdata" THEN Done(j) ELSE {}
    /\ UNCHANGED <<files, manifests, now, jobs>>

KeyAt(j, month) == <<RootOf(j.req.source), Head(j.tfs), month>>
FileOf(j, month) ==
  [bars |-> {ts \in j.bars : Month(ts) = month}, source |-> j.req.source, torn |-> FALSE]
Torn(j) == [bars |-> {}, source |-> j.req.source, torn |-> TRUE]
With(f, key, value) == [k \in DOMAIN f \cup {key} |-> IF k = key THEN value ELSE f[k]]

\* write_forex_partitioned: the months in order, each file replaced as a whole.
WritePartition ==
  \E j \in job :
    /\ j.left # {}
    /\ LET month == Min(j.left)
       IN  /\ files' = With(files, KeyAt(j, month), FileOf(j, month))
           /\ job' = {[j EXCEPT !.left = @ \ {month}]}
    /\ UNCHANGED <<manifests, now, jobs>>

WriteManifestEarly ==
  \E j \in job :
    /\ j.bars # {}
    /\ manifests' = With(manifests, j.req.source, [tf |-> Head(j.tfs), bars |-> j.bars])
    /\ job' = Done(j)
    /\ UNCHANGED <<files, now, jobs>>
WriteManifest ==
  \E j \in job :
    /\ j.bars # {} /\ j.left = {}
    /\ manifests' = With(manifests, j.req.source, [tf |-> Head(j.tfs), bars |-> j.bars])
    /\ job' = Done(j)
    /\ UNCHANGED <<files, now, jobs>>

\* The script is stopped, between two files or in the middle of one.
Killed ==
  \E j \in job :
    /\ job' = {}
    /\ \/ files' = files
       \/ /\ j.left # {}
          /\ files' = With(files, KeyAt(j, Min(j.left)), Torn(j))
    /\ UNCHANGED <<manifests, now, jobs>>

TimePasses ==
  /\ now < Horizon - 1 /\ now' = now + 1
  /\ UNCHANGED <<files, manifests, job, jobs>>

LakeNext ==
  \/ StartIngest \/ StartBackfill \/ StartHistData
  \/ FetchBars \/ WritePartition \/ WriteManifest \/ Killed \/ TimePasses

-----------------------------------------------------------------------------
\* ForexDataLake: the files whose month a range reaches, then the bars in range.
\* One unreadable file among them makes the whole call fail.
CollectFilesBefore(root, tf, from, to) ==
  {k \in DOMAIN files : k[1] = root /\ k[2] = tf /\ Month(from) <= k[3] /\ k[3] < Month(to)}
CollectFiles(root, tf, from, to) ==
  {k \in DOMAIN files : k[1] = root /\ k[2] = tf /\ Month(from) <= k[3] /\ k[3] <= Month(to)}

Readable(keys) == \A k \in keys : ~files[k].torn

InOrder(bars) ==
  [i \in 1 .. Cardinality(bars) |->
     CHOOSE ts \in bars : Cardinality({x \in bars : x <= ts}) = i]
Query(root, tf, from, to) ==
  InOrder({ts \in UNION {files[k].bars : k \in CollectFiles(root, tf, from, to)} :
             from <= ts /\ ts < to})

AllKeys(root, tf) == {k \in DOMAIN files : k[1] = root /\ k[2] = tf}
AllBars(root, tf) == UNION {files[k].bars : k \in AllKeys(root, tf)}

\* The first and the last bar there is, or none.
AvailableRange(root, tf) ==
  IF AllBars(root, tf) = {} THEN {} ELSE {<<Min(AllBars(root, tf)), Max(AllBars(root, tf))>>}

RowCount(root, tf) == FoldSet(LAMBDA k, n : n + Cardinality(files[k].bars), 0, AllKeys(root, tf))

\* detect_patterns without a date: the last bars of the lake, the newest included.
PatternWindow(root, tf, lookback) ==
  LET end == (CHOOSE r \in AvailableRange(root, tf) : TRUE)[2] + 1
  IN  Query(root, tf, Max({0, end - lookback}), end)

\* The simulated terminal asks for the bars up to the last one, which a half-open
\* query leaves out: its price is that of the bar before.
MockTick(root, tf) ==
  UNION {LET bars == Query(root, tf, r[1], r[2])
         IN  IF bars = <<>> THEN {} ELSE {Last(bars)} : r \in AvailableRange(root, tf)}

-----------------------------------------------------------------------------
\* Properties.

\* query: by name of file it leaves out the months that a range does not reach, and
\* no bar of the range with them, whatever backfills wrote, overwrote or left half
\* done; a bar comes once, and in order.  The window that detection is given is the
\* last stretch of the lake with its newest bar, which the simulated terminal never sees,
\* and a bar is counted in one file only.
QueryIsComplete ==
  \A root \in Roots, tf \in Timeframes :
    /\ \A from \in Times, to \in 1 .. Horizon :
         from < to /\ Readable(CollectFiles(root, tf, from, to)) =>
           LET got == Query(root, tf, from, to)
           IN  /\ Range(got) = {ts \in AllBars(root, tf) : from <= ts /\ ts < to}
               /\ Len(got) = Cardinality(Range(got)) /\ \A i, j \in DOMAIN got : i < j => got[i] < got[j]
    /\ \A r \in AvailableRange(root, tf), lookback \in 1 .. PerMonth :
         Readable(AllKeys(root, tf)) =>
           /\ Last(PatternWindow(root, tf, lookback)) = r[2] /\ r[2] \notin MockTick(root, tf)
           /\ RowCount(root, tf) = Cardinality(AllBars(root, tf))

\* write_forex_partitioned replaces whole files: a run of the same source, killed at
\* any point or not, loses bars that were in the lake only in the months where its
\* range begins and ends, or in the one file it was killed in.
OnlyEdgesLoseBars ==
  [][\A k \in DOMAIN files, j \in job :
       /\ files[k].source = j.req.source /\ files'[k].source = j.req.source
       /\ ~files'[k].torn /\ files'[k].bars # files[k].bars
       /\ ~(files[k].bars \subseteq files'[k].bars)
       => k[3] \in {Month(j.req.from), Month(j.req.to)}]_lakeVars

\* build_manifest comes after the writer: a manifest that is written counts bars all
\* of which are in readable files, so a run that was killed leaves none behind that
\* promises more.
ManifestFollowsFiles ==
  [][\A s \in DOMAIN manifests' :
       (s \notin DOMAIN manifests \/ manifests'[s] # manifests[s]) =>
         LET tf   == manifests'[s].tf
             keys == {<<RootOf(s), tf, Month(ts)>> : ts \in manifests'[s].bars}
         IN  /\ keys \subseteq DOMAIN files /\ Readable(keys)
             /\ UNION {files[k].bars : k \in keys} = manifests'[s].bars]_lakeVars
=============================================================================
