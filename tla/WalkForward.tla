----------------------------- MODULE WalkForward -----------------------------
(* The acceptance protocol of a strategy.  A gate script slides a training   *)
(* and a test window over the history, backtests each and compares the       *)
(* pooled result with its criteria; the single-window scripts do one window  *)
(* per process and append its line to a file, which the scans read later.    *)
(* A date is [y, m, d]; what one backtest yields is drawn from Outcomes.     *)
EXTENDS Integers, Sequences, FiniteSets, SequencesExt, Folds

CONSTANTS
  DataStarts, DataEnd,     \* first day of the history, and its last
  Holes,                   \* months of the history without a bar, <<y, m>>
  Outcomes,                \* [returns, trades, wins, profit, loss, dd]
  Periods,                 \* bars per year, for annualising
  Scripts,                 \* the single-window scripts that are run
  MaxLines, MaxNum         \* runs of single windows; numbers they are given

VARIABLES
  gate,          \* the gate script that runs
  dataStart, windowStart, num,
  results,       \* of the gate: [num, train, test, out]
  verdict,
  lines          \* JSONL of the single-window scripts, each with its file

walkVars == <<gate, dataStart, windowStart, num, results, verdict, lines>>

-----------------------------------------------------------------------------
\* The calendar.
Leap(y) == y % 4 = 0 /\ (y % 100 # 0 \/ y % 400 = 0)
MonthDays(y, m) == CASE m = 2 -> IF Leap(y) THEN 29 ELSE 28
                     [] m \in {4, 6, 9, 11} -> 30
                     [] OTHER -> 31

AddMonths(dt, months) ==
  LET month == dt.m - 1 + months
      y == dt.y + month \div 12
      m == (month % 12) + 1
      cap == MonthDays(y, m)
  IN  [y |-> y, m |-> m, d |-> IF dt.d < cap THEN dt.d ELSE cap]

\* Increasing with the date.
DateNum(dt) == 372 * dt.y + 31 * (dt.m - 1) + (dt.d - 1)

TrainMonths == 12
TestMonths == 3
StepMonths == 3

Train(start) == <<start, AddMonths(start, TrainMonths)>>
TestTooLong(start) == <<Train(start)[2], AddMonths(Train(start)[2], TestMonths + 1)>>
Test(start) == <<Train(start)[2], AddMonths(Train(start)[2], TestMonths)>>

\* lake.query takes the bars from the first date to before the second.
HasBars(span) ==
  \E n \in DateNum(span[1]) .. DateNum(span[2]) - 1 :
    <<n \div 372, (n % 372) \div 31 + 1>> \notin Holes

-----------------------------------------------------------------------------
\* Pooled figures.  A ratio is compared by cross multiplication.
Total(s, Value(_)) == FoldLeft(LAMBDA acc, x : acc + Value(x), 0, s)
Squares(s) == Total(s, LAMBDA x : x * x)

\* The annualised Sharpe ratio of the returns is over halves / 2.
SharpeOver(s, halves) ==
  LET n == Len(s)
      sum == Total(s, LAMBDA x : x)
      spread == n * Squares(s) - sum * sum
  IN  /\ n >= 2 /\ spread > 0 /\ sum > 0
      /\ 4 * sum * sum * Periods * (n - 1) > halves * halves * n * spread

Pooled(rs) == FoldLeft(LAMBDA acc, r : acc \o r.out.returns, <<>>, rs)
Positive(rs) == Cardinality({i \in DOMAIN rs : SharpeOver(rs[i].out.returns, 0)})
Sum(rs, Value(_)) == Total(rs, LAMBDA r : Value(r.out))

\* More than a / b of the windows, of the loss, of the trades.
Consistency(rs, a, b) == rs # <<>> /\ b * Positive(rs) > a * Len(rs)
ProfitFactor(rs, a, b) == b * Sum(rs, LAMBDA o : o.profit) > a * Sum(rs, LAMBDA o : o.loss)
                          \/ Sum(rs, LAMBDA o : o.loss) = 0
WinShare(rs, a, b) == LET n == Sum(rs, LAMBDA o : o.trades)
                      IN  n > 0 /\ b * Sum(rs, LAMBDA o : o.wins) > a * n
AtLeast(rs, n) == Sum(rs, LAMBDA o : o.trades) >= n
Shallow(rs) == \A i \in DOMAIN rs : rs[i].out.dd < 20

Full(rs) == /\ SharpeOver(Pooled(rs), 1) /\ Consistency(rs, 60, 100) /\ AtLeast(rs, 100)
            /\ Shallow(rs) /\ ProfitFactor(rs, 12, 10)
Minimal(rs) == /\ SharpeOver(Pooled(rs), 0) /\ Consistency(rs, 40, 100) /\ AtLeast(rs, 50)
               /\ Shallow(rs) /\ ProfitFactor(rs, 1, 1)

\* Versions 2 to 4 have a second, lower bar, and a criterion on the win rate.
VerdictV1(rs) == IF Full(rs) THEN "PASS" ELSE "FAIL"
Graded(rs) == IF Full(rs) /\ WinShare(rs, 35, 100) THEN "PASS"
              ELSE IF Minimal(rs) /\ WinShare(rs, 30, 100) THEN "MIN-PASS" ELSE "FAIL"
VerdictV2(rs) == Graded(rs)
VerdictV3(rs) == Graded(rs)
VerdictV4(rs) == Graded(rs)

Verdict(rs) == CASE gate = "v1" -> VerdictV1(rs) [] gate = "v2" -> VerdictV2(rs)
                 [] gate = "v3" -> VerdictV3(rs) [] gate = "v4" -> VerdictV4(rs)

-----------------------------------------------------------------------------
WalkInit ==
  /\ gate \in {"v1", "v2", "v3", "v4"} /\ dataStart \in DataStarts
  /\ windowStart = dataStart /\ num = 0 /\ results = <<>>
  /\ verdict = "none" /\ lines = <<>>

\* Versions 2 and 3 first import a constant that the entry trigger no longer has.
VerifySprintParams == gate \notin {"v2", "v3"}

Abort ==
  /\ verdict = "none" /\ ~VerifySprintParams
  /\ verdict' = "aborted"
  /\ UNCHANGED <<gate, dataStart, windowStart, num, results, lines>>

AnotherWindow == DateNum(Test(windowStart)[2]) <= DateNum(DataEnd)

\* One turn of the loop; a window without training or test bars is skipped.
Walk ==
  /\ verdict = "none" /\ VerifySprintParams /\ AnotherWindow
  /\ IF HasBars(Train(windowStart)) /\ HasBars(Test(windowStart))
     THEN \E out \in Outcomes :
            results' = Append(results, [num |-> num + 1, train |-> Train(windowStart),
                                        test |-> Test(windowStart), out |-> out])
     ELSE results' = results
  /\ num' = num + 1 /\ windowStart' = AddMonths(windowStart, StepMonths)
  /\ UNCHANGED <<gate, dataStart, verdict, lines>>

Judge ==
  /\ verdict = "none" /\ VerifySprintParams /\ ~AnotherWindow
  /\ verdict' = Verdict(results)
  /\ UNCHANGED <<gate, dataStart, windowStart, num, results, lines>>

-----------------------------------------------------------------------------
\* A single-window script: it goes to its window, which it neither checks to lie
\* within the history nor to have training bars, and appends one line.
StartOfNext(n) == FoldLeft(LAMBDA start, i : AddMonths(start, StepMonths), dataStart,
                           [i \in 1 .. n |-> i])
StartOf(n) == FoldLeft(LAMBDA start, i : AddMonths(start, StepMonths), dataStart,
                       [i \in 1 .. n - 1 |-> i])

\* A script has a file per version; from 5 on it refuses numbers outside 1 .. 15,
\* and versions 5 to 7 note beside the result whether the code has the features of their
\* sprint (some are named here), whatever the answer.
Single(versions, bounded, notes) ==
  [versions |-> versions, bounded |-> bounded, notes |-> notes]

SingleV3 == Single({"v3"}, FALSE, {})
SingleV4 == Single({"v4"}, FALSE, {})
SingleV5 == Single({"v5"}, TRUE, {"atr_adaptive_sl", "regime_thresholds_tuned", "confluence_rebalanced"})
SingleV6 == Single({"v6"}, TRUE, {"ob_test_rejection_disabled", "zone_anti_clustering"})
SingleV7 == Single({"v7"}, TRUE, {"classify_has_cache", "trend_up_long_only"})
SingleV8 == Single({"v8 v1", "v8 v2"}, TRUE, {})
SingleV9 == Single({"v9 v1", "v9 v3"}, TRUE, {})
SingleV10 == Single({"v10 v1", "v10 v1_1"}, TRUE, {})

AllScripts == {SingleV3, SingleV4, SingleV5, SingleV6, SingleV7, SingleV8, SingleV9, SingleV10}

ASSUME WalkAssumption == Scripts \subseteq AllScripts /\ {MaxLines, MaxNum} \subseteq Nat

RunSingleWindow(script, n) ==
  /\ Len(lines) < MaxLines /\ (script.bounded => n \in 1 .. 15)
  /\ LET start == StartOf(n)
     IN  \E version \in script.versions, out \in Outcomes :
           lines' = Append(lines, [file |-> version, num |-> n, train |-> Train(start),
                                   test |-> Test(start), error |-> ~HasBars(Test(start)),
                                   notes |-> script.notes, out |-> out])
  /\ UNCHANGED <<gate, dataStart, windowStart, num, results, verdict>>

WalkNext ==
  \/ Abort \/ Walk \/ Judge
  \/ \E script \in Scripts, n \in 0 .. MaxNum : RunSingleWindow(script, n)

-----------------------------------------------------------------------------
\* The walk-forward loop of every gate script: no day is tested twice, no test
\* begins before its own training has ended, and between two windows without holes
\* no day is left untested, although each date is moved by clipped months: for a history
\* that begins by the 28th of a month.  (From 30 November 2018 on, 28 February 2020 is
\* tested twice: the window before ends a year and three months on, on the 29th, and the
\* next begins a year after the clipped 28 February 2019.)
TestedOnce ==
  \A i, j \in DOMAIN results :
    /\ results[i].train[2] = results[i].test[1]
    /\ i < j => DateNum(results[i].test[2]) <= DateNum(results[j].test[1])
    /\ results[j].num = results[i].num + 1 => results[i].test[2] = results[j].test[1]

\* run_single_window and the loop of the gates count the windows from the same
\* history: under one number they train and test on the same days.
SingleMatchesGate ==
  \A r \in Range(results), l \in Range(lines) :
    r.num = l.num => r.train = l.train /\ r.test = l.test /\ ~l.error

=============================================================================
