--------------------------- MODULE DealReconcile ----------------------------
(***************************************************************************)
(* scripts/live_demo.py: how closed deals reach the risk halts.  Every M15  *)
(* cycle of one leg checks the halts, trades, and then reconciles: it asks  *)
(* the broker for the deals closed since the cursor, books each of them     *)
(* into the consecutive-loss halt, the Phase 1a breaker and daily_pnl, and  *)
(* moves the cursor to the START of the cycle.  The cursor is persisted;    *)
(* daily_pnl and the drawdown guard's peak live in memory.                  *)
(*                                                                          *)
(* Time is the order of events: the time of a deal is its position in       *)
(* "deals", and "now" is Len(deals).  (Two events within the second that is *)
(* the broker's resolution are not kept apart from ordered ones.)  The two  *)
(* halts stand here as the list of what was booked into them, which is      *)
(* durable: ConsecLossHalt shows that the halt decides HasLosingRun of it.  *)
(***************************************************************************)
EXTENDS Integers, Sequences, FiniteSets, FiniteSetsExt, SequencesExt, LosingRun

CONSTANTS Pnls,              \* cash P&L of a deal, whole dollars
          StartBalance,      \* account balance on the first day
          MaxDailyLossPct,   \* DrawdownGuard(max_daily_loss_pct)
          MaxDrawdownPct,    \* DrawdownGuard(max_drawdown_pct)
          DealsDuringCycle,  \* may a position close between "now" and the fetch?
          Interruptions,     \* may a reconcile be cut short, or its cursor not be saved?
          FetchMayFail,      \* may history_deals_get fail?
          InfoMayFail,       \* may account_info() return None at the end of a reconcile?
          LongOutages,       \* may the process be down longer than the cursor's lookback?
          MaxDeals,          \* bound: closed deals
          MaxDay,            \* bound: last UTC day explored
          MaxFaults          \* bound: crashes, aborted reconciles, failed saves and probes

ASSUME PnlsAssumption == Pnls \subseteq Int
ASSUME AccountAssumption ==
  /\ StartBalance \in Int
  /\ MaxDailyLossPct \in Nat \ {0}
  /\ MaxDrawdownPct \in Nat \ {0}
ASSUME SwitchesAssumption ==
  {DealsDuringCycle, Interruptions, FetchMayFail, InfoMayFail, LongOutages}
    \subseteq BOOLEAN
ASSUME BoundsAssumption == MaxDeals \in Nat /\ MaxDay \in Nat /\ MaxFaults \in Nat

Halts == {"consec", "breaker"}   \* what a reconcile books deals into, in this order

VARIABLES day,         \* UTC date
          paused,      \* trading_paused.flag exists
          deals,       \* closed deals that carry this leg's magic
          balance,     \* account balance at the broker
          pc,          \* where the process is
          cycleStart,  \* "now" of the running cycle
          cursor,      \* last_reconcile_ts
          saved,       \* last_reconcile_ts.json exists
          cursorFile,  \* its content
          next,        \* reconcile: the deal to book next ...
          last,        \* ... and the last one of the fetched window
          dailyPnl,    \* daily_pnl
          info,        \* info.balance, as last probed
          infoKnown,   \* info is not None
          peak,        \* peak_balance
          peakDay,     \* peak_balance_reset_date
          booked,      \* history: what was booked into each halt, and on which day
          faults       \* counts what MaxFaults bounds

procVars == <<cycleStart, cursor, next, last, dailyPnl, info, infoKnown, peak, peakDay>>
vars == <<day, paused, deals, balance, pc, saved, cursorFile, booked, faults, procVars>>

\* during: closed after the "now" of a cycle and before its fetch
Deal == [pnl : Int, during : BOOLEAN]
Entry == [deal : Nat \ {0}, day : Nat]
States == {"down", "idle", "body", "consec", "breaker", "cursor"}

Init ==
  /\ day = 0 /\ paused = FALSE /\ deals = <<>> /\ balance = StartBalance
  /\ pc = "down"
  /\ saved = FALSE /\ cursorFile = 0
  /\ cycleStart = 0 /\ cursor = 0 /\ next = 1 /\ last = 0
  /\ dailyPnl = 0 /\ info = StartBalance /\ infoKnown = TRUE
  /\ peak = StartBalance /\ peakDay = 0
  /\ booked = [h \in Halts |-> <<>>]
  /\ faults = 0

-----------------------------------------------------------------------------
(* The broker and the calendar *)

\* The broker closes a position: stop, target or manual.
DealCloses(pnl) ==
  /\ Len(deals) < MaxDeals
  /\ pc = "body" => DealsDuringCycle
  /\ deals' = Append(deals, [pnl |-> pnl, during |-> pc = "body"])
  /\ balance' = balance + pnl
  /\ UNCHANGED <<day, paused, pc, saved, cursorFile, booked, faults, procVars>>

Midnight ==
  /\ day < MaxDay
  /\ day' = day + 1
  /\ UNCHANGED <<paused, deals, balance, pc, saved, cursorFile, booked, faults, procVars>>

\* The operator sets the pause flag, or removes it.
TogglePause ==
  /\ paused' = ~paused
  /\ UNCHANGED <<day, deals, balance, pc, saved, cursorFile, booked, faults, procVars>>

-----------------------------------------------------------------------------
(* Start and end of the process *)

LoadedAtNow == {Len(deals)}

\* load_reconcile_cursor: the saved cursor; without a file, an hour ago, which
\* is before the first deal unless the process was away for longer; after
\* seven days, seven days ago.
LoadedCursors ==
  IF LongOutages THEN (IF saved THEN cursorFile ELSE 0)..Len(deals)
  ELSE {IF saved THEN cursorFile ELSE 0}

Start ==
  /\ pc = "down"
  /\ pc' = "idle"
  /\ cursor' \in LoadedCursors
  /\ dailyPnl' = 0
  /\ info' = balance /\ infoKnown' = TRUE
  /\ peak' = balance /\ peakDay' = day
  /\ UNCHANGED <<day, paused, deals, balance, saved, cursorFile, booked, faults, cycleStart, next, last>>

\* The process is gone, and its variables with it.
Exit ==
  /\ pc' = "down"
  /\ cycleStart' = 0 /\ cursor' = 0 /\ next' = 1 /\ last' = 0
  /\ dailyPnl' = 0 /\ info' = StartBalance /\ infoKnown' = TRUE
  /\ peak' = StartBalance /\ peakDay' = 0

InReconcile == pc \in {"consec", "breaker", "cursor"}

Fault == faults < MaxFaults /\ faults' = faults + 1

\* Killed, or exited by the handle watchdog; Task Scheduler starts it again.
Crash ==
  /\ pc # "down"
  /\ InReconcile => Interruptions
  /\ Fault
  /\ Exit
  /\ UNCHANGED <<day, paused, deals, balance, saved, cursorFile, booked>>

-----------------------------------------------------------------------------
(* The head of a cycle: daily peak reset and halts *)

BookedToday(h) == SelectSeq(booked[h], LAMBDA e : e.day = day)
PnlsToday(h) == [i \in 1..Len(BookedToday(h)) |-> deals[BookedToday(h)[i].deal].pnl]

\* consec_halt.is_tripped()
HaltTripped == HasLosingRun(PnlsToday("consec"))

\* DrawdownGuard, daily_loss_pct >= max_daily_loss_pct, for a loss l (negative)
DailyLossBlocks(l) == l < 0 /\ -100 * l >= MaxDailyLossPct * info

\* DrawdownGuard.check_budget: not can_trade, given peak_balance p
DrawdownBlocks(p) ==
  LET top == Max({p, info})
  IN  \/ info <= 0
      \/ 100 * (top - info) >= MaxDrawdownPct * top
      \/ DailyLossBlocks(dailyPnl)

\* peak_balance after the daily reset: kept within the day, and when the probe fails
PeakChoices == IF peakDay # day THEN {balance, peak} ELSE {peak}

\* Wait for the bar, reset the peak; the cycle then runs with "now" and that peak.
CycleHead ==
  /\ pc = "idle"
  /\ peak' \in PeakChoices
  /\ peakDay' = day
  /\ cycleStart' = Len(deals)

\* The kill switch, the consecutive-loss halt or the drawdown guard: publish
\* HOLD and skip the rest of the cycle, reconcile included.
HaltedCycle ==
  /\ CycleHead
  /\ paused \/ HaltTripped \/ (infoKnown /\ DrawdownBlocks(peak'))
  /\ UNCHANGED <<day, paused, deals, balance, pc, saved, cursorFile, booked, faults,
                 cursor, next, last, dailyPnl, info, infoKnown>>

\* float(info.balance) of a None raises outside the try: the process ends.
DoomedCycle ==
  /\ pc = "idle"
  /\ ~paused /\ ~HaltTripped /\ ~infoKnown
  /\ Exit
  /\ UNCHANGED <<day, paused, deals, balance, saved, cursorFile, booked, faults>>

TradingCycle ==
  /\ CycleHead
  /\ ~paused /\ ~HaltTripped /\ infoKnown /\ ~DrawdownBlocks(peak')
  /\ pc' = "body"
  /\ UNCHANGED <<day, paused, deals, balance, saved, cursorFile, booked, faults,
                 cursor, next, last, dailyPnl, info, infoKnown>>

\* No tick, or an exception in the strategy: the cycle ends before the reconcile.
FailCycle ==
  /\ pc = "body"
  /\ pc' = "idle"
  /\ UNCHANGED <<day, paused, deals, balance, saved, cursorFile, booked, faults, procVars>>

-----------------------------------------------------------------------------
(* The reconcile *)

FetchWholeHistory ==
  /\ pc = "body"
  /\ pc' = "consec"
  /\ next' = 1
  /\ last' = Len(deals)
  /\ UNCHANGED <<day, paused, deals, balance, saved, cursorFile, booked, faults,
                 cycleStart, cursor, dailyPnl, info, infoKnown, peak, peakDay>>

\* fetch_closed_pnl_since(last_reconcile_ts): the deals closed up to the moment
\* of the call; a failing call answers [].
Fetch ==
  /\ pc = "body"
  /\ pc' = "consec"
  /\ next' = cursor + 1
  /\ last' \in {Len(deals)} \cup (IF FetchMayFail THEN {cursor} ELSE {})
  /\ UNCHANGED <<day, paused, deals, balance, saved, cursorFile, booked, faults,
                 cycleStart, cursor, dailyPnl, info, infoKnown, peak, peakDay>>

Book(h) == booked' = [booked EXCEPT ![h] = Append(@, [deal |-> next, day |-> day])]

\* daily_pnl += pnl; consec_halt.record(pnl)
BookConsec ==
  /\ pc = "consec" /\ next <= last
  /\ dailyPnl' = dailyPnl + deals[next].pnl
  /\ Book("consec")
  /\ pc' = "breaker"
  /\ UNCHANGED <<day, paused, deals, balance, saved, cursorFile, faults,
                 cycleStart, cursor, next, last, info, infoKnown, peak, peakDay>>

\* phase1a_breaker.record_trade_close(pnl), then the trade_closed alert
BookBreaker ==
  /\ pc = "breaker"
  /\ Book("breaker")
  /\ next' = next + 1
  /\ pc' = "consec"
  /\ UNCHANGED <<day, paused, deals, balance, saved, cursorFile, faults,
                 cycleStart, cursor, last, dailyPnl, info, infoKnown, peak, peakDay>>

\* info = mt5.account_info(); peak_balance = max(...): None leaves the peak alone
ProbeAccount ==
  \/ /\ info' = balance /\ infoKnown' = TRUE
     /\ peak' = Max({peak, balance})
     /\ UNCHANGED faults
  \/ /\ InfoMayFail /\ Fault
     /\ infoKnown' = FALSE
     /\ UNCHANGED <<info, peak>>

FinishAtNow ==
  /\ pc = "consec" /\ next > last
  /\ ProbeAccount
  /\ cursor' = Len(deals)
  /\ pc' = "cursor"
  /\ UNCHANGED <<day, paused, deals, balance, saved, cursorFile, booked,
                 cycleStart, next, last, dailyPnl, peakDay>>

\* Every fetched deal is booked: probe the account, last_reconcile_ts = now.
Finish ==
  /\ pc = "consec" /\ next > last
  /\ ProbeAccount
  /\ cursor' = cycleStart
  /\ pc' = "cursor"
  /\ UNCHANGED <<day, paused, deals, balance, saved, cursorFile, booked,
                 cycleStart, next, last, dailyPnl, peakDay>>

\* save_reconcile_cursor: tmp + rename; a failing write is logged only.
SaveCursor ==
  /\ pc = "cursor"
  /\ \/ saved' = TRUE /\ cursorFile' = cursor /\ UNCHANGED faults
     \/ Interruptions /\ Fault /\ UNCHANGED <<saved, cursorFile>>
  /\ pc' = "idle"
  /\ UNCHANGED <<day, paused, deals, balance, booked, procVars>>

\* An exception while booking (a state file that cannot be written):
\* "reconcile_failed" is logged and the cursor stays where it was.
AbortReconcile ==
  /\ pc \in {"consec", "breaker"}
  /\ Interruptions /\ Fault
  /\ pc' = "idle"
  /\ UNCHANGED <<day, paused, deals, balance, saved, cursorFile, booked, procVars>>

-----------------------------------------------------------------------------
Next ==
  \/ \E pnl \in Pnls : DealCloses(pnl)
  \/ Midnight
  \/ TogglePause
  \/ Start
  \/ Crash
  \/ HaltedCycle
  \/ DoomedCycle
  \/ TradingCycle
  \/ FailCycle
  \/ Fetch
  \/ BookConsec
  \/ BookBreaker
  \/ Finish
  \/ SaveCursor
  \/ AbortReconcile

Spec == Init /\ [][Next]_vars

\* Task Scheduler restarts the process, the bar timer and the calendar run, a
\* started reconcile goes on, and the strategy does not fail for ever.  Nothing is
\* assumed of the operator, who may leave the flag where it is.
Fairness ==
  /\ WF_vars(Midnight)
  /\ WF_vars(Start)
  /\ WF_vars(HaltedCycle) /\ WF_vars(DoomedCycle) /\ WF_vars(TradingCycle)
  /\ SF_vars(Fetch)
  /\ WF_vars(BookConsec) /\ WF_vars(BookBreaker) /\ WF_vars(Finish) /\ WF_vars(SaveCursor)

FairSpec == Spec /\ Fairness

-----------------------------------------------------------------------------
(* Properties *)

\* The variables hold values of their types, and a window only reaches deals
\* that have closed.
TypeOK ==
  /\ day \in Nat /\ paused \in BOOLEAN /\ deals \in Seq(Deal) /\ balance \in Int
  /\ pc \in States
  /\ saved \in BOOLEAN /\ cursorFile \in 0..Len(deals)
  /\ cycleStart \in 0..Len(deals) /\ cursor \in 0..Len(deals)
  /\ next \in 1..(Len(deals) + 1) /\ last \in 0..Len(deals)
  /\ dailyPnl \in Int /\ info \in Int /\ infoKnown \in BOOLEAN
  /\ peak \in Int /\ peakDay \in Nat
  /\ booked \in [Halts -> Seq(Entry)]
  /\ faults \in Nat

BookedIn(h, i) == \E k \in 1..Len(booked[h]) : booked[h][k].deal = i

\* The deals a restart would not ask for again, or the running process will not
Passed == IF pc = "down" THEN (IF saved THEN cursorFile ELSE 0) ELSE cursor

\* reconcile_cursor.py:17, "after each successful reconcile": no deal that the
\* cursor has passed, in memory or on disk, is missing from a halt, wherever
\* the process failed.
NothingSkipped == \A h \in Halts, i \in 1..Passed : BookedIn(h, i)

Times(h, i) == Cardinality({k \in 1..Len(booked[h]) : booked[h][k].deal = i})

\* reconcile_cursor.py:9: each of the cumulative halts sees a closed deal once.
\* It does, over halted days and restarts, except for one replay of a deal that
\* closed during a cycle and one for each crash, aborted reconcile or failed save.
CountedOnce ==
  \A h \in Halts, i \in 1..Len(deals) :
    Times(h, i) <= 1 + (IF deals[i].during THEN 1 ELSE 0) + faults

\* What keeps the loop from trading, and with it from the reconcile: the pause flag,
\* the drawdown guard, and the consecutive-loss halt of the last explored day
HeldBack ==
  \/ paused
  \/ infoKnown /\ DrawdownBlocks(peak)
  \/ day = MaxDay /\ HaltTripped

\* live_demo.py:1803, "records closed-trade P&L into the consec-loss halt": every
\* closed deal reaches both halts, through the halt of a day, failures and restarts,
\* unless the loop is held back again and again without end.
EventuallyBooked ==
  \/ []<>HeldBack
  \/ \A i \in 1..MaxDeals : i <= Len(deals) ~> \A h \in Halts : BookedIn(h, i)

\* The loss of the deals that were booked today
LossToday == FoldSeq(LAMBDA x, y : x + y, 0, PnlsToday("consec"))

\* drawdown_guard.py:8, "if today's loss exceeds max_daily_loss_pct of balance,
\* trading is halted for the rest of the day": once a first cycle of the day has run,
\* the daily-loss wire blocks only when the loss of this day reaches the limit.
DailyHaltIsTodays ==
  pc = "idle" /\ peakDay = day /\ infoKnown /\ DailyLossBlocks(dailyPnl)
    => DailyLossBlocks(LossToday)
=============================================================================
