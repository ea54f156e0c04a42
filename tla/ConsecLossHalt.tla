--------------------------- MODULE ConsecLossHalt ---------------------------
(***************************************************************************)
(* src/smc/risk/consec_loss_halt.py: the consecutive-loss daily halt ("three *)
(* losing trades in a row stop trading for the rest of the UTC day"), with  *)
(* its JSON file, the process that holds it in memory, and the restarts it  *)
(* has to survive.                                                          *)
(*                                                                          *)
(* Path.write_text truncates the file and then fills it, so every save is   *)
(* two steps here; a process that dies between them (TornWrites) leaves the *)
(* old file or an unparseable one.  A daily reset followed by a record      *)
(* saves twice; the first content, a fresh state, is what an unparseable    *)
(* file loads as, and is not kept apart.                                    *)
(***************************************************************************)
EXTENDS Integers, Sequences, LosingRun

CONSTANTS Pnls,            \* realised P&L of a closed trade, whole dollars
          TornWrites,      \* may the process die inside _save_state?
          MaxDay,          \* bound: last UTC day explored
          MaxTrades,       \* bound: closed trades per day
          MaxResets        \* bound: manual resets by the operator

ASSUME PnlsAssumption == Pnls \subseteq Int
ASSUME SwitchesAssumption == TornWrites \in BOOLEAN
ASSUME BoundsAssumption == MaxDay \in Nat /\ MaxTrades \in Nat /\ MaxResets \in Nat

VARIABLES today,     \* UTC date
          up,        \* the process runs
          mem,       \* self._state of the running process
          readable,  \* consec_loss_state.json exists and parses
          file,      \* its content when readable
          saving,    \* _save_state is under way
          resets,    \* history: manual resets
          trades     \* history: P&L of every trade recorded today

vars == <<today, up, mem, readable, file, saving, resets, trades>>

\* tripped exactly when the streak has reached the limit
State == {s \in [consec_losses : 0..ConsecLimit, tripped : BOOLEAN, last_reset_date : Nat] :
            s.tripped <=> s.consec_losses = ConsecLimit}

Fresh(d) == [consec_losses |-> 0, tripped |-> FALSE, last_reset_date |-> d]

\* _apply_daily_reset_if_needed
Rolled(s, d) == IF s.last_reset_date # d THEN Fresh(d) ELSE s

RecordedKeepsStreak(s, pnl) ==
  LET streak == IF pnl < 0 THEN s.consec_losses + 1 ELSE s.consec_losses
  IN  IF s.tripped THEN s
      ELSE [s EXCEPT !.consec_losses = streak, !.tripped = streak >= ConsecLimit]

\* record(), after the daily reset: a loss lengthens the streak, a win or a
\* break-even ends it, and a tripped halt ignores both.
Recorded(s, pnl) ==
  LET streak == IF pnl < 0 THEN s.consec_losses + 1 ELSE 0
  IN  IF s.tripped THEN s
      ELSE [s EXCEPT !.consec_losses = streak, !.tripped = streak >= ConsecLimit]

LoadedFresh(d) == Fresh(d)

\* _load_state: a missing or unparseable file yields a fresh state
Loaded(d) == IF readable THEN file ELSE Fresh(d)

Init ==
  /\ today = 0
  /\ up = FALSE /\ mem = Fresh(0)
  /\ readable = FALSE /\ file = Fresh(0)
  /\ saving = FALSE
  /\ resets = 0 /\ trades = <<>>

\* __init__ of a starting process
Start ==
  /\ ~up
  /\ up' = TRUE
  /\ mem' = Loaded(today)
  /\ UNCHANGED <<today, readable, file, saving, resets, trades>>

BeginSave == saving' = TRUE /\ UNCHANGED <<readable, file>>

\* is_tripped() and snapshot(): they save when the date has changed
IsTripped ==
  /\ up /\ ~saving
  /\ mem.last_reset_date # today
  /\ mem' = Rolled(mem, today)
  /\ BeginSave
  /\ UNCHANGED <<today, up, resets, trades>>

\* record(pnl_usd)
Record(pnl) ==
  /\ up /\ ~saving
  /\ Len(trades) < MaxTrades
  /\ mem' = Recorded(Rolled(mem, today), pnl)
  /\ trades' = Append(trades, pnl)
  /\ IF Rolled(mem, today).tripped
     THEN UNCHANGED <<readable, file, saving>>
     ELSE BeginSave
  /\ UNCHANGED <<today, up, resets>>

\* reset(): manual override, from a console attached to the running process
Reset ==
  /\ resets < MaxResets
  /\ resets' = resets + 1
  /\ up /\ ~saving
  /\ mem' = Fresh(today)
  /\ trades' = <<>>
  /\ BeginSave
  /\ UNCHANGED <<today, up>>

SaveDone ==
  /\ saving
  /\ saving' = FALSE
  /\ readable' = TRUE
  /\ file' = mem
  /\ UNCHANGED <<today, up, mem, resets, trades>>

\* The process stops or is killed.
Crash ==
  /\ up
  /\ saving => TornWrites
  /\ up' = FALSE
  /\ saving' = FALSE
  /\ readable' \in IF saving THEN {readable, FALSE} ELSE {readable}
  /\ UNCHANGED <<today, mem, file, resets, trades>>

\* The UTC date changes.
Midnight ==
  /\ today < MaxDay
  /\ today' = today + 1
  /\ trades' = <<>>
  /\ UNCHANGED <<up, mem, readable, file, saving, resets>>

Next ==
  \/ Start
  \/ IsTripped
  \/ \E pnl \in Pnls : Record(pnl)
  \/ Reset
  \/ SaveDone
  \/ Crash
  \/ Midnight

Spec == Init /\ [][Next]_vars

-----------------------------------------------------------------------------
(* Properties *)

\* The decision the halt gives, or would give after a restart: is_tripped()
Effective == Rolled(IF up THEN mem ELSE Loaded(today), today)
Tripped == Effective.tripped

\* The variables hold values of their types; the halt trips at the limit and not before.
TypeOK ==
  /\ today \in Nat /\ resets \in Nat
  /\ up \in BOOLEAN /\ readable \in BOOLEAN /\ saving \in BOOLEAN
  /\ mem \in State /\ file \in State
  /\ trades \in Seq(Int)

\* consec_loss_halt.py:4: the halt is active exactly when ConsecLimit trades
\* recorded today lost in a row, however often the process restarted between
\* them and whatever yesterday's state was.
TrippedIffLosingRun == Tripped <=> HasLosingRun(trades)

\* consec_loss_halt.py:12: "the halt survives process restarts" - until 00:00 or a
\* manual reset, no record, save, crash or start lifts a tripped halt.  It does not
\* hold of a process that dies inside the save of the halt (TornWrites).
HaltSurvives == [][Tripped /\ UNCHANGED <<today, resets>> => Tripped']_vars

Latch == INSTANCE DailyLatch WITH halted <- Tripped, day <- today + resets
\* The halt is a daily latch: it trips at most once per trading day and only
\* the change of date or a manual reset lifts it.
ImplementsDailyLatch == Latch!LatchSpec
=============================================================================
