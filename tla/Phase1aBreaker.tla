--------------------------- MODULE Phase1aBreaker ---------------------------
(***************************************************************************)
(* src/smc/strategy/phase1a_circuit_breaker.py: the Asian-session circuit   *)
(* breaker, which trips on the third loss of a UTC day or when the day's    *)
(* P&L reaches the limit, whichever comes first, and is cleared by the next *)
(* UTC day.  Its file, saves, crashes and restarts are as in ConsecLossHalt;*)
(* the counters are cumulative instead of a streak, so a win never undoes a *)
(* loss, but it does buy P&L back.                                          *)
(***************************************************************************)
EXTENDS Integers, Sequences

CONSTANTS LossLimit,             \* _LOSS_LIMIT
          PnlLimit,              \* _PNL_LIMIT_USD, whole dollars, negative
          BreakerPnls,           \* realised P&L of a closed trade, whole dollars
          BreakerTorn,           \* may the process die inside _save_state?
          BreakerMaxDay,         \* bound: last UTC day explored
          BreakerMaxTrades,      \* bound: closed trades per day
          BreakerMaxResets       \* bound: manual resets by the operator

ASSUME LimitsAssumption == LossLimit \in Nat \ {0} /\ PnlLimit \in Int /\ PnlLimit < 0
ASSUME BreakerPnlsAssumption == BreakerPnls \subseteq Int
ASSUME BreakerSwitchesAssumption == BreakerTorn \in BOOLEAN
ASSUME BreakerBoundsAssumption ==
  BreakerMaxDay \in Nat /\ BreakerMaxTrades \in Nat /\ BreakerMaxResets \in Nat

VARIABLES breakerDay,            \* UTC date
          breakerUp,             \* the process runs
          breakerMem,            \* self._state of the running process
          breakerReadable,       \* phase1a_breaker_state.json exists and parses
          breakerFile,           \* its content when readable
          breakerSaving,         \* _save_state is under way
          breakerResets,         \* history: manual resets
          totals                 \* history: today's running totals, one per recorded trade

breakerVars ==
  <<breakerDay, breakerUp, breakerMem, breakerReadable, breakerFile, breakerSaving,
    breakerResets, totals>>

\* tripped exactly when one of the limits is reached
BreakerState ==
  {s \in [losses : 0..LossLimit, pnl_usd : Int, tripped : BOOLEAN, last_reset_date : Nat] :
     s.tripped <=> (s.losses = LossLimit \/ s.pnl_usd <= PnlLimit)}

Totals == [losses : Nat, pnl : Int]

BreakerFresh(d) == [losses |-> 0, pnl_usd |-> 0, tripped |-> FALSE, last_reset_date |-> d]

\* _apply_daily_reset_if_needed
BreakerRolled(s, d) == IF s.last_reset_date # d THEN BreakerFresh(d) ELSE s

BreakerRecordedStrict(s, pnl) ==
  LET losses == s.losses + (IF pnl < 0 THEN 1 ELSE 0)
      total  == s.pnl_usd + pnl
  IN  IF s.tripped THEN s
      ELSE [s EXCEPT !.losses = losses, !.pnl_usd = total,
                     !.tripped = losses >= LossLimit \/ total < PnlLimit]

\* record_trade_close(), after the daily reset
BreakerRecorded(s, pnl) ==
  LET losses == s.losses + (IF pnl < 0 THEN 1 ELSE 0)
      total  == s.pnl_usd + pnl
  IN  IF s.tripped THEN s
      ELSE [s EXCEPT !.losses = losses, !.pnl_usd = total,
                     !.tripped = losses >= LossLimit \/ total <= PnlLimit]

BreakerLoadedFresh(d) == BreakerFresh(d)

\* _load_state: a missing or unparseable file yields a fresh state
BreakerLoaded(d) == IF breakerReadable THEN breakerFile ELSE BreakerFresh(d)

BreakerInit ==
  /\ breakerDay = 0
  /\ breakerUp = FALSE /\ breakerMem = BreakerFresh(0)
  /\ breakerReadable = FALSE /\ breakerFile = BreakerFresh(0)
  /\ breakerSaving = FALSE
  /\ breakerResets = 0 /\ totals = <<>>

\* __init__ of a starting process
BreakerStart ==
  /\ ~breakerUp
  /\ breakerUp' = TRUE
  /\ breakerMem' = BreakerLoaded(breakerDay)
  /\ UNCHANGED <<breakerDay, breakerReadable, breakerFile, breakerSaving, breakerResets, totals>>

BreakerBeginSave == breakerSaving' = TRUE /\ UNCHANGED <<breakerReadable, breakerFile>>

\* is_tripped() and snapshot(): they save when the date has changed
BreakerIsTripped ==
  /\ breakerUp /\ ~breakerSaving
  /\ breakerMem.last_reset_date # breakerDay
  /\ breakerMem' = BreakerRolled(breakerMem, breakerDay)
  /\ BreakerBeginSave
  /\ UNCHANGED <<breakerDay, breakerUp, breakerResets, totals>>

\* The running totals t of a day with one more trade.
WithTrade(t, pnl) ==
  LET prev == IF t = <<>> THEN [losses |-> 0, pnl |-> 0] ELSE t[Len(t)]
  IN  Append(t, [losses |-> prev.losses + (IF pnl < 0 THEN 1 ELSE 0), pnl |-> prev.pnl + pnl])

\* record_trade_close(pnl_usd)
RecordTradeClose(pnl) ==
  /\ breakerUp /\ ~breakerSaving
  /\ Len(totals) < BreakerMaxTrades
  /\ breakerMem' = BreakerRecorded(BreakerRolled(breakerMem, breakerDay), pnl)
  /\ totals' = WithTrade(totals, pnl)
  /\ IF BreakerRolled(breakerMem, breakerDay).tripped
     THEN UNCHANGED <<breakerReadable, breakerFile, breakerSaving>>
     ELSE BreakerBeginSave
  /\ UNCHANGED <<breakerDay, breakerUp, breakerResets>>

\* reset(): manual override, from a console attached to the running process
BreakerReset ==
  /\ breakerResets < BreakerMaxResets
  /\ breakerResets' = breakerResets + 1
  /\ breakerUp /\ ~breakerSaving
  /\ breakerMem' = BreakerFresh(breakerDay)
  /\ totals' = <<>>
  /\ BreakerBeginSave
  /\ UNCHANGED <<breakerDay, breakerUp>>

BreakerSaveDone ==
  /\ breakerSaving
  /\ breakerSaving' = FALSE
  /\ breakerReadable' = TRUE
  /\ breakerFile' = breakerMem
  /\ UNCHANGED <<breakerDay, breakerUp, breakerMem, breakerResets, totals>>

\* The process stops or is killed.
BreakerCrash ==
  /\ breakerUp
  /\ breakerSaving => BreakerTorn
  /\ breakerUp' = FALSE
  /\ breakerSaving' = FALSE
  /\ breakerReadable' \in IF breakerSaving THEN {breakerReadable, FALSE} ELSE {breakerReadable}
  /\ UNCHANGED <<breakerDay, breakerMem, breakerFile, breakerResets, totals>>

\* The UTC date changes.
BreakerMidnight ==
  /\ breakerDay < BreakerMaxDay
  /\ breakerDay' = breakerDay + 1
  /\ totals' = <<>>
  /\ UNCHANGED <<breakerUp, breakerMem, breakerReadable, breakerFile, breakerSaving, breakerResets>>

BreakerNext ==
  \/ BreakerStart
  \/ BreakerIsTripped
  \/ \E pnl \in BreakerPnls : RecordTradeClose(pnl)
  \/ BreakerReset
  \/ BreakerSaveDone
  \/ BreakerCrash
  \/ BreakerMidnight

BreakerSpec == BreakerInit /\ [][BreakerNext]_breakerVars

-----------------------------------------------------------------------------
(* Properties *)

\* The decision the breaker gives, or would give after a restart
BreakerEffective == BreakerRolled(IF breakerUp THEN breakerMem ELSE BreakerLoaded(breakerDay), breakerDay)
BreakerTripped == BreakerEffective.tripped

\* The variables hold values of their types; the breaker opens
\* at a limit and not before, and counts no further.
BreakerTypeOK ==
  /\ breakerDay \in Nat /\ breakerResets \in Nat
  /\ breakerUp \in BOOLEAN /\ breakerReadable \in BOOLEAN /\ breakerSaving \in BOOLEAN
  /\ breakerMem \in BreakerState /\ breakerFile \in BreakerState
  /\ totals \in Seq(Totals)

\* Some trade of the day brought the totals t to a limit.
LimitReached(t) ==
  \E i \in 1..Len(t) : t[i].losses >= LossLimit \/ t[i].pnl <= PnlLimit

\* phase1a_circuit_breaker.py:13: the breaker is open exactly when the trades
\* recorded today reached the loss count or the P&L limit at some moment of
\* the day: later wins do not close it, yesterday's totals never open it, and
\* a restart neither forgets nor repeats a trade.
TrippedIffLimitReached == BreakerTripped <=> LimitReached(totals)

\* phase1a_circuit_breaker.py:9, "insurance for the day": nothing
\* closes an open breaker but the change of date and the operator's reset().
BreakerLatch == INSTANCE DailyLatch WITH halted <- BreakerTripped, day <- breakerDay + breakerResets
BreakerIsDailyLatch == BreakerLatch!LatchSpec
=============================================================================
