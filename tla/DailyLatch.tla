----------------------------- MODULE DailyLatch -----------------------------
(***************************************************************************)
(* What both daily halts of AI-SMC promise: a latch that closes at most     *)
(* once per trading day, stays closed whatever the process does (further    *)
(* records, crashes, restarts), and opens only with a new trading day: UTC  *)
(* 00:00, or the operator's manual reset.                                   *)
(* ConsecLossHalt and Phase1aBreaker are shown to implement it.             *)
(***************************************************************************)
EXTENDS Naturals

VARIABLES halted,  \* trading is halted for the rest of the trading day
          day      \* trading days so far

latchVars == <<halted, day>>

LatchInit == halted = FALSE /\ day = 0

\* The limit is reached.
Trip == ~halted /\ halted' = TRUE /\ UNCHANGED day

\* UTC 00:00 or a manual reset: "today only" rather than permanent.
NewDay == halted' = FALSE /\ day' = day + 1

LatchNext == Trip \/ NewDay

LatchSpec == LatchInit /\ [][LatchNext]_latchVars
=============================================================================
