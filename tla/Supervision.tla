----------------------------- MODULE Supervision -----------------------------
(***************************************************************************)
(* Who starts the live processes again.  The XAUUSD symbol has two: the     *)
(* control leg and the macro leg of live_demo.py.  Each is a Task Scheduler *)
(* task that is started again RetryAfter its failure, a limited number of   *)
(* times (scripts/bootstrap_vps.ps1).  Inside each, the handle watchdog     *)
(* (monitor/mt5_watchdog.py) resets an MT5 handle that gives no ticks and   *)
(* ends the process when that does not help.  Outside, one run of           *)
(* scripts/watchdog_smart.ps1 per leg looks for a process, its age and the  *)
(* age of its live_state file, which is truncated before it is written      *)
(* anew: who reads it in between, or after the writer was killed there,     *)
(* finds no timestamp.                                                      *)
(*                                                                          *)
(* Time is counted in minutes, and whatever is due happens before it goes   *)
(* on; an age that has just reached a limit may be read on either side.     *)
(***************************************************************************)
EXTENDS Integers, FiniteSets

CONSTANTS Bar,              \* M15
          MaxCycle,         \* the longest cycle that is not frozen
          WatchEvery,       \* repetition of the watchdog tasks
          GraceMinutes,     \* watchdog_smart: a younger process is left alone
          StaleMinutes,     \* watchdog_smart: an older live_state is stale
          RetryAfter,       \* RestartOnFailure: interval
          RetryCount,       \* RestartOnFailure: count
          ResetThreshold,   \* DEFAULT_RESET_THRESHOLD
          GiveupThreshold,  \* DEFAULT_GIVEUP_THRESHOLD
          HandleFaults,     \* how a handle may break, see Handles
          FreezingLegs,     \* legs whose process may freeze
          MaxFaults         \* bound: crashes, freezes and broken handles

Legs == {"control", "macro"}
\* "heals": initialize() brings the ticks back; "refuses": it fails;
\* "stuck": it succeeds and there are still no ticks
Handles == {"heals", "refuses", "stuck"}

\* A live_state file may grow old by one bar and one cycle without anything
\* being wrong.
ASSUME ClockAssumption ==
  /\ {Bar, WatchEvery} \subseteq Nat \ {0}
  /\ {MaxCycle, GraceMinutes, StaleMinutes, RetryAfter} \subseteq Nat
  /\ MaxCycle < Bar /\ Bar + MaxCycle < StaleMinutes
ASSUME ThresholdsAssumption ==
  /\ ResetThreshold \in Nat \ {0} /\ GiveupThreshold \in Nat
  /\ ResetThreshold < GiveupThreshold
ASSUME FaultsAssumption ==
  /\ HandleFaults \subseteq Handles /\ FreezingLegs \subseteq Legs
  /\ RetryCount \in Nat /\ MaxFaults \in Nat

VARIABLES phase,      \* minutes since the last M15 bar
          watched,    \* legs whose watchdog has run this minute
          proc,       \* leg -> its process
          age,        \* minutes since it started, up to GraceMinutes + 1
          published,  \* history: legs whose process has written its file
          handle,     \* its MT5 handle
          streak,     \* consecutive_tick_none
          stateAge,   \* age of the leg's live_state file, up to StaleMinutes + 1
          torn,       \* legs whose live_state file is not whole
          restartIn,  \* minutes until the task starts again, -1 for never
          retries,    \* restarts left
          faults      \* counts what MaxFaults bounds

procVars == <<proc, age, published, handle, streak>>
fileVars == <<stateAge, torn>>
taskVars == <<restartIn, retries>>
vars == <<phase, watched, procVars, fileVars, taskVars, faults>>

AllLegs(x) == [l \in Legs |-> x]
Lesser(a, b) == IF a <= b THEN a ELSE b

\* The machine has booted: both tasks have started, the files are old.
Init ==
  /\ phase \in 0..(Bar - 1) /\ watched = {}
  /\ proc = AllLegs("waiting") /\ age = AllLegs(0) /\ published = {}
  /\ handle = AllLegs("good") /\ streak = AllLegs(0)
  /\ stateAge = AllLegs(StaleMinutes + 1) /\ torn = {}
  /\ restartIn = AllLegs(-1) /\ retries = AllLegs(RetryCount)
  /\ faults = 0

-----------------------------------------------------------------------------
(* Time *)

WatchTime == phase % WatchEvery = 0

\* A minute: everything due has happened; a process that waits for the bar
\* begins its cycle with it.
Tick ==
  /\ WatchTime => watched = Legs
  /\ \A l \in Legs : /\ restartIn[l] # 0 /\ proc[l] \notin {"writing", "exiting"}
                     /\ proc[l] = "cycle" => phase < MaxCycle
  /\ phase' = (phase + 1) % Bar
  /\ watched' = {}
  /\ proc' = [l \in Legs |-> IF phase' = 0 /\ proc[l] = "waiting" THEN "cycle" ELSE proc[l]]
  /\ age' = [l \in Legs |-> IF proc[l] = "off" THEN 0 ELSE Lesser(age[l] + 1, GraceMinutes + 1)]
  /\ stateAge' = [l \in Legs |-> Lesser(stateAge[l] + 1, StaleMinutes + 1)]
  /\ restartIn' = [l \in Legs |-> IF restartIn[l] > 0 THEN restartIn[l] - 1 ELSE restartIn[l]]
  /\ UNCHANGED <<published, handle, streak, torn, retries, faults>>

-----------------------------------------------------------------------------
(* The processes and their tasks *)

Alive == {l \in Legs : proc[l] # "off"}

\* The processes of the legs S end with an error: RestartOnFailure, if any is left.
Fail(S) ==
  /\ proc' = [l \in Legs |-> IF l \in S THEN "off" ELSE proc[l]]
  /\ age' = [l \in Legs |-> IF l \in S THEN 0 ELSE age[l]]
  /\ published' = published \ S
  /\ handle' = [l \in Legs |-> IF l \in S THEN "good" ELSE handle[l]]
  /\ streak' = [l \in Legs |-> IF l \in S THEN 0 ELSE streak[l]]
  /\ restartIn' = [l \in Legs |-> IF l \in S /\ retries[l] > 0 THEN RetryAfter ELSE restartIn[l]]
  /\ retries' = [l \in Legs |-> IF l \in S /\ retries[l] > 0 THEN retries[l] - 1 ELSE retries[l]]

\* A fresh interpreter, which waits for its first bar.
Started(l) ==
  /\ proc' = [proc EXCEPT ![l] = "waiting"]
  /\ restartIn' = [restartIn EXCEPT ![l] = -1]
  /\ UNCHANGED <<age, published, handle, streak, retries>>

RestartOnFailure(l) ==
  /\ restartIn[l] = 0
  /\ Started(l)
  /\ UNCHANGED <<phase, watched, fileVars, faults>>

\* The finally block: whatever became of the cycle, the file is opened, and with
\* that emptied, to be written with a new timestamp.
BeginWrite(l, then) ==
  /\ proc' = [proc EXCEPT ![l] = then]
  /\ torn' = torn \cup {l}
  /\ UNCHANGED stateAge

WriteFile(l) ==
  /\ stateAge' = [stateAge EXCEPT ![l] = 0]
  /\ torn' = torn \ {l}

\* The file is whole: back to waiting for the bar.
FinishWrite(l) ==
  /\ proc[l] = "writing"
  /\ WriteFile(l)
  /\ proc' = [proc EXCEPT ![l] = "waiting"]
  /\ published' = published \cup {l}
  /\ UNCHANGED <<phase, watched, age, handle, streak, taskVars, faults>>

\* A cycle with a tick: record_tick_result(tick_ok=True), then the rest
GoodCycle(l) ==
  /\ proc[l] = "cycle" /\ handle[l] = "good"
  /\ BeginWrite(l, "writing")
  /\ streak' = [streak EXCEPT ![l] = 0]
  /\ UNCHANGED <<phase, watched, age, published, handle, taskVars, faults>>

\* should_giveup: sys.exit(1)
GivesUp(l) == streak[l] + 1 >= GiveupThreshold

\* should_reset
Resets(l) == ~GivesUp(l) /\ streak[l] + 1 >= ResetThreshold

ReinitialisesAlways(l) == Resets(l)

\* try_reset_handle: the streak is cleared if initialize() succeeds.
Reinitialises(l) == Resets(l) /\ handle[l] # "refuses"

\* A cycle without a tick
BlindCycle(l) ==
  /\ proc[l] = "cycle" /\ handle[l] # "good" /\ ~GivesUp(l)
  /\ streak' = [streak EXCEPT ![l] = IF Reinitialises(l) THEN 0 ELSE @ + 1]
  /\ handle' = [handle EXCEPT ![l] = IF Reinitialises(l) /\ @ = "heals" THEN "good" ELSE @]
  /\ BeginWrite(l, "writing")
  /\ UNCHANGED <<phase, watched, age, published, taskVars, faults>>

\* The finally block runs before the process ends.
LastBlindCycle(l) ==
  /\ proc[l] = "cycle" /\ handle[l] # "good" /\ GivesUp(l)
  /\ BeginWrite(l, "exiting")
  /\ UNCHANGED <<phase, watched, age, published, handle, streak, taskVars, faults>>

Exit(l) ==
  /\ proc[l] = "exiting"
  /\ Fail({l})
  /\ WriteFile(l)
  /\ UNCHANGED <<phase, watched, faults>>

-----------------------------------------------------------------------------
(* What goes wrong *)

Fault == faults < MaxFaults /\ faults' = faults + 1

Crash(l) ==
  /\ Fault
  /\ l \in Alive
  /\ Fail({l})
  /\ UNCHANGED <<phase, watched, fileVars>>

\* A call after the tick that takes longer than MaxCycle: leaving the executor's
\* with-block waits for the AI call, however long it takes.
Freeze(l) ==
  /\ Fault
  /\ l \in FreezingLegs /\ proc[l] = "cycle" /\ handle[l] = "good"
  /\ proc' = [proc EXCEPT ![l] = "frozen"]
  /\ streak' = [streak EXCEPT ![l] = 0]
  /\ UNCHANGED <<phase, watched, age, published, handle, fileVars, taskVars>>

\* It may return after all.
Thaw(l) ==
  /\ proc[l] = "frozen"
  /\ BeginWrite(l, "writing")
  /\ UNCHANGED <<phase, watched, age, published, handle, streak, taskVars, faults>>

HandleBreaks(l, kind) ==
  /\ Fault
  /\ proc[l] \in {"waiting", "cycle"} /\ handle[l] = "good"
  /\ handle' = [handle EXCEPT ![l] = kind]
  /\ UNCHANGED <<phase, watched, proc, age, published, streak, fileVars, taskVars>>

-----------------------------------------------------------------------------
(* watchdog_smart.ps1 *)

\* Axes 1 and 3 and the grace window: any live_demo process of XAUUSD counts,
\* and the age is that of the first one the query lists.  A file that cannot be
\* parsed is as good as an old one.
FindsStale(l) ==
  /\ \E first \in Alive : age[first] >= GraceMinutes
  /\ stateAge[l] >= StaleMinutes \/ l \in torn

FindsNothingWrong(l) ==
  \/ \E first \in Alive : age[first] <= GraceMinutes
  \/ Alive # {} /\ stateAge[l] <= StaleMinutes /\ l \notin torn

Watches(l) ==
  /\ WatchTime /\ l \notin watched
  /\ watched' = watched \cup {l}

WatchdogRests(l) ==
  /\ Watches(l)
  /\ FindsNothingWrong(l)
  /\ UNCHANGED <<phase, procVars, fileVars, taskVars, faults>>

\* The query for the processes fails: "exit 0"
QueryFails(l) ==
  /\ Fault
  /\ Watches(l)
  /\ UNCHANGED <<phase, procVars, fileVars, taskVars>>

\* No process at all: "exit 1", which starts nothing
XauDead ==
  /\ Watches("control")
  /\ Alive = {}
  /\ UNCHANGED <<phase, procVars, fileVars, taskVars, faults>>

\* Stale: every process of XAUUSD is stopped.
XauStale ==
  /\ Watches("control")
  /\ FindsStale("control")
  /\ Fail(Alive)
  /\ UNCHANGED <<phase, fileVars, faults>>

MacroStopsAll ==
  /\ Watches("macro")
  /\ Alive = {} \/ FindsStale("macro")
  /\ Fail(Alive)
  /\ UNCHANGED <<phase, fileVars, faults>>

\* Dead or stale: Start-ScheduledTask, which a task that still runs ignores
\* (MultipleInstancesPolicy IgnoreNew).
MacroStarts ==
  /\ Watches("macro")
  /\ Alive = {} \/ FindsStale("macro")
  /\ IF proc["macro"] = "off"
     THEN Started("macro")
     ELSE UNCHANGED <<procVars, taskVars>>
  /\ UNCHANGED <<phase, fileVars, faults>>

-----------------------------------------------------------------------------
Next ==
  \/ Tick
  \/ \E l \in Legs : RestartOnFailure(l)
  \/ \E l \in Legs : GoodCycle(l)
  \/ \E l \in Legs : BlindCycle(l)
  \/ \E l \in Legs : LastBlindCycle(l)
  \/ \E l \in Legs : FinishWrite(l)
  \/ \E l \in Legs : Exit(l)
  \/ \E l \in Legs : Crash(l)
  \/ \E l \in Legs : Freeze(l)
  \/ \E l \in Legs : Thaw(l)
  \/ \E l \in Legs, kind \in HandleFaults : HandleBreaks(l, kind)
  \/ \E l \in Legs : WatchdogRests(l)
  \/ \E l \in Legs : QueryFails(l)
  \/ XauDead
  \/ XauStale
  \/ MacroStarts

Spec == Init /\ [][Next]_vars

\* Time goes on, so that whatever is due happens.
FairSpec == Spec /\ WF_vars(Next)

-----------------------------------------------------------------------------
(* Properties *)

TypeOK ==
  /\ phase \in 0..(Bar - 1) /\ watched \subseteq Legs
  /\ proc \in [Legs -> {"off", "waiting", "cycle", "writing", "exiting", "frozen"}]
  /\ age \in [Legs -> 0..(GraceMinutes + 1)] /\ published \subseteq Legs
  /\ handle \in [Legs -> Handles \cup {"good"}]
  /\ streak \in [Legs -> 0..(GiveupThreshold - 1)]
  /\ stateAge \in [Legs -> 0..(StaleMinutes + 1)] /\ torn \subseteq Legs
  /\ restartIn \in [Legs -> -1..RetryAfter] /\ retries \in [Legs -> 0..RetryCount]
  /\ faults \in 0..MaxFaults

\* A run of a watchdog
Watching == watched' # watched /\ watched' # {}

\* watchdog_smart.ps1:235-311: a control process that has published, and is neither
\* frozen nor about to write its file, is stopped by no watchdog, whatever becomes of
\* the macro leg and of the writers killed before: its file can be neither stale nor
\* torn, and the macro leg's watchdog stops nothing.
WorkingControlSpared ==
  [][Watching /\ proc["control"] \in {"waiting", "cycle"} /\ "control" \in published
       => proc'["control"] = proc["control"]]_vars

Trades(l) ==
  /\ proc[l] \in {"waiting", "cycle", "writing"} /\ l \in published
  /\ handle[l] = "good"

\* mt5_watchdog.py:10-18, watchdog_smart.ps1:24-30: a control leg that is off, frozen or
\* without ticks comes to trade again by itself, unless the task has no restart left.
ControlRecovers == ~Trades("control") ~> Trades("control") \/ retries["control"] = 0
=============================================================================
