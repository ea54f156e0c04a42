-------------------------- MODULE Supervision_proofs --------------------------
(***************************************************************************)
(* What keeps the legs' processes running, and one of each: the watchdogs   *)
(* spare a control leg that works, whatever the lengths of the bar, the     *)
(* cycle and the limits, as long as a bar and a cycle pass before a         *)
(* live_state file is called stale (ClockAssumption), and wherever a writer *)
(* was killed before it; and the                                            *)
(* single-instance guard, for any number of processes and legs, of starts   *)
(* and of attempts to connect, with open files that can be removed and with *)
(* ones that cannot.                                                        *)
(***************************************************************************)
EXTENDS Supervision, Startup, TLAPS

LegStates == {"off", "waiting", "cycle", "writing", "exiting", "frozen"}

LEMMA LegsKinds == Legs = {"control", "macro"}
  BY DEF Legs

\* A step of Next keeps the types: the clock, the processes, the files and
\* the tasks are taken one after the other.
LEMMA TypeStep == TypeOK /\ [Next]_vars => TypeOK'
<1> SUFFICES ASSUME TypeOK, [Next]_vars PROVE TypeOK'
  OBVIOUS
<1> USE ClockAssumption, ThresholdsAssumption, FaultsAssumption DEF ClockAssumption, ThresholdsAssumption, FaultsAssumption
<1>1. CASE Tick
  <2>1. phase' \in 0..(Bar - 1) /\ watched' \subseteq Legs
    BY <1>1 DEF TypeOK, Tick
  <2>2. proc' \in [Legs -> LegStates] /\ published' \subseteq Legs
    BY <1>1 DEF TypeOK, Tick, LegStates
  <2>3. age' \in [Legs -> 0..(GraceMinutes + 1)] /\ stateAge' \in [Legs -> 0..(StaleMinutes + 1)]
    BY <1>1 DEF TypeOK, Tick, Lesser
  <2>4. restartIn' \in [Legs -> -1..RetryAfter]
    BY <1>1 DEF TypeOK, Tick
  <2> QED BY <1>1, <2>1, <2>2, <2>3, <2>4 DEF TypeOK, Tick, LegStates
<1>2. ASSUME NEW S \in SUBSET Legs, Fail(S)
      PROVE  /\ proc' \in [Legs -> LegStates] /\ published' \subseteq Legs
             /\ age' \in [Legs -> 0..(GraceMinutes + 1)]
             /\ handle' \in [Legs -> Handles \cup {"good"}]
             /\ streak' \in [Legs -> 0..(GiveupThreshold - 1)]
             /\ restartIn' \in [Legs -> -1..RetryAfter] /\ retries' \in [Legs -> 0..RetryCount]
  <2>1. proc' \in [Legs -> LegStates] /\ published' \subseteq Legs
    BY <1>2 DEF TypeOK, Fail, LegStates
  <2>2. age' \in [Legs -> 0..(GraceMinutes + 1)] /\ streak' \in [Legs -> 0..(GiveupThreshold - 1)]
    BY <1>2 DEF TypeOK, Fail
  <2>3. handle' \in [Legs -> Handles \cup {"good"}]
    BY <1>2 DEF TypeOK, Fail
  <2>4. restartIn' \in [Legs -> -1..RetryAfter] /\ retries' \in [Legs -> 0..RetryCount]
    BY <1>2 DEF TypeOK, Fail
  <2> QED BY <2>1, <2>2, <2>3, <2>4
<1>3. ASSUME NEW l \in Legs, RestartOnFailure(l) PROVE TypeOK'
  BY <1>3 DEF TypeOK, RestartOnFailure, Started, fileVars
<1>4. ASSUME NEW l \in Legs, GoodCycle(l) PROVE TypeOK'
  BY <1>4 DEF TypeOK, GoodCycle, BeginWrite, taskVars
<1>5. ASSUME NEW l \in Legs, BlindCycle(l) PROVE TypeOK'
  <2>1. streak' \in [Legs -> 0..(GiveupThreshold - 1)]
    BY <1>5 DEF TypeOK, BlindCycle, GivesUp
  <2>2. handle' \in [Legs -> Handles \cup {"good"}]
    BY <1>5 DEF TypeOK, BlindCycle
  <2>3. stateAge' = stateAge /\ torn' \subseteq Legs /\ proc' \in [Legs -> LegStates]
    BY <1>5 DEF TypeOK, BlindCycle, BeginWrite, LegStates
  <2> QED BY <1>5, <2>1, <2>2, <2>3 DEF TypeOK, BlindCycle, taskVars, LegStates
<1>6. ASSUME NEW l \in Legs, LastBlindCycle(l) PROVE TypeOK'
  BY <1>6 DEF TypeOK, LastBlindCycle, BeginWrite, taskVars
<1>7. ASSUME NEW l \in Legs, Crash(l) PROVE TypeOK'
  <2>1. {l} \in SUBSET Legs /\ Fail({l})
    BY <1>7 DEF Crash
  <2> QED BY <1>2, <1>7, <2>1 DEF TypeOK, Crash, Fault, LegStates, fileVars
<1>8. ASSUME NEW l \in Legs, Freeze(l) PROVE TypeOK'
  BY <1>8 DEF TypeOK, Freeze, Fault, fileVars, taskVars
<1>9. ASSUME NEW l \in Legs, NEW kind \in HandleFaults, HandleBreaks(l, kind) PROVE TypeOK'
  BY <1>9 DEF TypeOK, HandleBreaks, Fault, fileVars, taskVars
<1>10. ASSUME NEW l \in Legs, Watches(l) PROVE watched' \subseteq Legs
  BY <1>10 DEF TypeOK, Watches
<1>11. ASSUME NEW l \in Legs, WatchdogRests(l) PROVE TypeOK'
  BY <1>10, <1>11 DEF TypeOK, WatchdogRests, procVars, fileVars, taskVars
<1>12. ASSUME NEW l \in Legs, QueryFails(l) PROVE TypeOK'
  BY <1>10, <1>12 DEF TypeOK, QueryFails, Fault, procVars, fileVars, taskVars
<1>13. CASE XauDead
  BY <1>10, <1>13, LegsKinds DEF TypeOK, XauDead, procVars, fileVars, taskVars
<1>14. CASE XauStale
  <2>1. Alive \in SUBSET Legs /\ Fail(Alive)
    BY <1>14 DEF XauStale, Alive
  <2>2. watched' \subseteq Legs
    BY <1>10, <1>14, LegsKinds DEF XauStale
  <2> QED BY <1>2, <1>14, <2>1, <2>2 DEF TypeOK, XauStale, LegStates, fileVars
<1>15. CASE MacroStarts
  <2>1. watched' \subseteq Legs
    BY <1>10, <1>15, LegsKinds DEF MacroStarts
  <2>2. CASE proc["macro"] = "off"
    <3>1. Started("macro") /\ "macro" \in Legs
      BY <1>15, <2>2, LegsKinds DEF MacroStarts
    <3>2. proc' \in [Legs -> LegStates] /\ restartIn' \in [Legs -> -1..RetryAfter]
      BY <3>1 DEF TypeOK, Started, LegStates
    <3> QED BY <1>15, <2>1, <3>1, <3>2 DEF TypeOK, MacroStarts, Started, LegStates, fileVars
  <2>3. CASE proc["macro"] # "off"
    BY <1>15, <2>1, <2>3 DEF TypeOK, MacroStarts, procVars, fileVars, taskVars
  <2> QED BY <2>2, <2>3
<1>16. ASSUME NEW l \in Legs, Thaw(l) PROVE TypeOK'
  BY <1>16 DEF TypeOK, Thaw, BeginWrite, taskVars
<1>17. ASSUME NEW l \in Legs, FinishWrite(l) PROVE TypeOK'
  BY <1>17 DEF TypeOK, FinishWrite, WriteFile, taskVars
<1>18. ASSUME NEW l \in Legs, Exit(l) PROVE TypeOK'
  <2>1. {l} \in SUBSET Legs /\ Fail({l})
    BY <1>18 DEF Exit
  <2>2. stateAge' \in [Legs -> 0..(StaleMinutes + 1)] /\ torn' \subseteq Legs
    BY <1>18 DEF TypeOK, Exit, WriteFile
  <2> QED BY <1>2, <1>18, <2>1, <2>2 DEF TypeOK, Exit, LegStates
<1>19. CASE UNCHANGED vars
  BY <1>19 DEF TypeOK, vars, procVars, fileVars, taskVars
<1> QED BY <1>1, <1>3, <1>4, <1>5, <1>6, <1>7, <1>8, <1>9, <1>11, <1>12, <1>13, <1>14, <1>15, <1>16, <1>17, <1>18, <1>19 DEF Next

\* The initial state has the types.
LEMMA TypeInit == Init => TypeOK
  BY ClockAssumption, ThresholdsAssumption, FaultsAssumption
  DEF Init, TypeOK, AllLegs, ClockAssumption, ThresholdsAssumption, FaultsAssumption

\* The variables keep their types: a streak never reaches the give-up
\* threshold (mt5_watchdog.py:128), no task is started more often than its
\* restarts allow (bootstrap_vps.ps1:99).
THEOREM TypeCorrect == Spec => []TypeOK
<1> QED BY TypeInit, TypeStep, PTL DEF Spec

-----------------------------------------------------------------------------
\* Why a working leg is not stale: its file is as old as the bar at most while
\* it waits, and one bar older in its cycle, which the bar's first minutes end; and
\* it is whole until the process itself empties it, whoever was killed in the middle
\* of writing it before.
LegFresh(l) ==
  /\ proc[l] = "cycle" => phase <= MaxCycle
  /\ l \in published => proc[l] # "off"
  /\ l \in published /\ proc[l] \in {"waiting", "cycle", "frozen"} => l \notin torn
  /\ restartIn[l] >= 0 => proc[l] = "off"
  /\ l \in published /\ proc[l] = "waiting" => stateAge[l] <= phase
  /\ l \in published /\ proc[l] = "cycle" => stateAge[l] <= Bar + phase

FreshInv == \A l \in Legs : LegFresh(l)

LEMMA FreshInit == Init => FreshInv
  BY DEF Init, FreshInv, LegFresh, AllLegs

\* Only time makes a file older, and the first minute of a bar begins the
\* cycle of every process that waits.
LEMMA FreshTick == TypeOK /\ FreshInv /\ Tick => FreshInv'
<1> SUFFICES ASSUME TypeOK, FreshInv, Tick, NEW l \in Legs PROVE LegFresh(l)'
  BY DEF FreshInv
<1> USE ClockAssumption DEF ClockAssumption
<1>1. phase \in 0..(Bar - 1) /\ (phase' = phase + 1 \/ (phase = Bar - 1 /\ phase' = 0))
  BY DEF TypeOK, Tick
<1>2. stateAge[l] \in Nat /\ stateAge'[l] \in Nat /\ stateAge'[l] <= stateAge[l] + 1
  BY DEF TypeOK, Tick, Lesser
<1>3. LegFresh(l) /\ proc[l] \in LegStates /\ published' = published /\ torn' = torn
  BY DEF FreshInv, TypeOK, Tick, LegStates
<1>4. proc'[l] = IF phase' = 0 /\ proc[l] = "waiting" THEN "cycle" ELSE proc[l]
  BY DEF Tick
<1>5. proc[l] = "cycle" => phase < MaxCycle
  BY DEF Tick
<1>6. restartIn[l] \in -1..RetryAfter /\ (restartIn'[l] >= 0 => restartIn[l] >= 0)
  BY DEF TypeOK, Tick
<1>7. CASE proc[l] = "waiting"
  BY <1>1, <1>2, <1>3, <1>4, <1>6, <1>7 DEF LegFresh
<1>8. CASE proc[l] = "cycle"
  BY <1>1, <1>2, <1>3, <1>4, <1>5, <1>6, <1>8 DEF LegFresh
<1>9. CASE proc[l] \in {"off", "writing", "exiting", "frozen"}
  BY <1>3, <1>4, <1>6, <1>9 DEF LegFresh
<1> QED BY <1>3, <1>7, <1>8, <1>9 DEF LegStates

\* A process that ends loses its mark; the others keep theirs.
LEMMA FreshFail ==
  ASSUME TypeOK, FreshInv, NEW S \in SUBSET Legs, Fail(S), phase' = phase,
         \A l \in Legs \ S : stateAge'[l] = stateAge[l] /\ (l \in torn' <=> l \in torn)
  PROVE  FreshInv'
<1> SUFFICES ASSUME NEW l \in Legs PROVE LegFresh(l)'
  BY DEF FreshInv
<1>1. LegFresh(l)
  BY DEF FreshInv
<1>2. CASE l \in S
  BY <1>2 DEF Fail, LegFresh
<1>3. CASE l \notin S
  BY <1>1, <1>3 DEF Fail, LegFresh
<1> QED BY <1>2, <1>3

LEMMA FreshStep == TypeOK /\ FreshInv /\ [Next]_vars => FreshInv'
<1> SUFFICES ASSUME TypeOK, FreshInv, [Next]_vars PROVE FreshInv'
  OBVIOUS
<1>1. CASE Tick
  BY <1>1, FreshTick
<1>2. ASSUME NEW l \in Legs, Started(l), proc[l] = "off", phase' = phase, UNCHANGED fileVars
      PROVE  FreshInv'
  BY <1>2 DEF FreshInv, LegFresh, Started, TypeOK, fileVars, taskVars
<1>3. ASSUME NEW l \in Legs, RestartOnFailure(l) PROVE FreshInv'
  BY <1>2, <1>3 DEF RestartOnFailure, FreshInv, LegFresh
<1>4. ASSUME NEW l \in Legs, GoodCycle(l) PROVE FreshInv'
  BY <1>4 DEF TypeOK, FreshInv, LegFresh, GoodCycle, BeginWrite, taskVars
<1>5. ASSUME NEW l \in Legs, BlindCycle(l) PROVE FreshInv'
  BY <1>5 DEF TypeOK, FreshInv, LegFresh, BlindCycle, BeginWrite, taskVars
<1>6. ASSUME NEW l \in Legs, LastBlindCycle(l) PROVE FreshInv'
  BY <1>6 DEF TypeOK, FreshInv, LegFresh, LastBlindCycle, BeginWrite, taskVars
<1>7. ASSUME NEW l \in Legs, Crash(l) PROVE FreshInv'
  BY <1>7, FreshFail DEF Crash, fileVars
<1>8. ASSUME NEW l \in Legs, Freeze(l) PROVE FreshInv'
  BY <1>8 DEF TypeOK, FreshInv, LegFresh, Freeze, Fault, fileVars, taskVars
<1>9. ASSUME NEW l \in Legs, NEW kind \in HandleFaults, HandleBreaks(l, kind) PROVE FreshInv'
  BY <1>9 DEF FreshInv, LegFresh, HandleBreaks, fileVars, taskVars
<1>10. ASSUME NEW l \in Legs, WatchdogRests(l) PROVE FreshInv'
  BY <1>10 DEF FreshInv, LegFresh, WatchdogRests, procVars, fileVars, taskVars
<1>11. ASSUME NEW l \in Legs, QueryFails(l) PROVE FreshInv'
  BY <1>11 DEF FreshInv, LegFresh, QueryFails, procVars, fileVars, taskVars
<1>12. CASE XauDead
  BY <1>12 DEF FreshInv, LegFresh, XauDead, procVars, fileVars, taskVars
<1>13. CASE XauStale
  BY <1>13, FreshFail DEF XauStale, Alive, fileVars
<1>14. CASE MacroStarts
  <2>1. CASE proc["macro"] = "off"
    BY <1>2, <1>14, <2>1, LegsKinds DEF MacroStarts
  <2>2. CASE proc["macro"] # "off"
    BY <1>14, <2>2 DEF FreshInv, LegFresh, MacroStarts, procVars, fileVars, taskVars
  <2> QED BY <2>1, <2>2
<1>15. ASSUME NEW l \in Legs, Thaw(l) PROVE FreshInv'
  BY <1>15 DEF TypeOK, FreshInv, LegFresh, Thaw, BeginWrite, taskVars
<1>16. ASSUME NEW l \in Legs, FinishWrite(l) PROVE FreshInv'
  BY <1>16 DEF TypeOK, FreshInv, LegFresh, FinishWrite, WriteFile, taskVars
<1>17. ASSUME NEW l \in Legs, Exit(l) PROVE FreshInv'
  <2>1. \A k \in Legs \ {l} : stateAge'[k] = stateAge[k] /\ (k \in torn' <=> k \in torn)
    BY <1>17 DEF Exit, WriteFile, TypeOK
  <2> QED BY <1>17, <2>1, FreshFail DEF Exit
<1>18. CASE UNCHANGED vars
  BY <1>18 DEF FreshInv, LegFresh, vars, procVars, fileVars, taskVars
<1> QED BY <1>1, <1>3, <1>4, <1>5, <1>6, <1>7, <1>8, <1>9, <1>10, <1>11, <1>12, <1>13, <1>14, <1>15, <1>16, <1>17, <1>18 DEF Next

-----------------------------------------------------------------------------
SparesControl ==
  Watching /\ proc["control"] \in {"waiting", "cycle"} /\ "control" \in published
    => proc'["control"] = proc["control"]

\* The one action of a watchdog that stops the control leg needs a file that is
\* stale or torn, which that of a working leg is not.
LEMMA SparesStep == TypeOK /\ FreshInv /\ [Next]_vars => [SparesControl]_vars
<1> SUFFICES ASSUME TypeOK, FreshInv, Next, Watching,
                    proc["control"] \in {"waiting", "cycle"}, "control" \in published
             PROVE  proc'["control"] = proc["control"]
  BY DEF SparesControl
<1> USE ClockAssumption DEF ClockAssumption
<1>1. phase <= Bar - 1 /\ stateAge["control"] \in Nat /\ phase \in Nat
  BY LegsKinds DEF TypeOK
<1>2. LegFresh("control")
  BY LegsKinds DEF FreshInv
<1>3. stateAge["control"] < StaleMinutes /\ "control" \notin torn
  BY <1>1, <1>2 DEF LegFresh
<1>4. ~XauStale
  BY <1>1, <1>3 DEF XauStale, FindsStale
<1>5. \/ \E l \in Legs : WatchdogRests(l) \/ QueryFails(l)
      \/ XauDead
      \/ MacroStarts
  <2>1. watched' # watched /\ watched' # {}
    BY DEF Watching
  <2> QED BY <1>4, <2>1 DEF Next, Tick, RestartOnFailure, GoodCycle, BlindCycle, LastBlindCycle,
             FinishWrite, Exit, Crash, Freeze, Thaw, HandleBreaks
<1>6. CASE MacroStarts
  BY <1>6, LegsKinds DEF MacroStarts, Started, TypeOK, procVars
<1>7. CASE XauDead \/ \E l \in Legs : WatchdogRests(l) \/ QueryFails(l)
  BY <1>7 DEF XauDead, WatchdogRests, QueryFails, procVars
<1> QED BY <1>5, <1>6, <1>7

\* watchdog_smart.ps1:235-311: whatever the bar, the cycle and the limits, a control
\* process that has published, and is neither frozen nor about to write its file, is
\* stopped by no watchdog.
THEOREM WorkingControlIsSpared == Spec => WorkingControlSpared
<1>1. TypeOK /\ FreshInv /\ [Next]_vars => TypeOK' /\ FreshInv'
  BY TypeStep, FreshStep
<1> QED BY TypeInit, FreshInit, <1>1, SparesStep, PTL DEF Spec, WorkingControlSpared, SparesControl

-----------------------------------------------------------------------------
\* The single-instance guard of a leg.

StartupSpec == StartupInit /\ [][StartupNext]_startupVars

Places == {"off", "create", "read", "remove", "again", "write"} \cup Up
File == [by : Processes, state : {"open", "written", "stale"}]

\* The variables of the startup keep their types; a leg's PID file is never two files.
StartupTypeOK ==
  /\ at \in [Processes -> Places]
  /\ pidFile \in [GuardedLegs -> SUBSET File]
  /\ \A leg \in GuardedLegs : \A f, g \in pidFile[leg] : f = g

\* A process that has taken the leg's file, and of whose leg no living process's file
\* was ever removed, is the one the file was created by.
Owns(p) == at[p] \in Up \cup {"write"}
OwnerHoldsFile ==
  \A p \in Processes : Owns(p) /\ LegOf[p] \notin robbed => \E f \in MyFile(p) : f.by = p

StartupInv == StartupTypeOK /\ OwnerHoldsFile

-----------------------------------------------------------------------------
\* Of two owners of one leg one has lost its file.
LEMMA OwnersAreOne == StartupInv => OneInstance
<1>1. SUFFICES ASSUME StartupInv, NEW p \in Processes, NEW q \in Processes, p # q,
                      LegOf[p] = LegOf[q], {at[p], at[q]} \subseteq Up, LegOf[p] \notin robbed
               PROVE FALSE
  BY DEF OneInstance
<1>2. Owns(p) /\ Owns(q)
  BY <1>1 DEF Owns
<1>3. PICK f \in MyFile(p) : f.by = p
  BY <1>1, <1>2 DEF StartupInv, OwnerHoldsFile
<1>4. PICK g \in MyFile(q) : g.by = q
  BY <1>1, <1>2 DEF StartupInv, OwnerHoldsFile
<1>5. LegOf[p] \in GuardedLegs
  BY DEF GuardedLegs
<1>6. f = g
  BY <1>1, <1>3, <1>4, <1>5 DEF StartupInv, StartupTypeOK, MyFile
<1> QED
  BY <1>1, <1>3, <1>4, <1>6

LEMMA StartupInitOK == StartupInit => StartupInv
  BY DEF StartupInit, StartupInv, StartupTypeOK, OwnerHoldsFile, Places, Owns, Up

\* A step that puts nothing but one process elsewhere, and that not among the owners
\* unless it was one.
LEMMA MovesOnly ==
  ASSUME StartupInv, NEW p \in Processes, NEW place \in Places, Go(p, place),
         UNCHANGED <<pidFile, robbed>>, place \in Up \cup {"write"} => Owns(p)
  PROVE  StartupInv'
<1>1. StartupTypeOK'
  BY DEF StartupInv, StartupTypeOK, Go
<1>2. ASSUME NEW q \in Processes, Owns(q)', LegOf[q] \notin robbed'
      PROVE  \E f \in MyFile(q)' : f.by = q
  <2>1. Owns(q)
    BY <1>2 DEF StartupInv, StartupTypeOK, Owns, Go
  <2> QED
    BY <1>2, <2>1 DEF StartupInv, OwnerHoldsFile, MyFile
<1> QED
  BY <1>1, <1>2 DEF StartupInv, OwnerHoldsFile

\* A process creates the file of its leg where there is none.
LEMMA Creates ==
  ASSUME StartupInv, NEW p \in Processes, MyFile(p) = {}, Go(p, "write"),
         SetFile(p, {[by |-> p, state |-> "open"]}), UNCHANGED robbed
  PROVE  StartupInv'
<1>1. LegOf[p] \in GuardedLegs
  BY DEF GuardedLegs
<1>2. StartupTypeOK'
  BY <1>1 DEF StartupInv, StartupTypeOK, Go, SetFile, Places, File
<1>3. ASSUME NEW q \in Processes, Owns(q)', LegOf[q] \notin robbed'
      PROVE  \E f \in MyFile(q)' : f.by = q
  <2>1. CASE q = p
    BY <1>1, <2>1 DEF StartupInv, StartupTypeOK, MyFile, SetFile
  <2>2. CASE q # p
    <3>1. Owns(q) /\ LegOf[q] \notin robbed
      BY <1>3, <2>2 DEF StartupInv, StartupTypeOK, Owns, Go
    <3>2. PICK f \in MyFile(q) : f.by = q
      BY <3>1 DEF StartupInv, OwnerHoldsFile
    <3>3. LegOf[q] # LegOf[p]
      BY <3>2 DEF MyFile
    <3>4. MyFile(q)' = MyFile(q)
      BY <1>1, <3>3 DEF StartupInv, StartupTypeOK, MyFile, SetFile
    <3> QED
      BY <3>2, <3>4
  <2> QED
    BY <2>1, <2>2
<1> QED
  BY <1>2, <1>3 DEF StartupInv, OwnerHoldsFile

\* A process becomes "off" or waits to create again, and what is left of its leg's file
\* holds every file of an owner, or the leg becomes one whose guard has been removed.
LEMMA Removes ==
  ASSUME StartupInv, NEW p \in Processes, NEW place \in {"off", "again"}, Go(p, place),
         NEW left \in SUBSET MyFile(p), SetFile(p, left), robbed \subseteq robbed',
         \A f \in MyFile(p) \ left :
            f.by # p /\ PidAlive(f.by) => LegOf[p] \in robbed'
  PROVE  StartupInv'
<1>1. LegOf[p] \in GuardedLegs
  BY DEF GuardedLegs
<1>2. StartupTypeOK'
  BY <1>1 DEF StartupInv, StartupTypeOK, Go, SetFile, Places, MyFile
<1>3. ASSUME NEW q \in Processes, Owns(q)', LegOf[q] \notin robbed'
      PROVE  \E f \in MyFile(q)' : f.by = q
  <2>1. q # p
    BY <1>3 DEF StartupInv, StartupTypeOK, Owns, Up, Go
  <2>2. Owns(q) /\ LegOf[q] \notin robbed
    BY <1>3, <2>1 DEF StartupInv, StartupTypeOK, Owns, Go
  <2>3. PICK f \in MyFile(q) : f.by = q
    BY <2>2 DEF StartupInv, OwnerHoldsFile
  <2>4. CASE LegOf[q] # LegOf[p]
    BY <1>1, <2>3, <2>4 DEF StartupInv, StartupTypeOK, MyFile, SetFile
  <2>5. CASE LegOf[q] = LegOf[p]
    <3>1. PidAlive(q)
      BY <2>2 DEF Owns, Up, PidAlive
    <3>2. f \in left
      BY <1>3, <2>1, <2>3, <2>5, <3>1 DEF MyFile
    <3> QED
      BY <1>1, <2>3, <2>5, <3>2 DEF StartupInv, StartupTypeOK, MyFile, SetFile
  <2> QED
    BY <2>4, <2>5
<1> QED
  BY <1>2, <1>3 DEF StartupInv, OwnerHoldsFile

\* An owner that ends removes a file that is its own, if its leg has lost none.
LEMMA OwnerLeaves ==
  ASSUME StartupInv, NEW p \in Processes, at[p] \in Up, Leave(p), robbed' = robbed
  PROVE  StartupInv'
<1>1. \A f \in MyFile(p) \ {} : f.by # p /\ PidAlive(f.by) => LegOf[p] \in robbed'
  <2>1. SUFFICES ASSUME NEW f \in MyFile(p), f.by # p, LegOf[p] \notin robbed
                 PROVE FALSE
    OBVIOUS
  <2>2. PICK g \in MyFile(p) : g.by = p
    BY <2>1 DEF StartupInv, OwnerHoldsFile, Owns
  <2>3. f = g
    BY <2>1, <2>2 DEF StartupInv, StartupTypeOK, MyFile, GuardedLegs
  <2> QED
    BY <2>1, <2>2, <2>3
<1>2. SetFile(p, {}) /\ Go(p, "off")
  BY DEF Leave, SetFile
<1> QED
  BY <1>1, <1>2, Removes

\* Every step keeps the invariant.
LEMMA StartupStep == StartupInv /\ [StartupNext]_startupVars => StartupInv'
<1> SUFFICES ASSUME StartupInv, [StartupNext]_startupVars PROVE StartupInv'
  OBVIOUS
<1>1. CASE UNCHANGED startupVars
  BY <1>1 DEF startupVars, StartupInv, StartupTypeOK, OwnerHoldsFile, Owns, MyFile
<1>2. ASSUME NEW p \in Processes, Start(p) PROVE StartupInv'
  <2>1. Go(p, "create") /\ UNCHANGED <<pidFile, robbed>>
    BY <1>2 DEF Start
  <2> QED
    BY <2>1, MovesOnly DEF Places, Up
<1>3. ASSUME NEW p \in Processes, Create(p) PROVE StartupInv'
  <2>1. CASE MyFile(p) = {}
    BY <1>3, <2>1, Creates DEF Create
  <2>2. CASE MyFile(p) # {}
    <3>1. Go(p, "read") /\ UNCHANGED <<pidFile, robbed>>
      BY <1>3, <2>2 DEF Create
    <3> QED
      BY <3>1, MovesOnly DEF Places, Up
  <2> QED
    BY <2>1, <2>2
<1>4. ASSUME NEW p \in Processes, ReadPid(p) PROVE StartupInv'
  <2>1. PICK place \in {"off", "remove"} : Go(p, place)
    BY <1>4 DEF ReadPid
  <2>2. UNCHANGED <<pidFile, robbed>>
    BY <1>4 DEF ReadPid
  <2> QED
    BY <2>1, <2>2, MovesOnly DEF Places, Up
<1>5. ASSUME NEW p \in Processes, RemoveStale(p) PROVE StartupInv'
  <2> DEFINE removed == {f \in MyFile(p) : f.state # "open" \/ RemovesOpenFile}
  <2>1. Go(p, "again") /\ SetFile(p, MyFile(p) \ removed)
    BY <1>5 DEF RemoveStale
  <2>2. robbed' = IF \E f \in removed : PidAlive(f.by) THEN robbed \cup {LegOf[p]} ELSE robbed
    BY <1>5 DEF RemoveStale
  <2>3. \A f \in MyFile(p) \ (MyFile(p) \ removed) : f.by # p /\ PidAlive(f.by) => LegOf[p] \in robbed'
    BY <2>2
  <2>4. robbed \subseteq robbed' /\ MyFile(p) \ removed \in SUBSET MyFile(p)
    BY <2>2
  <2> HIDE DEF removed
  <2> QED
    BY <2>1, <2>3, <2>4, Removes
<1>6. ASSUME NEW p \in Processes, CreateAgain(p) PROVE StartupInv'
  <2>1. CASE MyFile(p) = {}
    BY <1>6, <2>1, Creates DEF CreateAgain
  <2>2. CASE MyFile(p) # {}
    <3>1. Go(p, "off") /\ UNCHANGED <<pidFile, robbed>>
      BY <1>6, <2>2 DEF CreateAgain
    <3> QED
      BY <3>1, MovesOnly DEF Places, Up
  <2> QED
    BY <2>1, <2>2
<1>7. ASSUME NEW p \in Processes, WritePid(p) PROVE StartupInv'
  <2> DEFINE new == IF [by |-> p, state |-> "open"] \in MyFile(p)
                    THEN {[by |-> p, state |-> "written"]} ELSE MyFile(p)
  <2>1. at[p] = "write" /\ Go(p, "migrate") /\ SetFile(p, new) /\ robbed' = robbed
    BY <1>7 DEF WritePid
  <2>2. \A q \in Processes : (\E f \in MyFile(q) : f.by = q) => \E f \in MyFile(q)' : f.by = q
    <3>1. SUFFICES ASSUME NEW q \in Processes, NEW f \in MyFile(q), f.by = q
                   PROVE \E g \in MyFile(q)' : g.by = q
      OBVIOUS
    <3>2. CASE LegOf[q] # LegOf[p]
      BY <2>1, <3>1, <3>2 DEF StartupInv, StartupTypeOK, MyFile, SetFile, GuardedLegs
    <3>3. CASE LegOf[q] = LegOf[p]
      <4>1. MyFile(q) = MyFile(p) /\ MyFile(q)' = new
        BY <2>1, <3>3 DEF StartupInv, StartupTypeOK, MyFile, SetFile, GuardedLegs
      <4>2. CASE [by |-> p, state |-> "open"] \in MyFile(p)
        <5>1. f = [by |-> p, state |-> "open"]
          BY <3>1, <4>1, <4>2 DEF StartupInv, StartupTypeOK, MyFile, GuardedLegs
        <5>2. q = p
          BY <3>1, <5>1
        <5>3. MyFile(q)' = {[by |-> p, state |-> "written"]}
          BY <4>1, <4>2
        <5> QED
          BY <5>2, <5>3
      <4>3. CASE [by |-> p, state |-> "open"] \notin MyFile(p)
        BY <3>1, <4>1, <4>3
      <4> QED
        BY <4>2, <4>3
    <3> QED
      BY <3>2, <3>3
  <2>3. StartupTypeOK'
    BY <2>1 DEF StartupInv, StartupTypeOK, Go, SetFile, Places, Up, File, MyFile, GuardedLegs
  <2>4. \A q \in Processes : Owns(q)' => Owns(q)
    BY <2>1 DEF StartupInv, StartupTypeOK, Owns, Go
  <2> QED
    BY <2>1, <2>2, <2>3, <2>4 DEF StartupInv, OwnerHoldsFile
<1>8. ASSUME NEW p \in Processes, Migrate(p) PROVE StartupInv'
  <2>1. PICK place \in {"move", "connect"} : Go(p, place)
    BY <1>8 DEF Migrate
  <2>2. UNCHANGED <<pidFile, robbed>> /\ Owns(p)
    BY <1>8 DEF Migrate, Owns, Up
  <2> QED
    BY <2>1, <2>2, MovesOnly DEF Places, Up
<1>9. ASSUME NEW p \in Processes, Move(p) PROVE StartupInv'
  <2>1. at[p] \in Up /\ robbed' = robbed
    BY <1>9 DEF Move, Up
  <2>2. CASE legacy
    <3>1. Go(p, "connect") /\ UNCHANGED <<pidFile, robbed>> /\ Owns(p)
      BY <1>9, <2>1, <2>2 DEF Move, Owns
    <3> QED
      BY <3>1, MovesOnly DEF Places, Up
  <2>3. CASE ~legacy
    BY <1>9, <2>1, <2>3, OwnerLeaves DEF Move
  <2> QED
    BY <2>2, <2>3
<1>10. ASSUME NEW p \in Processes, Connect(p) PROVE StartupInv'
  <2>1. at[p] \in Up /\ Owns(p) /\ robbed' = robbed
    BY <1>10 DEF Connect, Up, Owns
  <2>2. CASE Go(p, "running") /\ UNCHANGED pidFile
    BY <2>1, <2>2, MovesOnly DEF Places, Up
  <2>3. CASE UNCHANGED <<at, pidFile>>
    BY <2>1, <2>3 DEF StartupInv, StartupTypeOK, OwnerHoldsFile, Owns, MyFile
  <2>4. CASE Leave(p)
    BY <2>1, <2>4, OwnerLeaves
  <2> QED
    BY <1>10, <2>2, <2>3, <2>4 DEF Connect
<1>11. ASSUME NEW p \in Processes, Stop(p) PROVE StartupInv'
  <2>1. Go(p, "off") /\ SetFile(p, {})
    BY <1>11 DEF Stop, Leave, SetFile
  <2>2. robbed \subseteq robbed'
        /\ \A f \in MyFile(p) \ {} : f.by # p /\ PidAlive(f.by) => LegOf[p] \in robbed'
    BY <1>11 DEF Stop
  <2> QED
    BY <2>1, <2>2, Removes
<1>12. ASSUME NEW p \in Processes, Kill(p) PROVE StartupInv'
  <2> DEFINE closed(f) == IF f.by = p /\ f.state = "open" THEN [f EXCEPT !.state = "stale"] ELSE f
  <2>1. Go(p, "off") /\ SetFile(p, {closed(f) : f \in MyFile(p)}) /\ robbed' = robbed
    BY <1>12 DEF Kill
  <2>2. \A f \in File : closed(f) \in File /\ closed(f).by = f.by
    BY DEF File
  <2>3. MyFile(p) \subseteq File /\ \A f, g \in MyFile(p) : f = g
    BY DEF StartupInv, StartupTypeOK, MyFile, GuardedLegs
  <2> HIDE DEF closed
  <2>4. StartupTypeOK'
    <3>1. at' \in [Processes -> Places]
      BY <2>1 DEF StartupInv, StartupTypeOK, Go, Places
    <3>2. {closed(f) : f \in MyFile(p)} \subseteq File
      BY <2>2, <2>3
    <3>3. \A x, y \in {closed(f) : f \in MyFile(p)} : x = y
      BY <2>3
    <3> QED
      BY <2>1, <3>1, <3>2, <3>3 DEF StartupInv, StartupTypeOK, SetFile, GuardedLegs
  <2>5. ASSUME NEW q \in Processes, Owns(q)', LegOf[q] \notin robbed'
        PROVE  \E f \in MyFile(q)' : f.by = q
    <3>1. Owns(q)
      BY <2>1, <2>5 DEF StartupInv, StartupTypeOK, Owns, Up, Go
    <3>2. PICK f \in MyFile(q) : f.by = q
      BY <2>1, <2>5, <3>1 DEF StartupInv, OwnerHoldsFile
    <3>3. CASE LegOf[q] # LegOf[p]
      BY <2>1, <3>2, <3>3 DEF StartupInv, StartupTypeOK, MyFile, SetFile, GuardedLegs
    <3>4. CASE LegOf[q] = LegOf[p]
      <4>1. MyFile(q)' = {closed(g) : g \in MyFile(p)} /\ f \in MyFile(p)
        BY <2>1, <3>2, <3>4 DEF StartupInv, StartupTypeOK, MyFile, SetFile, GuardedLegs
      <4>2. closed(f).by = q
        BY <2>2, <2>3, <3>2, <4>1
      <4> QED
        BY <4>1, <4>2
    <3> QED
      BY <3>3, <3>4
  <2> QED
    BY <2>4, <2>5 DEF StartupInv, OwnerHoldsFile
<1> QED
  BY <1>1, <1>2, <1>3, <1>4, <1>5, <1>6, <1>7, <1>8, <1>9, <1>10, <1>11, <1>12 DEF StartupNext

\* The invariant holds of every behaviour.
THEOREM StartupInvariant == StartupSpec => []StartupInv
  BY StartupInitOK, StartupStep, PTL DEF StartupSpec

\* live_demo's guard, however many processes start, end and are killed: two processes of
\* one leg are up at the same time only if the PID file of a living one has been removed.
THEOREM OneInstancePerLeg == StartupSpec => []OneInstance
  BY StartupInvariant, OwnersAreOne, PTL
===============================================================================
