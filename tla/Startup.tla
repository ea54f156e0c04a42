------------------------------- MODULE Startup -------------------------------
(* How a leg's process starts: it makes sure through a PID file that it is   *)
(* the only one of its leg, moves the files of the old layout, which the     *)
(* legs share, and connects to the terminal.  Processes are started by hand  *)
(* and by the task scheduler at any time, end, and are killed.               *)
EXTENDS Integers, FiniteSets

CONSTANTS
  Processes,
  LegOf,           \* process -> its leg: the symbol and the journal suffix
  MaxInit,         \* attempts to connect
  RemovesOpenFile, \* an open file can be removed: so on POSIX, not on Windows
  MaxStarts

ASSUME StartupAssumption ==
  /\ MaxInit \in Nat \ {0} /\ MaxStarts \in Nat
  /\ RemovesOpenFile \in BOOLEAN

VARIABLES
  at,       \* process -> where it is
  pidFile,  \* leg -> {} or {[by, state]}, state "open", "written" or "stale"
  legacy,   \* the old layout's files are still there
  tries,    \* process -> attempts to connect
  robbed,   \* legs of which a process removed the PID file of one that was alive
  starts
startupVars == <<at, pidFile, legacy, tries, robbed, starts>>

GuardedLegs == {LegOf[p] : p \in Processes}
PidAlive(p) == at[p] # "off"
Up == {"migrate", "move", "connect", "running"}
MyFile(p) == pidFile[LegOf[p]]
Go(p, place) == at' = [at EXCEPT ![p] = place]
Written(f) == f.state = "written"

StartupInit ==
  /\ at = [p \in Processes |-> "off"] /\ tries = [p \in Processes |-> 0]
  /\ pidFile = [leg \in GuardedLegs |-> {}] /\ robbed = {} /\ starts = 0
  /\ legacy \in BOOLEAN

-----------------------------------------------------------------------------
\* _ensure_single_instance.
Start(p) ==
  /\ at[p] = "off" /\ starts < MaxStarts /\ starts' = starts + 1
  /\ Go(p, "create") /\ tries' = [tries EXCEPT ![p] = 0]
  /\ UNCHANGED <<pidFile, legacy, robbed>>

SetFile(p, f) == pidFile' = [pidFile EXCEPT ![LegOf[p]] = f]

\* Created exclusively; open until the PID is in it.
Create(p) ==
  /\ at[p] = "create"
  /\ IF MyFile(p) = {} THEN Go(p, "write") /\ SetFile(p, {[by |-> p, state |-> "open"]})
     ELSE Go(p, "read") /\ UNCHANGED pidFile
  /\ UNCHANGED <<legacy, tries, robbed, starts>>

\* A PID is alive when its process is, or when another program has been given it.
ReadPid(p) ==
  /\ at[p] = "read"
  /\ \E reused \in BOOLEAN :
       LET stops == \E f \in MyFile(p) : Written(f) /\ (PidAlive(f.by) \/ reused)
       IN  Go(p, IF stops THEN "off" ELSE "remove")
  /\ UNCHANGED <<pidFile, legacy, tries, robbed, starts>>

RemoveStale(p) ==
  LET removed == {f \in MyFile(p) : f.state # "open" \/ RemovesOpenFile}
  IN  /\ at[p] = "remove" /\ Go(p, "again")
      /\ SetFile(p, MyFile(p) \ removed)
      /\ robbed' = IF \E f \in removed : PidAlive(f.by) THEN robbed \cup {LegOf[p]} ELSE robbed
      /\ UNCHANGED <<legacy, tries, starts>>

CreateAgainOver(p) ==
  /\ at[p] = "again"
  /\ Go(p, "write") /\ SetFile(p, {[by |-> p, state |-> "open"]})
  /\ UNCHANGED <<legacy, tries, robbed, starts>>

CreateAgain(p) ==
  /\ at[p] = "again"
  /\ IF MyFile(p) = {} THEN Go(p, "write") /\ SetFile(p, {[by |-> p, state |-> "open"]})
     ELSE Go(p, "off") /\ UNCHANGED pidFile
  /\ UNCHANGED <<legacy, tries, robbed, starts>>

\* What it writes goes into its own file, even if that has been removed.
WritePid(p) ==
  /\ at[p] = "write" /\ Go(p, "migrate")
  /\ SetFile(p, IF [by |-> p, state |-> "open"] \in MyFile(p)
                THEN {[by |-> p, state |-> "written"]} ELSE MyFile(p))
  /\ UNCHANGED <<legacy, tries, robbed, starts>>

-----------------------------------------------------------------------------
\* _migrate_legacy_xau_paths: a file that is gone when it is moved ends the process.
Leave(p) ==
  /\ Go(p, "off") /\ pidFile' = [pidFile EXCEPT ![LegOf[p]] = {}]

Migrate(p) ==
  /\ at[p] = "migrate" /\ Go(p, IF legacy THEN "move" ELSE "connect")
  /\ UNCHANGED <<pidFile, legacy, tries, robbed, starts>>

Move(p) ==
  /\ at[p] = "move" /\ legacy' = FALSE
  /\ IF legacy THEN Go(p, "connect") /\ UNCHANGED pidFile ELSE Leave(p)
  /\ UNCHANGED <<tries, robbed, starts>>

\* mt5.initialize, until it succeeds or the attempts are used up.
Connect(p) ==
  /\ at[p] = "connect" /\ tries' = [tries EXCEPT ![p] = @ + 1]
  /\ \/ Go(p, "running") /\ UNCHANGED pidFile
     \/ tries[p] + 1 < MaxInit /\ UNCHANGED <<at, pidFile>>
     \/ tries[p] + 1 = MaxInit /\ Leave(p)
  /\ UNCHANGED <<legacy, robbed, starts>>

\* An orderly end removes the leg's PID file, whoever wrote it.
Stop(p) ==
  /\ at[p] \in Up /\ Leave(p)
  /\ robbed' = IF \E f \in MyFile(p) : f.by # p /\ PidAlive(f.by) THEN robbed \cup {LegOf[p]} ELSE robbed
  /\ UNCHANGED <<legacy, tries, starts>>

\* A killed process leaves its file, closed.
Kill(p) ==
  /\ PidAlive(p) /\ Go(p, "off")
  /\ SetFile(p, {IF f.by = p /\ f.state = "open" THEN [f EXCEPT !.state = "stale"] ELSE f :
                   f \in MyFile(p)})
  /\ UNCHANGED <<legacy, tries, robbed, starts>>

StartupNext ==
  \E p \in Processes :
    Start(p) \/ Create(p) \/ ReadPid(p) \/ RemoveStale(p) \/ CreateAgain(p) \/ WritePid(p)
    \/ Migrate(p) \/ Move(p) \/ Connect(p) \/ Stop(p) \/ Kill(p)

-----------------------------------------------------------------------------
\* live_demo's single-instance guard: two processes of one leg are up at the same time
\* only after a process has removed the PID file of a living one: which takes one that
\* read the file before the other had written it, or the end of one of two that were
\* up already.  Whatever is killed, restarted or raced otherwise, there is one.
OneInstance ==
  \A p, q \in Processes :
    p # q /\ LegOf[p] = LegOf[q] /\ {at[p], at[q]} \subseteq Up => LegOf[p] \in robbed
=============================================================================
