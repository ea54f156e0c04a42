-------------------------- MODULE SignalPath_proofs --------------------------
(* Proofs about SignalPath, for every bar length, cooldown, cap and bound. *)
EXTENDS SignalPath, FiniteSetTheorems, TLAPS

\* Hold is a choice, and so is everything the strategy wants.
LEMMA ChoicesTyped ==
  ASSUME now \in Nat, day \in Nat, asian \in BOOLEAN
  PROVE  Hold \in Choice /\ Wanted \subseteq Choice /\ \A c \in Wanted : c.dir \in Dirs
BY DEF Hold, Wanted, Choice

\* Every step of the system keeps the variables in their types.
LEMMA TypeStep == TypeOK /\ [Next]_vars => TypeOK'
<1> SUFFICES ASSUME TypeOK, [Next]_vars PROVE TypeOK'
  OBVIOUS
<1> USE DEF TypeOK
<1>t. Hold \in Choice /\ Wanted \subseteq Choice
  BY ChoicesTyped
<1>l. LongAgo \in [Dirs -> Int]
  BY TimesAssumption DEF LongAgo, TimesAssumption
<1>1. CASE Tick
  BY <1>1 DEF Tick, loopVars, fileVars, eaVars, haltVars, brokerVars
<1>2. CASE Midnight
  <2>1. asian' \in BOOLEAN /\ halted' \in BOOLEAN /\ quotaUsed' \in BOOLEAN
    BY <1>2, Zenon DEF Midnight, loopVars, fileVars, eaVars, haltVars, brokerVars
  <2>2. haltSig' \in Nat
    BY <1>2 DEF Midnight, loopVars, fileVars, eaVars, haltVars, brokerVars
  <2> QED
    BY <1>2, <2>1, <2>2 DEF Midnight, loopVars, fileVars, eaVars, haltVars, brokerVars
<1>3. CASE LondonOpens
  BY <1>3 DEF LondonOpens, loopVars, fileVars, eaVars, haltVars, brokerVars
<1>4. CASE PositionCloses
  BY <1>4 DEF PositionCloses, loopVars, fileVars, eaVars, haltVars, brokerVars
<1>5. CASE Pause
  BY <1>5 DEF Pause, LastBegun, loopVars, fileVars, eaVars, haltVars, brokerVars
<1>6. CASE Resume
  <2>1. asian' \in BOOLEAN /\ halted' \in BOOLEAN /\ quotaUsed' \in BOOLEAN
    BY <1>6, Zenon DEF Resume, loopVars, fileVars, eaVars, haltVars, brokerVars
  <2>2. haltSig' \in Nat
    BY <1>6 DEF Resume, loopVars, fileVars, eaVars, haltVars, brokerVars
  <2> QED
    BY <1>6, <2>1, <2>2 DEF Resume, loopVars, fileVars, eaVars, haltVars, brokerVars
<1>7. CASE HaltedCycle
  BY <1>7, <1>t DEF HaltedCycle, AtBar, Write, loopVars, eaVars, haltVars, brokerVars
<1>8. CASE TradingCycle
  BY <1>8 DEF TradingCycle, AtBar, fileVars, eaVars, haltVars, brokerVars
<1>9. CASE Decide
  <2>1. choice' \in Choice
    BY <1>9, <1>t DEF Decide
  <2> QED
    BY <1>9, <2>1 DEF Decide, fileVars, eaVars, haltVars, brokerVars
<1>10. CASE DecideBlind
  <2>1. choice' \in Choice
    BY <1>10, <1>t DEF DecideBlind
  <2> QED
    BY <1>10, <2>1 DEF DecideBlind, Fault, fileVars, eaVars, haltVars, brokerVars
<1>11. CASE Finish
  <2>1. asian' \in BOOLEAN /\ halted' \in BOOLEAN /\ quotaUsed' \in BOOLEAN
    BY <1>11, Zenon DEF Finish, fileVars, eaVars, haltVars, brokerVars
  <2>2. haltSig' \in Nat
    BY <1>11 DEF Finish, LastBegun, fileVars, eaVars, haltVars, brokerVars
  <2> QED
    BY <1>11, <2>1, <2>2 DEF Finish, fileVars, eaVars, haltVars, brokerVars
<1>12. CASE CycleFails
  BY <1>12 DEF CycleFails, Fault, fileVars, eaVars, haltVars, brokerVars
<1>13. CASE Publish
  BY <1>13 DEF Publish, Write, eaVars, haltVars, brokerVars
<1>14. CASE LoopRestarts
  BY <1>14, <1>t DEF LoopRestarts, fileVars, eaVars, haltVars, brokerVars
<1>15. CASE EaOpens
  <2>1. [id |-> sigId, dir |-> signal.dir, slot |-> signal.slot, time |-> now] \in Entry
    BY <1>15 DEF EaOpens, Entry, Choice
  <2>2. positions' \in Nat /\ opens' \in Seq(Entry)
    BY <1>15, <2>1 DEF EaOpens, Opened
  <2>3. lastOpen' \in [Dirs -> Int]
    BY <1>15 DEF EaOpens, Opened
  <2> QED
    BY <1>15, <2>2, <2>3 DEF EaOpens, loopVars, fileVars, haltVars
<1>16. CASE EaPasses
  BY <1>16 DEF EaPasses, loopVars, fileVars, haltVars, brokerVars
<1>17. CASE EaRestarts
  BY <1>17, <1>l DEF EaRestarts, loopVars, fileVars, haltVars, brokerVars
<1>18. CASE UNCHANGED vars
  BY <1>18 DEF vars, loopVars, fileVars, eaVars, haltVars, brokerVars
<1> QED
  BY <1>1, <1>2, <1>3, <1>4, <1>5, <1>6, <1>7, <1>8, <1>9, <1>10, <1>11, <1>12, <1>13,
     <1>14, <1>15, <1>16, <1>17, <1>18 DEF Next

LEMMA TypeInit == Init => TypeOK
<1> SUFFICES ASSUME Init PROVE TypeOK
  OBVIOUS
<1>1. Hold \in Choice
  BY DEF Hold, Choice
<1>2. LongAgo \in [Dirs -> Int]
  BY TimesAssumption DEF LongAgo, TimesAssumption
<1>3. asian \in BOOLEAN /\ halted \in BOOLEAN /\ quotaUsed \in BOOLEAN
  BY Zenon DEF Init
<1>4. opens \in Seq(Entry)
  BY DEF Init
<1> QED
  BY <1>1, <1>2, <1>3, <1>4 DEF Init, TypeOK

\* The variables of SignalPath keep their types.
THEOREM TypeCorrect == Spec => []TypeOK
BY TypeInit, TypeStep, PTL DEF Spec

-----------------------------------------------------------------------------
(* The cap.  What makes it inductive is to count, beside the open positions,  *)
(* the orders that are still to come: the published signal the EA has not     *)
(* read, and the choice that has passed the gates and is not yet published.   *)

Pending == sigId # lastId /\ signal.dir # "none"
Chosen == pc \in {"gated", "publish"} /\ choice.dir # "none"

CapInv ==
  /\ CapHolds
  /\ Pending => positions <= MaxConcurrent + Slack
  /\ Chosen => positions + (IF Pending THEN 1 ELSE 0) <= MaxConcurrent + Slack

\* No step breaks the count of open, published and chosen orders.
LEMMA CapStep == TypeOK /\ CapInv /\ [Next]_vars => CapInv'
<1> SUFFICES ASSUME TypeOK, CapInv, [Next]_vars PROVE CapInv'
  OBVIOUS
<1>n. /\ MaxConcurrent \in Nat /\ positions \in Nat /\ faults \in Nat /\ restarts \in Nat
      /\ sigId \in Nat /\ lastId \in 0..sigId
  BY CapAssumption DEF TypeOK, CapAssumption
<1>d. ASSUME NEW c, c.dir \in Dirs PROVE c.dir # "none"
  BY <1>d, DirsAssumption DEF DirsAssumption
<1> USE <1>n DEF CapInv, CapHolds, Slack, Pending, Chosen
<1>1. CASE Tick
  BY <1>1 DEF Tick, loopVars, fileVars, eaVars, brokerVars
<1>2. CASE Midnight
  BY <1>2 DEF Midnight, fileVars, eaVars, brokerVars
<1>3. CASE LondonOpens
  BY <1>3 DEF LondonOpens, loopVars, fileVars, eaVars, brokerVars
<1>4. CASE PositionCloses
  BY <1>4 DEF PositionCloses, loopVars, fileVars, eaVars
<1>5. CASE Pause
  BY <1>5 DEF Pause, loopVars, fileVars, eaVars, brokerVars
<1>6. CASE Resume
  BY <1>6 DEF Resume, loopVars, fileVars, eaVars, brokerVars
<1>7. CASE HaltedCycle
  BY <1>7 DEF HaltedCycle, AtBar, Write, Hold, eaVars, brokerVars
<1>8. CASE TradingCycle
  BY <1>8 DEF TradingCycle, AtBar, fileVars, eaVars, brokerVars
<1>9. CASE Decide
  <2>1. UNCHANGED <<positions, faults, restarts, sigId, lastId, signal>>
    BY <1>9 DEF Decide, fileVars, eaVars, brokerVars
  <2>2. choice'.dir # "none" => positions < MaxConcurrent
    BY <1>9 DEF Decide, Hold, CapBlocks
  <2> QED
    BY <2>1, <2>2
<1>10. CASE DecideBlind
  BY <1>10 DEF DecideBlind, Fault, fileVars, eaVars, brokerVars
<1>11. CASE Finish
  BY <1>11 DEF Finish, fileVars, eaVars, brokerVars
<1>12. CASE CycleFails
  BY <1>12 DEF CycleFails, Fault, fileVars, eaVars, brokerVars
<1>13. CASE Publish
  BY <1>13 DEF Publish, Write, eaVars, brokerVars
<1>14. CASE LoopRestarts
  BY <1>14 DEF LoopRestarts, fileVars, eaVars, brokerVars
<1>15. CASE EaOpens
  <2>1. Pending
    BY <1>15, <1>d DEF EaOpens, Polls
  <2>2. positions' = positions + 1 /\ lastId' = sigId
    BY <1>15 DEF EaOpens, Opened
  <2>3. UNCHANGED <<faults, restarts, sigId, signal, pc, choice>>
    BY <1>15 DEF EaOpens, loopVars, fileVars
  <2> QED
    BY <2>1, <2>2, <2>3
<1>16. CASE EaPasses
  BY <1>16 DEF EaPasses, loopVars, fileVars, brokerVars
<1>17. CASE EaRestarts
  BY <1>17 DEF EaRestarts, loopVars, fileVars, brokerVars
<1>18. CASE UNCHANGED vars
  BY <1>18 DEF vars, loopVars, fileVars, eaVars, brokerVars
<1> QED
  BY <1>1, <1>2, <1>3, <1>4, <1>5, <1>6, <1>7, <1>8, <1>9, <1>10, <1>11, <1>12, <1>13,
     <1>14, <1>15, <1>16, <1>17, <1>18 DEF Next

\* concurrent_gates.py, check_concurrent_cap: the cap is passed by at most one
\* order, plus one for each restart of the EA and each cycle or probe that failed.
THEOREM CapIsPassedByOne == Spec => []CapHolds
<1>1. Init => CapInv
  BY CapAssumption DEF Init, CapInv, CapHolds, Slack, Pending, Chosen, Hold, CapAssumption
<1> QED
  BY <1>1, TypeInit, TypeStep, CapStep, PTL DEF Spec, CapInv

-----------------------------------------------------------------------------
(* The halt.  An order can be published after the halt only by the cycle that *)
(* was running when the halt began, and its number is the next one.           *)

HaltInv ==
  /\ halted /\ signal.dir # "none" => sigId <= haltSig
  /\ halted /\ pc # "wait" => sigId < haltSig

\* No step lets a later cycle publish an order.
LEMMA HaltStep == TypeOK /\ HaltInv /\ [Next]_vars => HaltInv'
<1> SUFFICES ASSUME TypeOK, HaltInv, [Next]_vars PROVE HaltInv'
  OBVIOUS
<1>n. sigId \in Nat /\ haltSig \in Nat /\ halted \in BOOLEAN
  BY DEF TypeOK
<1> USE <1>n DEF HaltInv
<1>1. CASE Tick
  BY <1>1 DEF Tick, loopVars, fileVars, haltVars
<1>2. CASE Midnight
  BY <1>2 DEF Midnight, fileVars, haltVars
<1>3. CASE LondonOpens
  BY <1>3 DEF LondonOpens, loopVars, fileVars, haltVars
<1>4. CASE PositionCloses
  BY <1>4 DEF PositionCloses, loopVars, fileVars, haltVars
<1>5. CASE Pause
  BY <1>5 DEF Pause, LastBegun, loopVars, fileVars
<1>6. CASE Resume
  BY <1>6 DEF Resume
<1>7. CASE HaltedCycle
  BY <1>7 DEF HaltedCycle, AtBar, Write, Hold, haltVars
<1>8. CASE TradingCycle
  BY <1>8 DEF TradingCycle, fileVars, haltVars
<1>9. CASE Decide
  BY <1>9 DEF Decide, fileVars, haltVars
<1>10. CASE DecideBlind
  BY <1>10 DEF DecideBlind, fileVars, haltVars
<1>11. CASE Finish
  BY <1>11 DEF Finish, LastBegun, fileVars, haltVars
<1>12. CASE CycleFails
  BY <1>12 DEF CycleFails, fileVars, haltVars
<1>13. CASE Publish
  BY <1>13 DEF Publish, Write, haltVars
<1>14. CASE LoopRestarts
  BY <1>14 DEF LoopRestarts, fileVars, haltVars
<1>15. CASE EaOpens
  BY <1>15 DEF EaOpens, loopVars, fileVars, haltVars
<1>16. CASE EaPasses
  BY <1>16 DEF EaPasses, loopVars, fileVars, haltVars
<1>17. CASE EaRestarts
  BY <1>17 DEF EaRestarts, loopVars, fileVars, haltVars
<1>18. CASE UNCHANGED vars
  BY <1>18 DEF vars, loopVars, fileVars, haltVars
<1> QED
  BY <1>1, <1>2, <1>3, <1>4, <1>5, <1>6, <1>7, <1>8, <1>9, <1>10, <1>11, <1>12, <1>13,
     <1>14, <1>15, <1>16, <1>17, <1>18 DEF Next

\* live_demo.py:1049: an order sent while the leg is halted rests on a signal that was
\* published before the halt, or on that of the cycle under way when it began, however
\* long this cycle takes, whatever fails or restarts in between.
THEOREM HaltLetsOneCycleFinish == Spec => HaltTakesHold
<1>1. Init => HaltInv
  BY DEF Init, HaltInv
<1>2. TypeOK /\ HaltInv /\ [Next]_vars => [opens' # opens /\ halted => sigId <= haltSig]_vars
  <2> SUFFICES ASSUME TypeOK, HaltInv, Next, opens' # opens, halted
               PROVE  sigId <= haltSig
    BY DEF vars, brokerVars
  <2>1. EaOpens
    BY DEF Next, Tick, Midnight, LondonOpens, PositionCloses, Pause, Resume, HaltedCycle,
           TradingCycle, Decide, DecideBlind, Finish, CycleFails, Publish, LoopRestarts,
           EaPasses, EaRestarts, brokerVars
  <2>2. signal.dir # "none"
    BY <2>1, DirsAssumption DEF EaOpens, DirsAssumption
  <2> QED
    BY <2>2 DEF HaltInv
<1> QED
  BY <1>1, <1>2, TypeInit, TypeStep, HaltStep, PTL DEF Spec, HaltTakesHold
-----------------------------------------------------------------------------
(* The entry deals.  Three properties count deals, and only EaOpens makes one. *)

\* The deals have the fields of an entry.
LEMMA DealTyped ==
  ASSUME TypeOK, NEW i \in 1..Len(opens)
  PROVE  opens[i].id \in Nat /\ opens[i].dir \in Dirs /\ opens[i].slot \in Nat /\ opens[i].time \in Nat
<1>1. opens[i] \in Entry
  BY DEF TypeOK
<1> QED
  BY <1>1 DEF Entry

\* A set of indices of the deals, and the same set after one more deal.
LEMMA IndexSet ==
  ASSUME NEW n \in Nat, NEW A \in SUBSET (1..n), NEW new \in BOOLEAN
  PROVE  /\ Cardinality(A) \in Nat
         /\ Cardinality(IF new THEN A \cup {n + 1} ELSE A) = Cardinality(A) + (IF new THEN 1 ELSE 0)
<1>1. IsFiniteSet(1..n)
  BY FS_Interval
<1>2. IsFiniteSet(A) /\ Cardinality(A) \in Nat
  BY <1>1, FS_Subset, FS_CardinalityType
<1>3. n + 1 \notin A
  OBVIOUS
<1>4. Cardinality(A \cup {n + 1}) = Cardinality(A) + 1
  BY <1>2, <1>3, FS_AddElement
<1> QED
  BY <1>2, <1>4

\* What EaOpens leaves, reads and adds.
LEMMA OneMoreDeal ==
  ASSUME TypeOK, EaOpens
  PROVE  /\ Len(opens) \in Nat /\ Len(opens') = Len(opens) + 1
         /\ \A i \in 1..Len(opens) : opens'[i] = opens[i]
         /\ opens'[Len(opens) + 1] = [id |-> sigId, dir |-> signal.dir, slot |-> signal.slot, time |-> now]
         /\ sigId # lastId /\ signal.dir \in Dirs /\ lastId' = sigId
         /\ lastOpen' = [lastOpen EXCEPT ![signal.dir] = now]
         /\ UNCHANGED <<now, day, asian, faults, restarts, pc, choice, quotaUsed, signal, sigId>>
BY DEF EaOpens, Polls, Opened, TypeOK, loopVars, fileVars

\* Everything else leaves the deals alone.
LEMMA DealsStay ==
  ASSUME [Next]_vars, ~EaOpens
  PROVE  opens' = opens
BY DEF Next, Tick, Midnight, LondonOpens, PositionCloses, Pause, Resume, HaltedCycle,
       TradingCycle, Decide, DecideBlind, Finish, CycleFails, Publish, LoopRestarts,
       EaPasses, EaRestarts, brokerVars, vars

-----------------------------------------------------------------------------
(* One execution.  A signal that can be read has one execution less than the  *)
(* property allows: it is new, or the EA was restarted since.                 *)

Executions(id) == Cardinality({i \in 1..Len(opens) : opens[i].id = id})

ExecInv ==
  /\ \A i \in 1..Len(opens) : opens[i].id <= sigId
  /\ \A id \in Nat : Executions(id) <= 1 + restarts
  /\ sigId # lastId => Executions(sigId) <= restarts

LEMMA ExecutionsTyped ==
  ASSUME TypeOK, NEW id
  PROVE  Executions(id) \in Nat /\ ((\A i \in 1..Len(opens) : opens[i].id # id) => Executions(id) = 0)
<1> DEFINE A == {i \in 1..Len(opens) : opens[i].id = id}
<1>1. Len(opens) \in Nat /\ A \in SUBSET (1..Len(opens))
  BY DEF TypeOK
<1>2. (\A i \in 1..Len(opens) : opens[i].id # id) => A = {}
  OBVIOUS
<1>3. Executions(id) = Cardinality(A)
  BY DEF Executions
<1> HIDE DEF A
<1> QED
  BY <1>1, <1>2, <1>3, IndexSet, FS_EmptySet

\* The executions after one more deal.
LEMMA ExecutionsGrow ==
  ASSUME TypeOK, EaOpens, NEW id
  PROVE  Executions(id)' = Executions(id) + (IF id = sigId THEN 1 ELSE 0)
<1> DEFINE A == {i \in 1..Len(opens) : opens[i].id = id}
           B == {i \in 1..Len(opens') : opens'[i].id = id}
<1>1. B = IF id = sigId THEN A \cup {Len(opens) + 1} ELSE A
  BY OneMoreDeal
<1>2. Len(opens) \in Nat /\ A \in SUBSET (1..Len(opens)) /\ (id = sigId) \in BOOLEAN
  BY OneMoreDeal
<1>3. Executions(id) = Cardinality(A) /\ Executions(id)' = Cardinality(B)
  BY DEF Executions
<1> HIDE DEF A, B
<1> QED
  BY <1>1, <1>2, <1>3, IndexSet

LEMMA ExecStep == TypeOK /\ ExecInv /\ [Next]_vars => ExecInv'
<1> SUFFICES ASSUME TypeOK, ExecInv, [Next]_vars PROVE ExecInv'
  OBVIOUS
<1>n. restarts \in Nat /\ sigId \in Nat /\ lastId \in 0..sigId
  BY DEF TypeOK
<1>1. CASE EaOpens
  <2>1. \A i \in 1..Len(opens') : opens'[i].id <= sigId'
    BY <1>n, <1>1, OneMoreDeal DEF ExecInv
  <2>2. ASSUME NEW id \in Nat PROVE Executions(id) \in Nat
    BY ExecutionsTyped
  <2>3. ASSUME NEW id \in Nat PROVE Executions(id)' <= 1 + restarts
    <3>1. Executions(id)' = Executions(id) + (IF id = sigId THEN 1 ELSE 0)
      BY <1>1, ExecutionsGrow
    <3> QED
      <4>1. sigId # lastId /\ Executions(id) \in Nat
        BY <1>1, <2>2, OneMoreDeal
      <4> QED
        BY <1>n, <3>1, <4>1 DEF ExecInv
  <2> QED
    BY <1>1, <2>1, <2>3, OneMoreDeal DEF ExecInv
<1>2. CASE ~EaOpens
  <2>1. opens' = opens
    BY <1>2, DealsStay
  <2>2. \A id : Executions(id)' = Executions(id) /\ Executions(id) \in Nat
    BY <2>1, ExecutionsTyped DEF Executions
  <2>s. ASSUME sigId' = sigId, restarts' = restarts, lastId' = lastId \/ lastId' = sigId
        PROVE  ExecInv'
    BY <2>s, <2>1, <2>2 DEF ExecInv
  <2>w. ASSUME NEW c, Write(c), restarts' = restarts, lastId' = lastId PROVE ExecInv'
    <3>1. sigId' = sigId + 1
      BY <2>w DEF Write
    <3>2. \A i \in 1..Len(opens) : opens[i].id < sigId' /\ opens[i].id <= sigId'
      <4>1. \A i \in 1..Len(opens) : opens[i].id \in Nat /\ opens[i].id <= sigId
        BY DealTyped DEF ExecInv
      <4> QED
        BY <1>n, <3>1, <4>1
    <3>3. Executions(sigId') = 0
      BY <1>n, <3>1, <3>2, ExecutionsTyped
    <3> QED
      BY <1>n, <2>w, <2>1, <2>2, <3>2, <3>3 DEF ExecInv
  <2>r. CASE EaRestarts
    <3>1. sigId' = sigId /\ restarts' = restarts + 1
      BY <2>r DEF EaRestarts, fileVars
    <3> QED
      BY <1>n, <2>1, <2>2, <3>1 DEF ExecInv
  <2>3. CASE HaltedCycle
    BY <2>3, <2>w DEF HaltedCycle, eaVars
  <2>4. CASE Publish
    BY <2>4, <2>w DEF Publish, eaVars
  <2>5. CASE ~(HaltedCycle \/ Publish \/ EaRestarts)
    BY <1>2, <2>5, <2>s DEF Next, Tick, Midnight, LondonOpens, PositionCloses, Pause, Resume,
       TradingCycle, Decide, DecideBlind, Finish, CycleFails, LoopRestarts, EaPasses,
       fileVars, eaVars, vars
  <2> QED
    BY <2>r, <2>3, <2>4, <2>5
<1> QED
  BY <1>1, <1>2

\* AISMCReceiver.mq5:655: whatever is published and polled, no signal is executed
\* more often than once, and once more for each restart of the EA.
THEOREM SignalsExecuteOnce == Spec => []ExecutedOnce
<1>1. Init => ExecInv
  <2> SUFFICES ASSUME Init PROVE ExecInv
    OBVIOUS
  <2>1. TypeOK /\ opens = <<>> /\ restarts = 0 /\ sigId = lastId
    BY TypeInit DEF Init
  <2>2. \A id : Executions(id) = 0
    BY <2>1, ExecutionsTyped
  <2> QED
    BY <2>1, <2>2 DEF ExecInv
<1>2. TypeOK /\ ExecInv => ExecutedOnce
  <2> SUFFICES ASSUME TypeOK, ExecInv, NEW i \in 1..Len(opens)
               PROVE  Executions(opens[i].id) <= 1 + restarts
    BY DEF ExecutedOnce, Executions
  <2> QED
    BY DealTyped DEF ExecInv
<1> QED
  BY <1>1, <1>2, TypeInit, TypeStep, ExecStep, PTL DEF Spec

-----------------------------------------------------------------------------
(* The one range of an Asian session.  The orders still to come are counted   *)
(* with the deals; while the quota of the day is open, one more has room.     *)

InSlot(d) == Cardinality({i \in 1..Len(opens) : opens[i].slot = d})
One(b) == IF b THEN 1 ELSE 0
Asked(d) == One(sigId # lastId /\ signal.slot = d)
Picked(d) == One(pc \in {"gated", "publish"} /\ choice.slot = d)
Leaving(d) == One(pc = "publish" /\ choice.slot = d)

SlotsSoFar ==
  /\ signal.slot <= day + 1 /\ choice.slot <= day + 1
  /\ \A i \in 1..Len(opens) : opens[i].slot <= day + 1

SlotInv ==
  /\ SlotsSoFar
  /\ \A d \in 1..(day + 1) : InSlot(d) + Asked(d) + Picked(d) <= 1 + Slack
  /\ ~quotaUsed => InSlot(day + 1) + Asked(day + 1) + Leaving(day + 1) <= Slack

LEMMA InSlotTyped ==
  ASSUME TypeOK, NEW d
  PROVE  InSlot(d) \in Nat /\ ((\A i \in 1..Len(opens) : opens[i].slot # d) => InSlot(d) = 0)
<1> DEFINE A == {i \in 1..Len(opens) : opens[i].slot = d}
<1>1. Len(opens) \in Nat /\ A \in SUBSET (1..Len(opens))
  BY DEF TypeOK
<1>2. (\A i \in 1..Len(opens) : opens[i].slot # d) => A = {}
  OBVIOUS
<1>3. InSlot(d) = Cardinality(A)
  BY DEF InSlot
<1> HIDE DEF A
<1> QED
  BY <1>1, <1>2, <1>3, IndexSet, FS_EmptySet

\* The deals of a slot after one more.
LEMMA InSlotGrows ==
  ASSUME TypeOK, EaOpens, NEW d
  PROVE  InSlot(d)' = InSlot(d) + One(signal.slot = d)
<1> DEFINE A == {i \in 1..Len(opens) : opens[i].slot = d}
           B == {i \in 1..Len(opens') : opens'[i].slot = d}
<1>1. B = IF signal.slot = d THEN A \cup {Len(opens) + 1} ELSE A
  BY OneMoreDeal
<1>2. Len(opens) \in Nat /\ A \in SUBSET (1..Len(opens)) /\ (signal.slot = d) \in BOOLEAN
  BY OneMoreDeal
<1>3. InSlot(d) = Cardinality(A) /\ InSlot(d)' = Cardinality(B)
  BY DEF InSlot
<1> HIDE DEF A, B
<1> QED
  BY <1>1, <1>2, <1>3, IndexSet DEF One

\* The slots of what is chosen are those of the day.
LEMMA SlotsStep == TypeOK /\ SlotsSoFar /\ [Next]_vars => SlotsSoFar'
<1> SUFFICES ASSUME TypeOK, SlotsSoFar, [Next]_vars PROVE SlotsSoFar'
  OBVIOUS
<1>n. day \in Nat /\ signal.slot \in Nat /\ choice.slot \in Nat
      /\ \A i \in 1..Len(opens) : opens[i].slot \in Nat
  BY DealTyped DEF TypeOK, Choice
<1>h. Hold.slot = 0 /\ \A c \in Wanted : c.slot <= day + 1
  BY <1>n DEF Hold, Wanted
<1>1. CASE EaOpens
  BY <1>1, OneMoreDeal DEF SlotsSoFar
<1>2. CASE ~EaOpens
  <2>1. opens' = opens
    BY <1>2, DealsStay
  <2>2. day' \in Nat /\ day' >= day /\ \A i \in 1..Len(opens') : opens'[i].slot <= day' + 1
    <3>1. day' = day \/ day' = day + 1
      BY DEF Next, Tick, Midnight, LondonOpens, PositionCloses, Pause, Resume, HaltedCycle,
         TradingCycle, Decide, DecideBlind, Finish, CycleFails, Publish, LoopRestarts, EaOpens,
         EaPasses, EaRestarts, vars
    <3> QED
      BY <1>n, <2>1, <3>1 DEF SlotsSoFar
  <2>3. choice' = choice \/ choice'.slot <= day + 1
    BY <1>2, <1>n, <1>h DEF Next, Tick, Midnight, LondonOpens, PositionCloses, Pause, Resume,
       HaltedCycle, TradingCycle, Decide, DecideBlind, Finish, CycleFails, Publish,
       LoopRestarts, EaPasses, EaRestarts, vars, loopVars
  <2>4. signal' \in {signal, choice, Hold}
    BY <1>2 DEF Next, Tick, Midnight, LondonOpens, PositionCloses, Pause, Resume, HaltedCycle,
       TradingCycle, Decide, DecideBlind, Finish, CycleFails, Publish, LoopRestarts,
       EaPasses, EaRestarts, vars, fileVars, Write
  <2>5. choice'.slot \in Nat
    BY TypeStep DEF TypeOK, Choice
  <2>6. choice'.slot <= day + 1 /\ signal'.slot <= day + 1 /\ signal'.slot \in Nat
    BY <1>n, <1>h, <2>3, <2>4 DEF SlotsSoFar
  <2> QED
    BY <1>n, <2>2, <2>5, <2>6 DEF SlotsSoFar
<1> QED
  BY <1>1, <1>2

LEMMA SlotStep == TypeOK /\ SlotInv /\ [Next]_vars => SlotInv'
<1> SUFFICES ASSUME TypeOK, SlotInv, [Next]_vars PROVE SlotInv'
  OBVIOUS
<1>n. /\ day \in Nat /\ faults \in Nat /\ restarts \in Nat /\ sigId \in Nat /\ lastId \in 0..sigId
      /\ Slack \in Nat
  BY DEF TypeOK, Slack
<1>p. SlotsSoFar'
  BY SlotsStep DEF SlotInv
<1>z. \A d : InSlot(d) \in Nat
  BY InSlotTyped
<1>a. \A b : One(b) \in {0, 1}
  BY DEF One
<1>1. CASE EaOpens
  <2>1. /\ UNCHANGED <<day, faults, restarts, pc, choice, quotaUsed, signal, sigId>>
        /\ lastId' = sigId /\ sigId # lastId
    BY <1>1, OneMoreDeal
  <2>2. ASSUME NEW d PROVE InSlot(d)' + Asked(d)' = InSlot(d) + Asked(d)
    BY <1>1, <1>z, <2>1, InSlotGrows DEF Asked, One
  <2>3. ASSUME NEW d PROVE Picked(d)' = Picked(d) /\ Leaving(d)' = Leaving(d) /\ InSlot(d)' \in Nat
    BY <1>1, <1>z, <2>1, InSlotGrows DEF Picked, Leaving, One
  <2>4. Slack' = Slack
    BY <2>1 DEF Slack
  <2> QED
    BY <1>p, <2>1, <2>2, <2>3, <2>4 DEF SlotInv
<1>d. ASSUME opens' = opens PROVE \A d : InSlot(d)' = InSlot(d)
  BY <1>d DEF InSlot
<1>s. ASSUME opens' = opens, UNCHANGED <<day, sigId, lastId, signal, pc, choice, quotaUsed, faults, restarts>>
      PROVE  SlotInv'
  BY <1>s, <1>p DEF SlotInv, InSlot, Asked, Picked, Leaving, Slack
<1>2. CASE Tick \/ LondonOpens \/ PositionCloses \/ Pause \/ Resume \/ UNCHANGED vars
  BY <1>2, <1>s DEF Tick, LondonOpens, PositionCloses, Pause, Resume, loopVars, fileVars, eaVars,
     brokerVars, vars
<1>3. CASE Midnight
  <2>1. day' = day + 1 /\ opens' = opens
        /\ UNCHANGED <<sigId, lastId, signal, pc, choice, faults, restarts>>
    BY <1>3 DEF Midnight, fileVars, eaVars, brokerVars
  <2>2. \A i \in 1..Len(opens) : opens[i].slot # day + 2
    BY <1>n, DealTyped DEF SlotInv, SlotsSoFar
  <2>3. InSlot(day + 2) = 0 /\ Asked(day + 2) = 0 /\ Picked(day + 2) = 0 /\ Leaving(day + 2) = 0
    <3>1. InSlot(day + 2) = 0
      BY <2>2, InSlotTyped
    <3>2. signal.slot # day + 2 /\ choice.slot # day + 2
      BY <1>n DEF SlotInv, SlotsSoFar
    <3> QED
      BY <3>1, <3>2 DEF Asked, Picked, Leaving, One
  <2>4. ASSUME NEW d PROVE InSlot(d)' = InSlot(d) /\ Asked(d)' = Asked(d) /\ Picked(d)' = Picked(d)
                           /\ Leaving(d)' = Leaving(d)
    BY <2>1 DEF InSlot, Asked, Picked, Leaving
  <2>5. Slack' = Slack /\ day' + 1 = day + 2
    BY <1>n, <2>1 DEF Slack
  <2>6. ASSUME NEW d \in 1..(day' + 1) PROVE InSlot(d) + Asked(d) + Picked(d) <= 1 + Slack
    BY <1>n, <2>3, <2>5, <2>6 DEF SlotInv
  <2> QED
    BY <1>n, <1>p, <2>3, <2>4, <2>5, <2>6 DEF SlotInv
<1> USE <1>n, <1>z DEF Asked, Picked, Leaving, One
<1>4. CASE HaltedCycle
  <2>1. /\ UNCHANGED <<day, lastId, pc, choice, quotaUsed, faults, restarts, opens>>
        /\ signal'.slot = 0 /\ pc = "wait"
    BY <1>4 DEF HaltedCycle, AtBar, Write, Hold, eaVars, brokerVars
  <2> QED
    BY <1>p, <1>d, <2>1 DEF SlotInv, Slack
<1>5. CASE TradingCycle \/ LoopRestarts
  <2>1. /\ UNCHANGED <<day, sigId, lastId, signal, quotaUsed, faults, restarts, opens>>
        /\ pc' \in {"wait", "body"}
    BY <1>5 DEF TradingCycle, LoopRestarts, AtBar, fileVars, eaVars, brokerVars
  <2> QED
    BY <1>p, <1>d, <2>1 DEF SlotInv, Slack
<1>6. CASE Decide \/ DecideBlind
  <2>1. /\ UNCHANGED <<day, sigId, lastId, signal, quotaUsed, restarts, opens>>
        /\ faults' \in {faults, faults + 1} /\ pc' = "gated" /\ pc = "body"
        /\ choice' = Hold \/ (choice' \in Wanted /\ ~QuotaBlocks)
    BY <1>6 DEF Decide, DecideBlind, Fault, fileVars, eaVars, brokerVars
  <2>2. choice'.slot # 0 => choice'.slot = day + 1 /\ ~quotaUsed
    BY <2>1 DEF Hold, Wanted, QuotaBlocks
  <2> QED
    BY <1>p, <1>d, <2>1, <2>2 DEF SlotInv, Slack
<1>7. CASE Finish
  <2>1. /\ UNCHANGED <<day, sigId, lastId, signal, choice, faults, restarts, opens>>
        /\ pc = "gated" /\ pc' = "publish"
    BY <1>7 DEF Finish, fileVars, eaVars, brokerVars
  <2>2. ~quotaUsed' => ~quotaUsed /\ choice.slot = 0
    BY <1>7, Zenon DEF Finish
  <2> QED
    BY <1>p, <1>d, <2>1, <2>2 DEF SlotInv, Slack
<1>8. CASE CycleFails
  <2>1. /\ UNCHANGED <<day, sigId, lastId, signal, choice, quotaUsed, restarts, opens>>
        /\ faults' = faults + 1 /\ pc \in {"body", "gated"} /\ pc' = "publish"
    BY <1>8 DEF CycleFails, Fault, fileVars, eaVars, brokerVars
  <2> QED
    BY <1>p, <1>d, <2>1 DEF SlotInv, Slack
<1>9. CASE Publish
  <2>1. /\ UNCHANGED <<day, lastId, choice, quotaUsed, faults, restarts, opens>>
        /\ signal' = choice /\ sigId' = sigId + 1 /\ pc = "publish" /\ pc' = "wait"
    BY <1>9 DEF Publish, Write, eaVars, brokerVars
  <2> QED
    BY <1>p, <1>d, <2>1 DEF SlotInv, Slack
<1>10. CASE EaPasses
  <2>1. /\ UNCHANGED <<day, sigId, signal, pc, choice, quotaUsed, faults, restarts, opens>>
        /\ lastId' = sigId
    BY <1>10 DEF EaPasses, loopVars, fileVars, brokerVars
  <2> QED
    BY <1>p, <1>d, <2>1 DEF SlotInv, Slack
<1>11. CASE EaRestarts
  <2>1. /\ UNCHANGED <<day, sigId, signal, pc, choice, quotaUsed, faults, opens>>
        /\ restarts' = restarts + 1
    BY <1>11 DEF EaRestarts, loopVars, fileVars, brokerVars
  <2> QED
    BY <1>p, <1>d, <2>1 DEF SlotInv, Slack
<1> QED
  BY <1>1, <1>2, <1>3, <1>4, <1>5, <1>6, <1>7, <1>8, <1>9, <1>10, <1>11 DEF Next

\* range_quota.py:4: the ranges of the Asian session of one day lead to one order,
\* and one more for each EA restart and each cycle or probe that failed, whatever
\* the EA and the loop do in between.
THEOREM OneRangeADay == Spec => []OneAsianRange
<1>1. Init => SlotInv
  <2> SUFFICES ASSUME Init PROVE SlotInv
    OBVIOUS
  <2>1. TypeOK /\ opens = <<>> /\ pc = "wait" /\ sigId = lastId /\ day = 0
        /\ signal.slot = 0 /\ choice.slot = 0 /\ restarts = 0 /\ faults = 0
    BY TypeInit DEF Init, Hold
  <2>2. \A d : InSlot(d) = 0
    BY <2>1, InSlotTyped
  <2> QED
    BY <2>1, <2>2 DEF SlotInv, SlotsSoFar, Asked, Picked, Leaving, One, Slack
<1>2. TypeOK /\ SlotInv => OneAsianRange
  <2> SUFFICES ASSUME TypeOK, SlotInv, NEW d \in 1..(day + 1) PROVE InSlot(d) <= 1 + Slack
    BY DEF OneAsianRange, InSlot
  <2>1. InSlot(d) \in Nat /\ Slack \in Nat
    BY InSlotTyped DEF Slack, TypeOK
  <2> QED
    BY <2>1 DEF SlotInv, Asked, Picked, One
<1> QED
  BY <1>1, <1>2, TypeInit, TypeStep, SlotStep, PTL DEF Spec
-----------------------------------------------------------------------------
(* No pile-up.  While the anti-stack window of a deal is open, a deal in its  *)
(* direction can still come from a range that was published or chosen before  *)
(* the gate saw the deal, or from an EA that has forgotten the deal: its      *)
(* cooldown is what holds the trending entries back.                          *)

\* mql5/AISMCReceiver.mq5:46 and config.py:310, 30 minutes each
CooldownCovers == AntiStack <= TrendingCooldown

Pile(i) ==
  Cardinality({j \in i..Len(opens) : opens[j].dir = opens[i].dir
                                     /\ opens[j].time - opens[i].time < AntiStack})

RangeAsked(d) == sigId # lastId /\ signal.ranging /\ signal.dir = d
RangePicked(d) == pc \in {"gated", "publish"} /\ choice.ranging /\ choice.dir = d
Forgotten(i) == lastOpen[opens[i].dir] < opens[i].time

\* What can still come on top of the deals in the window of deal i
ToCome(i) == One(RangeAsked(opens[i].dir) \/ Forgotten(i)) + One(RangePicked(opens[i].dir))

PileInv ==
  \A i \in 1..Len(opens) :
    /\ opens[i].time <= now
    /\ Pile(i) <= 2 + Slack
    /\ now - opens[i].time < AntiStack => Pile(i) + ToCome(i) <= 2 + Slack

LEMMA PileTyped ==
  ASSUME TypeOK, NEW i \in 1..Len(opens)
  PROVE  Pile(i) \in Nat
<1> DEFINE A == {j \in i..Len(opens) : opens[j].dir = opens[i].dir
                                       /\ opens[j].time - opens[i].time < AntiStack}
<1>1. Len(opens) \in Nat /\ A \in SUBSET (1..Len(opens))
  BY DEF TypeOK
<1>2. Pile(i) = Cardinality(A)
  BY DEF Pile
<1> HIDE DEF A
<1> QED
  BY <1>1, <1>2, IndexSet

\* The deals in the window of an earlier deal, after one more.
LEMMA PileGrows ==
  ASSUME TypeOK, EaOpens, NEW i \in 1..Len(opens)
  PROVE  Pile(i)' = Pile(i) + One(signal.dir = opens[i].dir /\ now - opens[i].time < AntiStack)
<1> DEFINE A == {j \in i..Len(opens) : opens[j].dir = opens[i].dir
                                       /\ opens[j].time - opens[i].time < AntiStack}
           B == {j \in i..Len(opens') : opens'[j].dir = opens'[i].dir
                                        /\ opens'[j].time - opens'[i].time < AntiStack}
           new == signal.dir = opens[i].dir /\ now - opens[i].time < AntiStack
<1>0. /\ Len(opens) \in Nat /\ Len(opens') = Len(opens) + 1 /\ opens'[i] = opens[i]
      /\ \A j \in i..Len(opens) : opens'[j] = opens[j]
      /\ opens'[Len(opens) + 1].dir = signal.dir /\ opens'[Len(opens) + 1].time = now
  BY OneMoreDeal
<1>1. B = IF new THEN A \cup {Len(opens) + 1} ELSE A
  <2>1. i..Len(opens') = (i..Len(opens)) \cup {Len(opens) + 1} /\ Len(opens) + 1 \notin i..Len(opens)
    BY <1>0
  <2>2. \A j \in i..Len(opens) : j \in B <=> j \in A
    BY <1>0, <2>1
  <2>3. Len(opens) + 1 \in B <=> new
    BY <1>0, <2>1
  <2> QED
    BY <2>1, <2>2, <2>3
<1>2. A \in SUBSET (1..Len(opens)) /\ new \in BOOLEAN
  BY <1>0
<1>3. Pile(i) = Cardinality(A) /\ Pile(i)' = Cardinality(B)
  BY DEF Pile
<1> HIDE DEF A, B
<1> QED
  BY <1>0, <1>1, <1>2, <1>3, IndexSet DEF One

\* The window of the new deal.
LEMMA PileStarts ==
  ASSUME TypeOK, EaOpens, NEW n \in Nat, n = Len(opens) + 1
  PROVE  Pile(n)' \in {0, 1}
<1> DEFINE B == {j \in n..n : opens'[j].dir = opens'[n].dir /\ opens'[j].time - opens'[n].time < AntiStack}
<1>1. Len(opens') = n
  BY OneMoreDeal
<1>2. Pile(n)' = Cardinality(B)
  BY <1>1 DEF Pile
<1>3. B = {} \/ B = {n}
  OBVIOUS
<1>4. Cardinality({}) = 0 /\ Cardinality({n}) = 1
  BY FS_EmptySet, FS_Singleton, Zenon
<1> HIDE DEF B
<1> QED
  BY <1>2, <1>3, <1>4

LEMMA PileStep ==
  ASSUME CooldownCovers, TypeOK, PileInv, [Next]_vars
  PROVE  PileInv'
<1>n. /\ now \in Nat /\ faults \in Nat /\ restarts \in Nat /\ sigId \in Nat /\ lastId \in 0..sigId
      /\ Slack \in Nat /\ AntiStack \in Nat /\ TrendingCooldown \in Nat
      /\ signal.ranging \in BOOLEAN /\ choice.ranging \in BOOLEAN
  BY TimesAssumption DEF TypeOK, Slack, Choice, TimesAssumption
<1>i. ASSUME NEW i \in 1..Len(opens)
      PROVE  /\ Pile(i) \in Nat /\ opens[i].time \in Nat /\ opens[i].time <= now
             /\ opens[i].dir \in Dirs /\ opens[i].dir # "none"
             /\ lastOpen[opens[i].dir] \in Int
             /\ Pile(i) <= 2 + Slack
             /\ now - opens[i].time < AntiStack => Pile(i) + ToCome(i) <= 2 + Slack
  BY PileTyped, DealTyped, DirsAssumption DEF PileInv, TypeOK, DirsAssumption
<1>s. ASSUME opens' = opens, now' \in Nat, now' >= now, Slack' \in Nat, Slack' >= Slack,
             \A i \in 1..Len(opens) : now - opens[i].time < AntiStack =>
                                        \/ Slack' > Slack /\ ToCome(i)' <= ToCome(i) + (Slack' - Slack)
                                        \/ ToCome(i)' <= ToCome(i)
      PROVE  PileInv'
  <2>1. ASSUME NEW i \in 1..Len(opens)
        PROVE  /\ opens[i].time <= now' /\ Pile(i) <= 2 + Slack'
               /\ now' - opens[i].time < AntiStack => Pile(i) + ToCome(i)' <= 2 + Slack'
    <3>1. ToCome(i) \in Nat /\ ToCome(i)' \in Nat
      BY DEF ToCome, One
    <3>2. Pile(i) \in Nat /\ Pile(i) <= 2 + Slack /\ Slack' >= Slack /\ Slack' \in Nat
          /\ opens[i].time \in Nat /\ opens[i].time <= now'
      BY <1>n, <1>i, <1>s
    <3>3. ASSUME now' - opens[i].time < AntiStack PROVE Pile(i) + ToCome(i)' <= 2 + Slack'
      <4>1. now - opens[i].time < AntiStack
        BY <1>n, <1>s, <3>2, <3>3
      <4>2. Pile(i) + ToCome(i) <= 2 + Slack
        BY <1>i, <4>1
      <4>3. ToCome(i)' <= ToCome(i) + (Slack' - Slack)
        BY <1>n, <1>s, <3>1, <3>2, <4>1
      <4> QED
        BY <1>n, <3>1, <3>2, <4>2, <4>3, SMTT(30)
    <3> QED
      BY <1>n, <3>2, <3>3
  <2>2. \A i \in 1..Len(opens) : Pile(i)' = Pile(i)
    BY <1>s DEF Pile
  <2> QED
    BY <1>s, <2>1, <2>2 DEF PileInv
<1>1. CASE EaOpens
  <2>0. /\ UNCHANGED <<now, faults, restarts, pc, choice, signal, sigId>> /\ Slack' = Slack
        /\ lastId' = sigId /\ sigId # lastId /\ signal.dir \in Dirs
        /\ lastOpen' = [lastOpen EXCEPT ![signal.dir] = now]
        /\ Len(opens) \in Nat /\ Len(opens') = Len(opens) + 1
        /\ \A i \in 1..Len(opens) : opens'[i] = opens[i]
        /\ opens'[Len(opens) + 1].dir = signal.dir /\ opens'[Len(opens) + 1].time = now
    BY <1>1, OneMoreDeal DEF Slack
  <2>1. ~RangeAsked(signal.dir)' /\ \A d : ~RangeAsked(d)' /\ (RangePicked(d)' <=> RangePicked(d))
    BY <2>0 DEF RangeAsked, RangePicked
  <2>2. ASSUME NEW i \in 1..Len(opens), now - opens[i].time < AntiStack
        PROVE  Pile(i)' + ToCome(i)' <= 2 + Slack
    <3>1. CASE opens[i].dir = signal.dir
      <4>1. RangeAsked(signal.dir) \/ Forgotten(i)
        <5>1. CASE signal.ranging
          BY <2>0, <5>1 DEF RangeAsked
        <5>2. CASE ~signal.ranging
          <6>1. now - lastOpen[signal.dir] >= TrendingCooldown
            BY <1>1, <5>2 DEF EaOpens, Cooled, CooldownOf
          <6> QED
            BY <1>n, <1>i, <2>2, <3>1, <6>1 DEF Forgotten, CooldownCovers
        <5> QED
          BY <1>n, <5>1, <5>2
      <4>2. ~Forgotten(i)'
        BY <1>n, <1>i, <2>0, <3>1 DEF Forgotten, TypeOK
      <4>3. Pile(i)' = Pile(i) + 1
        BY <1>1, <2>2, <3>1, PileGrows DEF One
      <4>4. ToCome(i) = 1 + One(RangePicked(signal.dir)) /\ ToCome(i)' = One(RangePicked(signal.dir))
        BY <2>0, <2>1, <3>1, <4>1, <4>2 DEF ToCome, One
      <4>5. One(RangePicked(signal.dir)) \in Nat
        BY DEF One
      <4> QED
        BY <1>n, <1>i, <2>2, <4>3, <4>4, <4>5
    <3>2. CASE opens[i].dir # signal.dir
      <4>1. Pile(i)' = Pile(i)
        BY <1>1, <1>i, <3>2, PileGrows DEF One
      <4>2. ToCome(i)' <= ToCome(i) /\ ToCome(i) \in Nat /\ ToCome(i)' \in Nat
        BY <1>i, <2>0, <2>1, <3>2 DEF ToCome, One, Forgotten, TypeOK
      <4> QED
        BY <1>n, <1>i, <2>2, <4>1, <4>2
    <3> QED
      BY <3>1, <3>2
  <2>3. ASSUME NEW i \in 1..Len(opens) PROVE Pile(i)' <= 2 + Slack
    <3>1. CASE now - opens[i].time < AntiStack
      <4>1. ToCome(i)' \in Nat /\ Pile(i)' \in Nat
        <5> DEFINE more == One(signal.dir = opens[i].dir /\ now - opens[i].time < AntiStack)
        <5>1. Pile(i)' = Pile(i) + more
          BY <1>1, PileGrows
        <5>2. more \in Nat
          BY DEF One
        <5> HIDE DEF more
        <5>3. ToCome(i)' \in Nat
          BY DEF ToCome, One
        <5> QED
          BY <1>i, <5>1, <5>2, <5>3
      <4> QED
        BY <1>n, <2>2, <3>1, <4>1
    <3>2. CASE ~(now - opens[i].time < AntiStack)
      BY <1>1, <1>i, <3>2, PileGrows DEF One
    <3> QED
      BY <3>1, <3>2
  <2>4. ASSUME NEW n \in Nat, n = Len(opens) + 1
        PROVE  Pile(n)' \in {0, 1} /\ ToCome(n)' \in {0, 1}
    <3>1. lastOpen'[signal.dir] = now
      BY <2>0 DEF TypeOK
    <3>2. ~Forgotten(n)'
      BY <1>n, <2>0, <2>4, <3>1 DEF Forgotten
    <3>3. ToCome(n)' \in {0, 1}
      BY <2>0, <2>1, <2>4, <3>2 DEF ToCome, One
    <3> QED
      BY <1>1, <2>4, <3>3, PileStarts
  <2>5. ASSUME NEW i \in 1..Len(opens')
        PROVE  /\ opens'[i].time <= now' /\ Pile(i)' <= 2 + Slack'
               /\ now' - opens'[i].time < AntiStack => Pile(i)' + ToCome(i)' <= 2 + Slack'
    <3>1. CASE i \in 1..Len(opens)
      BY <1>i, <2>0, <2>2, <2>3, <3>1
    <3>2. CASE i = Len(opens) + 1
      BY <1>n, <2>0, <2>4, <3>2
    <3> QED
      BY <2>0, <3>1, <3>2
  <2> QED
    BY <2>5 DEF PileInv
<1>2. CASE Tick \/ Midnight \/ LondonOpens \/ PositionCloses \/ Pause \/ Resume \/ UNCHANGED vars
  <2>1. UNCHANGED <<opens, sigId, lastId, signal, pc, choice, faults, restarts, lastOpen>>
        /\ now' \in {now, now + 1}
    BY <1>2 DEF Tick, Midnight, LondonOpens, PositionCloses, Pause, Resume, loopVars, fileVars,
       eaVars, brokerVars, vars
  <2>2. Slack' = Slack /\ \A i : ToCome(i)' = ToCome(i)
    BY <2>1 DEF Slack, ToCome, RangeAsked, RangePicked, Forgotten
  <2>3. \A i : ToCome(i) \in Nat
    BY DEF ToCome, One
  <2> QED
    BY <1>n, <1>s, <2>1, <2>2, <2>3
<1> USE DEF ToCome, One, RangeAsked, RangePicked, Forgotten
<1>3. CASE HaltedCycle
  <2>1. /\ UNCHANGED <<opens, now, lastId, pc, choice, faults, restarts, lastOpen>> /\ signal'.ranging = FALSE
    BY <1>3 DEF HaltedCycle, Write, Hold, eaVars, brokerVars
  <2> QED
    BY <1>n, <1>s, <2>1 DEF Slack
<1>4. CASE TradingCycle \/ LoopRestarts
  <2>1. /\ UNCHANGED <<opens, now, sigId, lastId, signal, faults, restarts, lastOpen>>
        /\ pc' \in {"wait", "body"}
    BY <1>4 DEF TradingCycle, LoopRestarts, fileVars, eaVars, brokerVars
  <2> QED
    BY <1>n, <1>s, <2>1 DEF Slack
<1>5. CASE Decide
  <2>1. /\ UNCHANGED <<opens, now, sigId, lastId, signal, faults, restarts, lastOpen>>
        /\ choice' = Hold \/ (choice' \in Wanted /\ ~StackBlocks(choice'))
    BY <1>5 DEF Decide, fileVars, eaVars, brokerVars
  <2>2. ASSUME NEW i \in 1..Len(opens), now - opens[i].time < AntiStack
        PROVE  ~(choice'.ranging /\ choice'.dir = opens[i].dir)
    BY <2>1, <2>2 DEF StackBlocks, Hold
  <2> QED
    BY <1>n, <1>s, <2>1, <2>2 DEF Slack
<1>6. CASE DecideBlind
  <2>1. /\ UNCHANGED <<opens, now, sigId, lastId, signal, restarts, lastOpen>>
        /\ faults' = faults + 1
    BY <1>6 DEF DecideBlind, Fault, fileVars, eaVars, brokerVars
  <2> QED
    BY <1>n, <1>s, <2>1 DEF Slack
<1>7. CASE Finish
  <2>1. /\ UNCHANGED <<opens, now, sigId, lastId, signal, choice, faults, restarts, lastOpen>>
        /\ pc = "gated" /\ pc' = "publish"
    BY <1>7 DEF Finish, fileVars, eaVars, brokerVars
  <2> QED
    BY <1>n, <1>s, <2>1 DEF Slack
<1>8. CASE CycleFails
  <2>1. /\ UNCHANGED <<opens, now, sigId, lastId, signal, choice, restarts, lastOpen>>
        /\ faults' = faults + 1
    BY <1>8 DEF CycleFails, Fault, fileVars, eaVars, brokerVars
  <2> QED
    BY <1>n, <1>s, <2>1 DEF Slack
<1>9. CASE Publish
  <2>1. /\ UNCHANGED <<opens, now, lastId, choice, faults, restarts, lastOpen>>
        /\ signal' = choice /\ pc = "publish" /\ pc' = "wait"
    BY <1>9 DEF Publish, Write, eaVars, brokerVars
  <2> QED
    BY <1>n, <1>s, <2>1 DEF Slack
<1>10. CASE EaPasses
  <2>1. /\ UNCHANGED <<opens, now, sigId, signal, pc, choice, faults, restarts, lastOpen>>
        /\ lastId' = sigId
    BY <1>10 DEF EaPasses, loopVars, fileVars, brokerVars
  <2> QED
    BY <1>n, <1>s, <2>1 DEF Slack
<1>11. CASE EaRestarts
  <2>1. /\ UNCHANGED <<opens, now, sigId, signal, pc, choice, faults>> /\ restarts' = restarts + 1
    BY <1>11 DEF EaRestarts, loopVars, fileVars, brokerVars
  <2> QED
    BY <1>n, <1>s, <2>1 DEF Slack
<1> QED
  BY <1>1, <1>2, <1>3, <1>4, <1>5, <1>6, <1>7, <1>8, <1>9, <1>10, <1>11 DEF Next

\* config.py:315: two entries in one direction may be close together and never three,
\* beyond one for each EA restart and each cycle or probe that failed, as long as the
\* trending cooldown of the EA covers the anti-stack window of the loop.
THEOREM EntriesDoNotPileUp == ASSUME CooldownCovers PROVE Spec => []NoPileUp
<1>1. Init => PileInv
  BY DEF Init, PileInv
<1>2. TypeOK /\ PileInv => NoPileUp
  BY DEF PileInv, NoPileUp, Pile
<1>3. TypeOK /\ PileInv /\ [Next]_vars => PileInv'
  BY PileStep
<1> QED
  BY <1>1, <1>2, <1>3, TypeInit, TypeStep, PTL DEF Spec
=============================================================================
