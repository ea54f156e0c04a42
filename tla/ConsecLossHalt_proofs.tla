----------------------- MODULE ConsecLossHalt_proofs -----------------------
(***************************************************************************)
(* For every limit, every set of P&L values and every bound: the halt is    *)
(* tripped exactly when ConsecLimit of today's trades lost in a row, and    *)
(* the module implements the daily latch, as long as no process dies inside *)
(* _save_state.                                                             *)
(***************************************************************************)
EXTENDS ConsecLossHalt, TLAPS

-----------------------------------------------------------------------------
(* The operations on a state *)

LEMMA FreshType == \A d \in Nat : Fresh(d) \in State
  BY ConsecLimitAssumption DEF ConsecLimitAssumption, Fresh, State

LEMMA RolledType == \A s \in State, d \in Nat : Rolled(s, d) \in State
  BY FreshType DEF Rolled

LEMMA RecordedType ==
  ASSUME NEW s \in State, NEW pnl \in Int
  PROVE  Recorded(s, pnl) \in State
<1> USE ConsecLimitAssumption DEF ConsecLimitAssumption
<1> DEFINE streak == IF pnl < 0 THEN s.consec_losses + 1 ELSE 0
<1>1. CASE s.tripped
  BY <1>1 DEF Recorded
<1>2. CASE ~s.tripped
  <2>1. /\ streak \in 0..ConsecLimit
        /\ (streak >= ConsecLimit) <=> (streak = ConsecLimit)
    BY <1>2 DEF State
  <2>2. Recorded(s, pnl) = [consec_losses |-> streak, tripped |-> streak >= ConsecLimit,
                            last_reset_date |-> s.last_reset_date]
    BY <1>2 DEF Recorded, State
  <2>3. s.last_reset_date \in Nat
    BY DEF State
  <2> HIDE DEF streak
  <2>4. /\ Recorded(s, pnl) \in [consec_losses : 0..ConsecLimit, tripped : BOOLEAN,
                                last_reset_date : Nat]
        /\ Recorded(s, pnl).tripped = (streak >= ConsecLimit)
        /\ Recorded(s, pnl).consec_losses = streak
    BY <2>1, <2>2, <2>3
  <2> QED BY <2>1, <2>4 DEF State
<1> QED BY <1>1, <1>2

\* State s describes the P&L sequence t: its streak is the losing tail of t,
\* and it is tripped exactly when t holds a losing run.
Describes(s, t) ==
  /\ s.tripped => HasLosingRun(t)
  /\ ~s.tripped =>
       /\ ~HasLosingRun(t)
       /\ s.consec_losses <= Len(t)
       /\ \A j \in 1..Len(t) : j > Len(t) - s.consec_losses => t[j] < 0
       /\ s.consec_losses < Len(t) => t[Len(t) - s.consec_losses] >= 0

LEMMA FreshDescribes == \A d \in Nat : Describes(Fresh(d), <<>>)
  BY ConsecLimitAssumption
     DEF ConsecLimitAssumption, Describes, Fresh, HasLosingRun

LEMMA AppendKeepsRun ==
  ASSUME NEW t \in Seq(Int), NEW pnl \in Int, HasLosingRun(t)
  PROVE  HasLosingRun(Append(t, pnl))
<1> USE ConsecLimitAssumption DEF ConsecLimitAssumption
<1>1. PICK i \in 1..Len(t) :
        /\ i + ConsecLimit - 1 <= Len(t)
        /\ \A j \in i..(i + ConsecLimit - 1) : t[j] < 0
  BY DEF HasLosingRun
<1>2. /\ Len(Append(t, pnl)) = Len(t) + 1
      /\ \A j \in 1..Len(t) : Append(t, pnl)[j] = t[j]
  OBVIOUS
<1> QED BY <1>1, <1>2, SMTT(30) DEF HasLosingRun

LEMMA RecordedDescribes ==
  ASSUME NEW s \in State, NEW t \in Seq(Int), NEW pnl \in Int, Describes(s, t)
  PROVE  Describes(Recorded(s, pnl), Append(t, pnl))
<1> USE ConsecLimitAssumption DEF ConsecLimitAssumption
<1> DEFINE u == Append(t, pnl)
           n == Len(t)
           k == s.consec_losses
           streak == IF pnl < 0 THEN k + 1 ELSE 0
<1>1. /\ Len(u) = n + 1
      /\ u[n + 1] = pnl
      /\ \A j \in 1..n : u[j] = t[j]
      /\ n \in Nat
  OBVIOUS
<1>2. CASE s.tripped
  BY <1>2, AppendKeepsRun DEF Describes, Recorded
<1>3. CASE ~s.tripped
  <2>1. /\ k \in Nat /\ k < ConsecLimit /\ k <= n
        /\ \A j \in 1..n : j > n - k => t[j] < 0
        /\ k < n => t[n - k] >= 0
        /\ ~HasLosingRun(t)
    BY <1>3 DEF Describes, State
  <2>2. Recorded(s, pnl) = [consec_losses |-> streak, tripped |-> streak >= ConsecLimit,
                            last_reset_date |-> s.last_reset_date]
    BY <1>3 DEF Recorded, State
  <2> HIDE DEF u, n, k
  <2>3. streak \in Nat /\ streak <= n + 1 /\ n \in Nat
    BY <1>1, <2>1
  <2>4. \A j \in 1..(n + 1) : j > n + 1 - streak => u[j] < 0
    BY <1>1, <2>1
  <2>5. streak < n + 1 => u[n + 1 - streak] >= 0
    BY <1>1, <2>1
  <2>6. streak >= ConsecLimit => HasLosingRun(u)
    <3> SUFFICES ASSUME streak >= ConsecLimit PROVE HasLosingRun(u)
      OBVIOUS
    <3> DEFINE i == n + 2 - ConsecLimit
    <3>1. i \in 1..(n + 1) /\ i + ConsecLimit - 1 = n + 1
      BY <1>1, <2>3
    <3>2. \A j \in i..(n + 1) : u[j] < 0
      BY <1>1, <2>3, <2>4, <3>1
    <3> HIDE DEF i
    <3>3. /\ i \in 1..Len(u) /\ i + ConsecLimit - 1 <= Len(u)
          /\ \A j \in i..(i + ConsecLimit - 1) : u[j] < 0
      BY <1>1, <3>1, <3>2
    <3> QED BY <3>3 DEF HasLosingRun
  <2>7. streak < ConsecLimit => ~HasLosingRun(u)
    <3> SUFFICES ASSUME streak < ConsecLimit,
                        NEW i \in 1..(n + 1),
                        i + ConsecLimit - 1 <= n + 1,
                        \A j \in i..(i + ConsecLimit - 1) : u[j] < 0
                 PROVE  FALSE
      BY <1>1 DEF HasLosingRun
    <3>1. CASE i + ConsecLimit - 1 = n + 1
      <4>1. n + 1 - streak \in i..(n + 1)
        BY <1>1, <2>3, <3>1
      <4>2. streak < n + 1
        BY <1>1, <2>3, <3>1, <4>1
      <4> QED BY <2>5, <3>1, <4>1, <4>2, <1>1 DEF u
    <3>2. CASE i + ConsecLimit - 1 <= n
      <4>1. \A j \in i..(i + ConsecLimit - 1) : t[j] < 0
        BY <1>1, <3>2
      <4>2. i \in 1..n
        BY <1>1, <3>2
      <4> QED BY <2>1, <3>2, <4>1, <4>2 DEF HasLosingRun, n
    <3> QED BY <1>1, <3>1, <3>2
  <2> HIDE DEF streak
  <2>8. Len(u) = n + 1
    BY <1>1
  <2> DEFINE r == Recorded(s, pnl)
  <2>9. r.tripped = (streak >= ConsecLimit)
    BY <2>2
  <2>11. r.consec_losses = streak
    BY <2>2
  <2> HIDE DEF r
  <2>10. Describes(r, u)
    <3>1. CASE streak >= ConsecLimit
      <4>1. r.tripped
        BY <2>9, <3>1
      <4> QED BY <4>1, <2>6, <3>1 DEF Describes
    <3>2. CASE ~(streak >= ConsecLimit)
      <4>1. ~r.tripped
        BY <2>9, <3>2
      <4>2. streak < ConsecLimit
        BY <2>3, <3>2
      <4> QED BY <4>1, <4>2, <2>3, <2>4, <2>5, <2>7, <2>8, <2>11 DEF Describes
    <3> QED BY <3>1, <3>2
  <2> QED BY <2>10 DEF r, u
<1> QED BY <1>2, <1>3
-----------------------------------------------------------------------------
(* The inductive invariant *)

\* Outside a save the file answers what the memory answers, if a process runs.
Durable ==
  /\ ~up => ~saving
  /\ up /\ ~saving => Rolled(Loaded(today), today) = Rolled(mem, today)

\* No state was reset on a day to come.
DatesOK == mem.last_reset_date <= today /\ file.last_reset_date <= today

IInv == TypeOK /\ Durable /\ DatesOK /\ Describes(Effective, trades)

LEMMA RolledSame ==
  ASSUME NEW s \in State, NEW d \in Nat, s.last_reset_date <= d
  PROVE  /\ Rolled(s, d).last_reset_date = d
         /\ Rolled(Rolled(s, d), d) = Rolled(s, d)
         /\ Rolled(s, d + 1) = Fresh(d + 1)
  BY DEF Rolled, Fresh, State

LEMMA RecordedDate ==
  ASSUME NEW s \in State, NEW pnl \in Int
  PROVE  Recorded(s, pnl).last_reset_date = s.last_reset_date
  BY DEF Recorded, State

\* What a restart would load is a state of no later day.
LEMMA LoadedOK ==
  ASSUME TypeOK, DatesOK
  PROVE  Loaded(today) \in State /\ Loaded(today).last_reset_date <= today
<1>1. Fresh(today).last_reset_date = today
  BY DEF Fresh
<1> QED BY <1>1, FreshType DEF Loaded, TypeOK, DatesOK

LEMMA TypeStep ==
  ASSUME TypeOK, [Next]_vars
  PROVE  TypeOK'
<1> USE DEF TypeOK
<1>0. Fresh(today) \in State /\ Rolled(mem, today) \in State
  BY FreshType, RolledType
<1>1. CASE Start
  BY <1>1, <1>0 DEF Start, Loaded
<1>2. CASE IsTripped
  BY <1>2, <1>0 DEF IsTripped, BeginSave
<1>3. ASSUME NEW pnl \in Pnls, Record(pnl) PROVE TypeOK'
  <2>1. pnl \in Int
    BY PnlsAssumption DEF PnlsAssumption
  <2>2. mem' \in State
    BY <1>3, <1>0, <2>1, RecordedType DEF Record
  <2>3. trades' \in Seq(Int)
    BY <1>3, <2>1 DEF Record
  <2> QED BY <1>3, <2>2, <2>3 DEF Record, BeginSave
<1>4. CASE Reset
  BY <1>4, <1>0 DEF Reset, BeginSave
<1>5. CASE SaveDone
  BY <1>5 DEF SaveDone
<1>6. CASE Crash
  BY <1>6 DEF Crash
<1>7. CASE Midnight
  BY <1>7, BoundsAssumption DEF Midnight
<1>8. CASE UNCHANGED vars
  BY <1>8 DEF vars
<1> QED BY <1>1, <1>2, <1>3, <1>4, <1>5, <1>6, <1>7, <1>8 DEF Next

\* The variables hold values of their types in every reachable state.
THEOREM TypeCorrect == Spec => []TypeOK
<1>1. Init => TypeOK
  <2>1. Fresh(0) \in State
    BY FreshType
  <2>2. <<>> \in Seq(Int) /\ 0 \in Nat
    OBVIOUS
  <2> QED BY <2>1, <2>2 DEF Init, TypeOK
<1>2. TypeOK /\ [Next]_vars => TypeOK'
  BY TypeStep
<1> QED BY <1>1, <1>2, PTL DEF Spec

\* What a step does to the decision: nothing, one more record, a new day, or
\* the operator's reset.
EffectiveStep ==
  \/ Effective' = Effective /\ trades' = trades /\ UNCHANGED <<today, resets>>
  \/ \E pnl \in Pnls : /\ Effective' = Recorded(Effective, pnl)
                       /\ trades' = Append(trades, pnl) /\ UNCHANGED <<today, resets>>
  \/ Effective' = Fresh(today + 1) /\ trades' = <<>> /\ today' = today + 1 /\ resets' = resets
  \/ Effective' = Fresh(today) /\ trades' = <<>> /\ today' = today /\ resets' = resets + 1

\* The memory and the file stay in step, and only the operator, a record or
\* midnight changes the decision, across every save and restart.
LEMMA StepLemma ==
  ASSUME TornWrites = FALSE, TypeOK, Durable, DatesOK, [Next]_vars
  PROVE  Durable' /\ DatesOK' /\ EffectiveStep
<1> DEFINE s == Rolled(mem, today)
<1>0. /\ today \in Nat /\ mem \in State /\ file \in State
      /\ mem.last_reset_date \in Nat /\ file.last_reset_date \in Nat
      /\ mem.last_reset_date <= today /\ file.last_reset_date <= today
      /\ s \in State /\ s.last_reset_date = today /\ Rolled(s, today) = s
      /\ Loaded(today) \in State /\ Loaded(today).last_reset_date <= today
  BY RolledType, RolledSame, LoadedOK DEF TypeOK, DatesOK, State
<1>1. CASE Start
  <2>1. Effective' = Effective /\ trades' = trades /\ UNCHANGED <<today, resets>>
    BY <1>1 DEF Start, Effective, Loaded
  <2>2. Durable' /\ DatesOK'
    BY <1>0, <1>1 DEF Start, Durable, DatesOK, Loaded
  <2> QED BY <2>1, <2>2 DEF EffectiveStep
<1>2. CASE IsTripped
  <2>1. Effective' = Effective /\ trades' = trades /\ UNCHANGED <<today, resets>>
    BY <1>0, <1>2 DEF IsTripped, Effective
  <2>2. Durable' /\ DatesOK'
    BY <1>0, <1>2 DEF IsTripped, BeginSave, Durable, DatesOK
  <2> QED BY <2>1, <2>2 DEF EffectiveStep
<1>3. ASSUME NEW pnl \in Pnls, Record(pnl)
      PROVE  Durable' /\ DatesOK' /\ EffectiveStep
  <2>1. pnl \in Int /\ up /\ Effective = s
    BY <1>3, PnlsAssumption DEF PnlsAssumption, Record, Effective
  <2>2. /\ mem' = Recorded(s, pnl) /\ mem'.last_reset_date = today
        /\ UNCHANGED <<today, resets>> /\ trades' = Append(trades, pnl)
    BY <1>3, <1>0, <2>1, RecordedDate DEF Record
  <2>3. Effective' = Recorded(s, pnl)
    <3>1. Effective' = Rolled(mem', today)
      BY <1>3, <2>1, <2>2 DEF Record, Effective
    <3> QED BY <3>1, <2>2 DEF Rolled
  <2>4. Durable'
    <3>1. CASE s.tripped
      <4>1. Recorded(s, pnl) = s
        BY <3>1 DEF Recorded
      <4>2. UNCHANGED <<readable, file, saving, today, up>> /\ mem' = s
        BY <1>3, <3>1, <2>2, <4>1 DEF Record
      <4>3. Loaded(today)' = Loaded(today)
        BY <4>2 DEF Loaded
      <4> QED BY <1>3, <4>2, <4>3, <1>0 DEF Durable, Record
    <3>2. CASE ~s.tripped
      BY <1>3, <3>2 DEF Record, BeginSave, Durable
    <3> QED BY <3>1, <3>2
  <2>5. DatesOK'
    BY <1>3, <1>0, <2>2 DEF Record, BeginSave, DatesOK
  <2> QED BY <2>1, <2>2, <2>3, <2>4, <2>5 DEF EffectiveStep
<1>4. CASE Reset
  <2>1. /\ resets' = resets + 1 /\ Effective' = Fresh(today) /\ trades' = <<>>
        /\ today' = today /\ mem'.last_reset_date = today
    BY <1>4 DEF Reset, Effective, Rolled, Fresh
  <2>2. Durable' /\ DatesOK'
    BY <1>0, <1>4, <2>1 DEF Reset, BeginSave, Durable, DatesOK
  <2> QED BY <2>1, <2>2 DEF EffectiveStep
<1>5. CASE SaveDone
  <2>0. up
    BY <1>5 DEF SaveDone, Durable, TypeOK
  <2>1. Effective' = Effective /\ trades' = trades /\ UNCHANGED <<today, resets>>
    BY <1>5, <2>0 DEF SaveDone, Effective
  <2>2. Durable' /\ DatesOK'
    BY <1>0, <1>5, <2>0 DEF SaveDone, Durable, DatesOK, Loaded
  <2> QED BY <2>1, <2>2 DEF EffectiveStep
<1>6. CASE Crash
  <2>0. up /\ ~saving
    BY <1>6 DEF Crash
  <2>1. UNCHANGED <<today, resets, mem, file, trades, readable>> /\ ~up' /\ ~saving'
    BY <1>6, <2>0 DEF Crash
  <2>2. Effective' = Effective
    BY <2>0, <2>1 DEF Effective, Loaded, Durable
  <2>3. Durable' /\ DatesOK'
    BY <1>0, <2>1 DEF Durable, DatesOK
  <2> QED BY <2>1, <2>2, <2>3 DEF EffectiveStep
<1>7. CASE Midnight
  <2>1. /\ today' = today + 1 /\ trades' = <<>>
        /\ UNCHANGED <<up, mem, readable, file, saving, resets>>
    BY <1>7 DEF Midnight
  <2>2. Rolled(mem, today + 1) = Fresh(today + 1)
    BY <1>0, RolledSame
  <2>3. Rolled(Loaded(today)', today + 1) = Fresh(today + 1)
    <3>1. CASE readable
      BY <3>1, <2>1, <1>0, RolledSame DEF Loaded
    <3>2. CASE ~readable
      BY <3>2, <2>1 DEF Loaded, Rolled
    <3> QED BY <3>1, <3>2
  <2>4. Effective' = Fresh(today + 1)
    BY <2>1, <2>2, <2>3 DEF Effective
  <2>5. Durable' /\ DatesOK'
    BY <1>0, <2>1, <2>2, <2>3 DEF Durable, DatesOK
  <2> QED BY <2>1, <2>4, <2>5 DEF EffectiveStep
<1>8. CASE UNCHANGED vars
  <2>1. Effective' = Effective /\ trades' = trades /\ UNCHANGED <<today, resets>>
    BY <1>8 DEF vars, Effective, Loaded
  <2>2. Durable' /\ DatesOK'
    BY <1>8 DEF vars, Durable, DatesOK, Loaded
  <2> QED BY <2>1, <2>2 DEF EffectiveStep
<1> QED BY <1>1, <1>2, <1>3, <1>4, <1>5, <1>6, <1>7, <1>8 DEF Next

\* The decision is a state, and describes today's trades.
LEMMA EffectiveType ==
  ASSUME TypeOK, DatesOK
  PROVE  Effective \in State
BY LoadedOK, RolledType DEF Effective, TypeOK

LEMMA StepDescribes ==
  ASSUME IInv, EffectiveStep
  PROVE  Describes(Effective, trades)'
<1>0. today \in Nat /\ Effective \in State /\ trades \in Seq(Int)
  BY EffectiveType DEF IInv, TypeOK
<1>1. CASE Effective' = Effective /\ trades' = trades
  BY <1>1 DEF IInv
<1>2. ASSUME NEW pnl \in Pnls,
             Effective' = Recorded(Effective, pnl) /\ trades' = Append(trades, pnl)
      PROVE  Describes(Effective, trades)'
  <2>1. pnl \in Int
    BY PnlsAssumption DEF PnlsAssumption
  <2>2. Describes(Recorded(Effective, pnl), Append(trades, pnl))
    BY <1>0, <2>1, RecordedDescribes DEF IInv
  <2> QED BY <1>2, <2>2 DEF Describes, HasLosingRun
<1>3. CASE /\ Effective' = Fresh(today) \/ Effective' = Fresh(today + 1)
           /\ trades' = <<>>
  <2>1. Describes(Fresh(today), <<>>) /\ Describes(Fresh(today + 1), <<>>)
    BY <1>0, FreshDescribes
  <2> QED BY <1>3, <2>1 DEF Describes, HasLosingRun
<1> QED BY <1>1, <1>2, <1>3 DEF EffectiveStep

\* IInv holds in every reachable state.
LEMMA Inductive ==
  ASSUME TornWrites = FALSE
  PROVE  Spec => []IInv
<1>1. Init => IInv
  <2> SUFFICES ASSUME Init PROVE IInv
    OBVIOUS
  <2>1. Rolled(Fresh(0), 0) = Fresh(0)
    BY DEF Rolled, Fresh
  <2>2. Describes(Effective, trades)
    BY <2>1, FreshDescribes DEF Init, Effective, Loaded
  <2>3. TypeOK
    <3>1. Fresh(0) \in State /\ <<>> \in Seq(Int) /\ 0 \in Nat
      BY FreshType
    <3> QED BY <3>1 DEF Init, TypeOK
  <2> QED BY <2>2, <2>3 DEF Init, IInv, Durable, DatesOK, Fresh
<1>2. IInv /\ [Next]_vars => IInv'
  BY TypeStep, StepLemma, StepDescribes DEF IInv
<1> QED BY <1>1, <1>2, PTL DEF Spec

-----------------------------------------------------------------------------
(* The theorems *)

\* The halt is active exactly when ConsecLimit trades recorded today lost in a
\* row, however often the process restarted, operator resets included.
THEOREM HaltIsLosingRun ==
  ASSUME TornWrites = FALSE
  PROVE  Spec => []TrippedIffLosingRun
<1>1. IInv => TrippedIffLosingRun
  BY DEF IInv, Describes, TrippedIffLosingRun, Tripped
<1> QED BY <1>1, Inductive, PTL

\* The halt with its file and its restarts implements the daily latch.
THEOREM HaltImplementsDailyLatch ==
  ASSUME TornWrites = FALSE
  PROVE  Spec => ImplementsDailyLatch
<1>1. Init => Latch!LatchInit
  <2>1. ~Rolled(Fresh(0), 0).tripped
    BY DEF Rolled, Fresh
  <2> QED BY <2>1 DEF Init, Latch!LatchInit, Tripped, Effective, Loaded, Fresh, Rolled
<1>2. IInv /\ [Next]_vars => [Latch!LatchNext]_Latch!latchVars
  <2> SUFFICES ASSUME IInv, [Next]_vars PROVE [Latch!LatchNext]_Latch!latchVars
    OBVIOUS
  <2>1. EffectiveStep
    BY StepLemma DEF IInv
  <2>2. Effective \in State /\ Effective' \in State
    BY <2>1, EffectiveType, RecordedType, FreshType, PnlsAssumption
       DEF EffectiveStep, IInv, TypeOK, PnlsAssumption
  <2>3. Tripped \in BOOLEAN /\ Tripped' \in BOOLEAN
    BY <2>2 DEF Tripped, State
  <2>4. CASE Effective' = Effective /\ UNCHANGED <<today, resets>>
    BY <2>4 DEF Tripped, Latch!latchVars
  <2>5. CASE \E pnl \in Pnls : Effective' = Recorded(Effective, pnl) /\ UNCHANGED <<today, resets>>
    <3>1. CASE Tripped
      BY <2>5, <3>1 DEF Recorded, Tripped, Latch!latchVars
    <3>2. CASE ~Tripped
      <4>1. CASE Tripped'
        BY <2>3, <2>5, <3>2, <4>1 DEF Latch!LatchNext, Latch!Trip
      <4>2. CASE ~Tripped'
        BY <2>3, <2>5, <3>2, <4>2 DEF Latch!latchVars
      <4> QED BY <4>1, <4>2
    <3> QED BY <3>1, <3>2
  <2>6. CASE \/ Effective' = Fresh(today + 1) /\ today' = today + 1 /\ resets' = resets
             \/ Effective' = Fresh(today) /\ today' = today /\ resets' = resets + 1
    <3>1. today \in Nat /\ resets \in Nat
      BY DEF IInv, TypeOK
    <3>2. today' + resets' = today + resets + 1
      BY <2>6, <3>1
    <3> QED BY <2>6, <3>2 DEF Latch!LatchNext, Latch!NewDay, Tripped, Fresh
  <2> QED BY <2>1, <2>4, <2>5, <2>6 DEF EffectiveStep
<1> QED BY <1>1, <1>2, Inductive, PTL DEF Spec, ImplementsDailyLatch, Latch!LatchSpec
=============================================================================
