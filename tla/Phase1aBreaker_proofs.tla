----------------------- MODULE Phase1aBreaker_proofs -----------------------
(***************************************************************************)
(* For every pair of limits, every set of P&L values and every bound: the   *)
(* breaker is open exactly when today's running totals reached a limit at   *)
(* some trade, and the module implements the daily latch, as long as no     *)
(* process dies inside _save_state.                                         *)
(***************************************************************************)
EXTENDS Phase1aBreaker, TLAPS

-----------------------------------------------------------------------------
(* The operations on a state *)

LEMMA FreshType == \A d \in Nat : BreakerFresh(d) \in BreakerState
  BY LimitsAssumption DEF LimitsAssumption, BreakerFresh, BreakerState

LEMMA RolledType == \A s \in BreakerState, d \in Nat : BreakerRolled(s, d) \in BreakerState
  BY FreshType DEF BreakerRolled

LEMMA RecordedType ==
  ASSUME NEW s \in BreakerState, NEW pnl \in Int
  PROVE  BreakerRecorded(s, pnl) \in BreakerState
<1> USE LimitsAssumption DEF LimitsAssumption
<1> DEFINE losses == s.losses + (IF pnl < 0 THEN 1 ELSE 0)
           total  == s.pnl_usd + pnl
<1>1. CASE s.tripped
  BY <1>1 DEF BreakerRecorded
<1>2. CASE ~s.tripped
  <2>1. /\ losses \in 0..LossLimit /\ total \in Int
        /\ losses >= LossLimit <=> losses = LossLimit
    BY <1>2 DEF BreakerState
  <2>2. BreakerRecorded(s, pnl) = [losses |-> losses, pnl_usd |-> total,
                            tripped |-> losses >= LossLimit \/ total <= PnlLimit,
                            last_reset_date |-> s.last_reset_date]
    BY <1>2 DEF BreakerRecorded, BreakerState
  <2>3. s.last_reset_date \in Nat
    BY DEF BreakerState
  <2> HIDE DEF losses, total
  <2>4. /\ BreakerRecorded(s, pnl) \in [losses : 0..LossLimit, pnl_usd : Int, tripped : BOOLEAN,
                                last_reset_date : Nat]
        /\ BreakerRecorded(s, pnl).tripped = (losses >= LossLimit \/ total <= PnlLimit)
        /\ BreakerRecorded(s, pnl).losses = losses
        /\ BreakerRecorded(s, pnl).pnl_usd = total
    BY <2>1, <2>2, <2>3
  <2> QED BY <2>1, <2>4 DEF BreakerState
<1> QED BY <1>1, <1>2

LEMMA WithTradeType ==
  ASSUME NEW t \in Seq(Totals), NEW pnl \in Int
  PROVE  /\ WithTrade(t, pnl) \in Seq(Totals)
         /\ Len(WithTrade(t, pnl)) = Len(t) + 1
         /\ \A i \in 1..Len(t) : WithTrade(t, pnl)[i] = t[i]
<1> DEFINE prev == IF t = <<>> THEN [losses |-> 0, pnl |-> 0] ELSE t[Len(t)]
           new  == [losses |-> prev.losses + (IF pnl < 0 THEN 1 ELSE 0), pnl |-> prev.pnl + pnl]
<1>1. prev \in Totals
  <2>1. CASE t = <<>>
    BY <2>1 DEF Totals
  <2>2. CASE t # <<>>
    <3>1. Len(t) \in 1..Len(t)
      BY <2>2
    <3>2. t[Len(t)] \in Totals
      BY <3>1
    <3> QED BY <2>2, <3>2
  <2> QED BY <2>1, <2>2
<1> HIDE DEF prev
<1>2. new \in Totals
  BY <1>1 DEF Totals
<1>3. WithTrade(t, pnl) = Append(t, new)
  BY DEF WithTrade, prev
<1> HIDE DEF new
<1> QED BY <1>2, <1>3

\* State s describes the running totals t: it holds the last of them, and it
\* is tripped exactly when one of them reached a limit.
Describes(s, t) ==
  /\ s.tripped => LimitReached(t)
  /\ ~s.tripped =>
       /\ ~LimitReached(t)
       /\ s.losses = IF t = <<>> THEN 0 ELSE t[Len(t)].losses
       /\ s.pnl_usd = IF t = <<>> THEN 0 ELSE t[Len(t)].pnl

LEMMA FreshDescribes == \A d \in Nat : Describes(BreakerFresh(d), <<>>)
  BY DEF Describes, BreakerFresh, LimitReached

LEMMA RecordedDescribes ==
  ASSUME NEW s \in BreakerState, NEW t \in Seq(Totals), NEW pnl \in Int, Describes(s, t)
  PROVE  Describes(BreakerRecorded(s, pnl), WithTrade(t, pnl))
<1> USE LimitsAssumption DEF LimitsAssumption
<1> DEFINE u == WithTrade(t, pnl)
           losses == s.losses + (IF pnl < 0 THEN 1 ELSE 0)
           total  == s.pnl_usd + pnl
<1>0. Len(t) \in Nat
  OBVIOUS
<1>1. /\ u \in Seq(Totals)
      /\ Len(u) = Len(t) + 1 /\ Len(t) \in Nat
      /\ \A i \in 1..Len(t) : u[i] = t[i]
  BY <1>0, WithTradeType, Zenon
<1>2. CASE s.tripped
  <2>1. LimitReached(t) /\ BreakerRecorded(s, pnl) = s
    BY <1>2 DEF Describes, BreakerRecorded
  <2> HIDE DEF u
  <2>2. LimitReached(u)
    BY <1>1, <2>1 DEF LimitReached
  <2> QED BY <1>2, <2>1, <2>2 DEF Describes, u
<1>3. CASE ~s.tripped
  <2>1. u[Len(u)].losses = losses /\ u[Len(u)].pnl = total
    BY <1>3 DEF Describes, WithTrade
  <2>2. ~LimitReached(t)
    BY <1>3 DEF Describes
  <2>3. BreakerRecorded(s, pnl) = [losses |-> losses, pnl_usd |-> total,
                            tripped |-> losses >= LossLimit \/ total <= PnlLimit,
                            last_reset_date |-> s.last_reset_date]
    BY <1>3 DEF BreakerRecorded, BreakerState
  <2> DEFINE r == BreakerRecorded(s, pnl)
  <2>4. r.losses = losses /\ r.pnl_usd = total
    BY <2>3
  <2>5. r.tripped = (losses >= LossLimit \/ total <= PnlLimit)
    BY <2>3
  <2> HIDE DEF u, losses, total, r
  <2>6. LimitReached(u) <=> (losses >= LossLimit \/ total <= PnlLimit)
    BY <1>1, <2>1, <2>2 DEF LimitReached
  <2>7. u # <<>>
    BY <1>1
  <2>8. Describes(r, u)
    <3>1. CASE losses >= LossLimit \/ total <= PnlLimit
      <4>1. r.tripped
        BY <2>5, <3>1
      <4> QED BY <4>1, <2>6, <3>1 DEF Describes
    <3>2. CASE ~(losses >= LossLimit \/ total <= PnlLimit)
      <4>1. ~r.tripped
        BY <2>5, <3>2
      <4> QED BY <4>1, <2>1, <2>4, <2>6, <2>7, <3>2 DEF Describes
    <3> QED BY <3>1, <3>2
  <2> QED BY <2>8 DEF r, u
<1> QED BY <1>2, <1>3
-----------------------------------------------------------------------------
(* The inductive invariant *)

\* Outside a save the file answers what the memory answers, if a process runs.
Durable ==
  /\ ~breakerUp => ~breakerSaving
  /\ breakerUp /\ ~breakerSaving =>
       BreakerRolled(BreakerLoaded(breakerDay), breakerDay) = BreakerRolled(breakerMem, breakerDay)

\* No state was reset on a day to come.
DatesOK == breakerMem.last_reset_date <= breakerDay /\ breakerFile.last_reset_date <= breakerDay

IInv == BreakerTypeOK /\ Durable /\ DatesOK /\ Describes(BreakerEffective, totals)

LEMMA RolledSame ==
  ASSUME NEW s \in BreakerState, NEW d \in Nat, s.last_reset_date <= d
  PROVE  /\ BreakerRolled(s, d).last_reset_date = d
         /\ BreakerRolled(BreakerRolled(s, d), d) = BreakerRolled(s, d)
         /\ BreakerRolled(s, d + 1) = BreakerFresh(d + 1)
  BY DEF BreakerRolled, BreakerFresh, BreakerState

LEMMA RecordedDate ==
  ASSUME NEW s \in BreakerState, NEW pnl \in Int
  PROVE  BreakerRecorded(s, pnl).last_reset_date = s.last_reset_date
  BY DEF BreakerRecorded, BreakerState

\* What a restart would load is a state of no later day.
LEMMA LoadedOK ==
  ASSUME BreakerTypeOK, DatesOK
  PROVE  BreakerLoaded(breakerDay) \in BreakerState /\ BreakerLoaded(breakerDay).last_reset_date <= breakerDay
<1>1. BreakerFresh(breakerDay).last_reset_date = breakerDay
  BY DEF BreakerFresh
<1> QED BY <1>1, FreshType DEF BreakerLoaded, BreakerTypeOK, DatesOK

LEMMA TypeStep ==
  ASSUME BreakerTypeOK, [BreakerNext]_breakerVars
  PROVE  BreakerTypeOK'
<1> USE DEF BreakerTypeOK
<1>0. BreakerFresh(breakerDay) \in BreakerState /\ BreakerRolled(breakerMem, breakerDay) \in BreakerState
  BY FreshType, RolledType
<1>1. CASE BreakerStart
  BY <1>1, <1>0 DEF BreakerStart, BreakerLoaded
<1>2. CASE BreakerIsTripped
  BY <1>2, <1>0 DEF BreakerIsTripped, BreakerBeginSave
<1>3. ASSUME NEW pnl \in BreakerPnls, RecordTradeClose(pnl) PROVE BreakerTypeOK'
  <2>1. pnl \in Int
    BY BreakerPnlsAssumption DEF BreakerPnlsAssumption
  <2>2. breakerMem' \in BreakerState
    BY <1>3, <1>0, <2>1, RecordedType DEF RecordTradeClose
  <2>3. totals' \in Seq(Totals)
    BY <1>3, <2>1, WithTradeType DEF RecordTradeClose
  <2> QED BY <1>3, <2>2, <2>3 DEF RecordTradeClose, BreakerBeginSave
<1>4. CASE BreakerReset
  BY <1>4, <1>0 DEF BreakerReset, BreakerBeginSave
<1>5. CASE BreakerSaveDone
  BY <1>5 DEF BreakerSaveDone
<1>6. CASE BreakerCrash
  BY <1>6 DEF BreakerCrash
<1>7. CASE BreakerMidnight
  BY <1>7, BreakerBoundsAssumption DEF BreakerMidnight
<1>8. CASE UNCHANGED breakerVars
  BY <1>8 DEF breakerVars
<1> QED BY <1>1, <1>2, <1>3, <1>4, <1>5, <1>6, <1>7, <1>8 DEF BreakerNext

\* The variables hold values of their types in every reachable state.
THEOREM TypeCorrect == BreakerSpec => []BreakerTypeOK
<1>1. BreakerInit => BreakerTypeOK
  <2>1. BreakerFresh(0) \in BreakerState
    BY FreshType
  <2>2. <<>> \in Seq(Totals) /\ 0 \in Nat
    OBVIOUS
  <2> QED BY <2>1, <2>2 DEF BreakerInit, BreakerTypeOK
<1>2. BreakerTypeOK /\ [BreakerNext]_breakerVars => BreakerTypeOK'
  BY TypeStep
<1> QED BY <1>1, <1>2, PTL DEF BreakerSpec

\* What a step does to the decision: nothing, one more record, a new day, or
\* the operator's reset.
EffectiveStep ==
  \/ BreakerEffective' = BreakerEffective /\ totals' = totals /\ UNCHANGED <<breakerDay, breakerResets>>
  \/ \E pnl \in BreakerPnls : /\ BreakerEffective' = BreakerRecorded(BreakerEffective, pnl)
                       /\ totals' = WithTrade(totals, pnl) /\ UNCHANGED <<breakerDay, breakerResets>>
  \/ /\ BreakerEffective' = BreakerFresh(breakerDay + 1) /\ totals' = <<>>
     /\ breakerDay' = breakerDay + 1 /\ breakerResets' = breakerResets
  \/ /\ BreakerEffective' = BreakerFresh(breakerDay) /\ totals' = <<>>
     /\ breakerDay' = breakerDay /\ breakerResets' = breakerResets + 1

\* The memory and the file stay in step, and only the operator, a record or
\* midnight changes the decision, across every save and restart.
LEMMA StepLemma ==
  ASSUME BreakerTorn = FALSE, BreakerTypeOK, Durable, DatesOK, [BreakerNext]_breakerVars
  PROVE  Durable' /\ DatesOK' /\ EffectiveStep
<1> DEFINE s == BreakerRolled(breakerMem, breakerDay)
<1>0. /\ breakerDay \in Nat /\ breakerMem \in BreakerState /\ breakerFile \in BreakerState
      /\ breakerMem.last_reset_date \in Nat /\ breakerFile.last_reset_date \in Nat
      /\ breakerMem.last_reset_date <= breakerDay /\ breakerFile.last_reset_date <= breakerDay
      /\ s \in BreakerState /\ s.last_reset_date = breakerDay /\ BreakerRolled(s, breakerDay) = s
      /\ BreakerLoaded(breakerDay) \in BreakerState /\ BreakerLoaded(breakerDay).last_reset_date <= breakerDay
  BY RolledType, RolledSame, LoadedOK DEF BreakerTypeOK, DatesOK, BreakerState
<1>1. CASE BreakerStart
  <2>1. BreakerEffective' = BreakerEffective /\ totals' = totals /\ UNCHANGED <<breakerDay, breakerResets>>
    BY <1>1 DEF BreakerStart, BreakerEffective, BreakerLoaded
  <2>2. Durable' /\ DatesOK'
    BY <1>0, <1>1 DEF BreakerStart, Durable, DatesOK, BreakerLoaded
  <2> QED BY <2>1, <2>2 DEF EffectiveStep
<1>2. CASE BreakerIsTripped
  <2>1. BreakerEffective' = BreakerEffective /\ totals' = totals /\ UNCHANGED <<breakerDay, breakerResets>>
    BY <1>0, <1>2 DEF BreakerIsTripped, BreakerEffective
  <2>2. Durable' /\ DatesOK'
    BY <1>0, <1>2 DEF BreakerIsTripped, BreakerBeginSave, Durable, DatesOK
  <2> QED BY <2>1, <2>2 DEF EffectiveStep
<1>3. ASSUME NEW pnl \in BreakerPnls, RecordTradeClose(pnl)
      PROVE  Durable' /\ DatesOK' /\ EffectiveStep
  <2>1. pnl \in Int /\ breakerUp /\ BreakerEffective = s
    BY <1>3, BreakerPnlsAssumption DEF BreakerPnlsAssumption, RecordTradeClose, BreakerEffective
  <2>2. /\ breakerMem' = BreakerRecorded(s, pnl) /\ breakerMem'.last_reset_date = breakerDay
        /\ UNCHANGED <<breakerDay, breakerResets>> /\ totals' = WithTrade(totals, pnl)
    BY <1>3, <1>0, <2>1, RecordedDate DEF RecordTradeClose
  <2>3. BreakerEffective' = BreakerRecorded(s, pnl)
    <3>1. BreakerEffective' = BreakerRolled(breakerMem', breakerDay)
      BY <1>3, <2>1, <2>2 DEF RecordTradeClose, BreakerEffective
    <3> QED BY <3>1, <2>2 DEF BreakerRolled
  <2>4. Durable'
    <3>1. CASE s.tripped
      <4>1. BreakerRecorded(s, pnl) = s
        BY <3>1 DEF BreakerRecorded
      <4>2. UNCHANGED <<breakerReadable, breakerFile, breakerSaving, breakerDay, breakerUp>> /\ breakerMem' = s
        BY <1>3, <3>1, <2>2, <4>1 DEF RecordTradeClose
      <4>3. BreakerLoaded(breakerDay)' = BreakerLoaded(breakerDay)
        BY <4>2 DEF BreakerLoaded
      <4> QED BY <1>3, <4>2, <4>3, <1>0 DEF Durable, RecordTradeClose
    <3>2. CASE ~s.tripped
      BY <1>3, <3>2 DEF RecordTradeClose, BreakerBeginSave, Durable
    <3> QED BY <3>1, <3>2
  <2>5. DatesOK'
    BY <1>3, <1>0, <2>2 DEF RecordTradeClose, BreakerBeginSave, DatesOK
  <2> QED BY <2>1, <2>2, <2>3, <2>4, <2>5 DEF EffectiveStep
<1>4. CASE BreakerReset
  <2>1. /\ breakerResets' = breakerResets + 1 /\ BreakerEffective' = BreakerFresh(breakerDay) /\ totals' = <<>>
        /\ breakerDay' = breakerDay /\ breakerMem'.last_reset_date = breakerDay
    BY <1>4 DEF BreakerReset, BreakerEffective, BreakerRolled, BreakerFresh
  <2>2. Durable' /\ DatesOK'
    BY <1>0, <1>4, <2>1 DEF BreakerReset, BreakerBeginSave, Durable, DatesOK
  <2> QED BY <2>1, <2>2 DEF EffectiveStep
<1>5. CASE BreakerSaveDone
  <2>0. breakerUp
    BY <1>5 DEF BreakerSaveDone, Durable, BreakerTypeOK
  <2>1. BreakerEffective' = BreakerEffective /\ totals' = totals /\ UNCHANGED <<breakerDay, breakerResets>>
    BY <1>5, <2>0 DEF BreakerSaveDone, BreakerEffective
  <2>2. Durable' /\ DatesOK'
    BY <1>0, <1>5, <2>0 DEF BreakerSaveDone, Durable, DatesOK, BreakerLoaded
  <2> QED BY <2>1, <2>2 DEF EffectiveStep
<1>6. CASE BreakerCrash
  <2>0. breakerUp /\ ~breakerSaving
    BY <1>6 DEF BreakerCrash
  <2>1. /\ UNCHANGED <<breakerDay, breakerResets, breakerMem, breakerFile, totals, breakerReadable>>
        /\ ~breakerUp' /\ ~breakerSaving'
    BY <1>6, <2>0 DEF BreakerCrash
  <2>2. BreakerEffective' = BreakerEffective
    BY <2>0, <2>1 DEF BreakerEffective, BreakerLoaded, Durable
  <2>3. Durable' /\ DatesOK'
    BY <1>0, <2>1 DEF Durable, DatesOK
  <2> QED BY <2>1, <2>2, <2>3 DEF EffectiveStep
<1>7. CASE BreakerMidnight
  <2>1. /\ breakerDay' = breakerDay + 1 /\ totals' = <<>>
        /\ UNCHANGED <<breakerUp, breakerMem, breakerReadable, breakerFile, breakerSaving, breakerResets>>
    BY <1>7 DEF BreakerMidnight
  <2>2. BreakerRolled(breakerMem, breakerDay + 1) = BreakerFresh(breakerDay + 1)
    BY <1>0, RolledSame
  <2>3. BreakerRolled(BreakerLoaded(breakerDay)', breakerDay + 1) = BreakerFresh(breakerDay + 1)
    <3>1. CASE breakerReadable
      BY <3>1, <2>1, <1>0, RolledSame DEF BreakerLoaded
    <3>2. CASE ~breakerReadable
      BY <3>2, <2>1 DEF BreakerLoaded, BreakerRolled
    <3> QED BY <3>1, <3>2
  <2>4. BreakerEffective' = BreakerFresh(breakerDay + 1)
    BY <2>1, <2>2, <2>3 DEF BreakerEffective
  <2>5. Durable' /\ DatesOK'
    BY <1>0, <2>1, <2>2, <2>3 DEF Durable, DatesOK
  <2> QED BY <2>1, <2>4, <2>5 DEF EffectiveStep
<1>8. CASE UNCHANGED breakerVars
  <2>1. BreakerEffective' = BreakerEffective /\ totals' = totals /\ UNCHANGED <<breakerDay, breakerResets>>
    BY <1>8 DEF breakerVars, BreakerEffective, BreakerLoaded
  <2>2. Durable' /\ DatesOK'
    BY <1>8 DEF breakerVars, Durable, DatesOK, BreakerLoaded
  <2> QED BY <2>1, <2>2 DEF EffectiveStep
<1> QED BY <1>1, <1>2, <1>3, <1>4, <1>5, <1>6, <1>7, <1>8 DEF BreakerNext

\* The decision is a state, and describes today's trades.
LEMMA EffectiveType ==
  ASSUME BreakerTypeOK, DatesOK
  PROVE  BreakerEffective \in BreakerState
BY LoadedOK, RolledType DEF BreakerEffective, BreakerTypeOK

LEMMA StepDescribes ==
  ASSUME IInv, EffectiveStep
  PROVE  Describes(BreakerEffective, totals)'
<1>0. breakerDay \in Nat /\ BreakerEffective \in BreakerState /\ totals \in Seq(Totals)
  BY EffectiveType DEF IInv, BreakerTypeOK
<1>1. CASE BreakerEffective' = BreakerEffective /\ totals' = totals
  BY <1>1 DEF IInv
<1>2. ASSUME NEW pnl \in BreakerPnls,
             BreakerEffective' = BreakerRecorded(BreakerEffective, pnl) /\ totals' = WithTrade(totals, pnl)
      PROVE  Describes(BreakerEffective, totals)'
  <2>1. pnl \in Int
    BY BreakerPnlsAssumption DEF BreakerPnlsAssumption
  <2>2. Describes(BreakerRecorded(BreakerEffective, pnl), WithTrade(totals, pnl))
    BY <1>0, <2>1, RecordedDescribes DEF IInv
  <2> QED BY <1>2, <2>2 DEF Describes, LimitReached
<1>3. CASE /\ BreakerEffective' = BreakerFresh(breakerDay) \/ BreakerEffective' = BreakerFresh(breakerDay + 1)
           /\ totals' = <<>>
  <2>1. Describes(BreakerFresh(breakerDay), <<>>) /\ Describes(BreakerFresh(breakerDay + 1), <<>>)
    BY <1>0, FreshDescribes
  <2> QED BY <1>3, <2>1 DEF Describes, LimitReached
<1> QED BY <1>1, <1>2, <1>3 DEF EffectiveStep

\* IInv holds in every reachable state.
LEMMA Inductive ==
  ASSUME BreakerTorn = FALSE
  PROVE  BreakerSpec => []IInv
<1>1. BreakerInit => IInv
  <2> SUFFICES ASSUME BreakerInit PROVE IInv
    OBVIOUS
  <2>1. BreakerRolled(BreakerFresh(0), 0) = BreakerFresh(0)
    BY DEF BreakerRolled, BreakerFresh
  <2>2. Describes(BreakerEffective, totals)
    BY <2>1, FreshDescribes DEF BreakerInit, BreakerEffective, BreakerLoaded
  <2>3. BreakerTypeOK
    <3>1. BreakerFresh(0) \in BreakerState /\ <<>> \in Seq(Totals) /\ 0 \in Nat
      BY FreshType
    <3> QED BY <3>1 DEF BreakerInit, BreakerTypeOK
  <2> QED BY <2>2, <2>3 DEF BreakerInit, IInv, Durable, DatesOK, BreakerFresh
<1>2. IInv /\ [BreakerNext]_breakerVars => IInv'
  BY TypeStep, StepLemma, StepDescribes DEF IInv
<1> QED BY <1>1, <1>2, PTL DEF BreakerSpec

-----------------------------------------------------------------------------
(* The theorems *)

\* The breaker is open exactly when the trades recorded today reached a limit,
\* however often the process restarted, operator resets included.
THEOREM BreakerIsLimitReached ==
  ASSUME BreakerTorn = FALSE
  PROVE  BreakerSpec => []TrippedIffLimitReached
<1>1. IInv => TrippedIffLimitReached
  BY DEF IInv, Describes, TrippedIffLimitReached, BreakerTripped
<1> QED BY <1>1, Inductive, PTL

\* The breaker with its file and its restarts implements the daily latch.
THEOREM BreakerImplementsDailyLatch ==
  ASSUME BreakerTorn = FALSE
  PROVE  BreakerSpec => BreakerIsDailyLatch
<1>1. BreakerInit => BreakerLatch!LatchInit
  <2>1. ~BreakerRolled(BreakerFresh(0), 0).tripped
    BY DEF BreakerRolled, BreakerFresh
  <2> QED BY <2>1 DEF BreakerInit, BreakerLatch!LatchInit, BreakerTripped, BreakerEffective,
                      BreakerLoaded, BreakerFresh, BreakerRolled
<1>2. IInv /\ [BreakerNext]_breakerVars => [BreakerLatch!LatchNext]_BreakerLatch!latchVars
  <2> SUFFICES ASSUME IInv, [BreakerNext]_breakerVars
               PROVE  [BreakerLatch!LatchNext]_BreakerLatch!latchVars
    OBVIOUS
  <2>1. EffectiveStep
    BY StepLemma DEF IInv
  <2>2. BreakerEffective \in BreakerState /\ BreakerEffective' \in BreakerState
    BY <2>1, EffectiveType, RecordedType, FreshType, BreakerPnlsAssumption
       DEF EffectiveStep, IInv, BreakerTypeOK, BreakerPnlsAssumption
  <2>3. BreakerTripped \in BOOLEAN /\ BreakerTripped' \in BOOLEAN
    BY <2>2 DEF BreakerTripped, BreakerState
  <2>4. CASE BreakerEffective' = BreakerEffective /\ UNCHANGED <<breakerDay, breakerResets>>
    BY <2>4 DEF BreakerTripped, BreakerLatch!latchVars
  <2>5. CASE \E pnl \in BreakerPnls : /\ BreakerEffective' = BreakerRecorded(BreakerEffective, pnl)
                                      /\ UNCHANGED <<breakerDay, breakerResets>>
    <3>1. CASE BreakerTripped
      BY <2>5, <3>1 DEF BreakerRecorded, BreakerTripped, BreakerLatch!latchVars
    <3>2. CASE ~BreakerTripped
      <4>1. CASE BreakerTripped'
        BY <2>3, <2>5, <3>2, <4>1 DEF BreakerLatch!LatchNext, BreakerLatch!Trip
      <4>2. CASE ~BreakerTripped'
        BY <2>3, <2>5, <3>2, <4>2 DEF BreakerLatch!latchVars
      <4> QED BY <4>1, <4>2
    <3> QED BY <3>1, <3>2
  <2>6. CASE \/ /\ BreakerEffective' = BreakerFresh(breakerDay + 1)
                /\ breakerDay' = breakerDay + 1 /\ breakerResets' = breakerResets
             \/ /\ BreakerEffective' = BreakerFresh(breakerDay)
                /\ breakerDay' = breakerDay /\ breakerResets' = breakerResets + 1
    <3>1. breakerDay \in Nat /\ breakerResets \in Nat
      BY DEF IInv, BreakerTypeOK
    <3>2. breakerDay' + breakerResets' = breakerDay + breakerResets + 1
      BY <2>6, <3>1
    <3> QED BY <2>6, <3>2 DEF BreakerLatch!LatchNext, BreakerLatch!NewDay, BreakerTripped, BreakerFresh
  <2> QED BY <2>1, <2>4, <2>5, <2>6 DEF EffectiveStep
<1> QED BY <1>1, <1>2, Inductive, PTL DEF BreakerSpec, BreakerIsDailyLatch, BreakerLatch!LatchSpec
=============================================================================
