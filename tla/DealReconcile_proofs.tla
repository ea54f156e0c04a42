------------------------ MODULE DealReconcile_proofs ------------------------
(***************************************************************************)
(* Proofs about DealReconcile, for every limit, account, P&L set and bound, *)
(* with closes, crashes, aborted reconciles and failed saves anywhere.      *)
(* Assumed where a theorem says so: the fetch does not fail silently, and   *)
(* no outage outlasts the lookback of the cursor.                           *)
(***************************************************************************)
EXTENDS DealReconcile, FiniteSetTheorems, TLAPS

\* Both halts have seen the first n deals.
BookedUpTo(n) == \A h \in Halts, i \in 1..n : BookedIn(h, i)

\* What makes NothingSkipped inductive: a running reconcile has booked every
\* deal before "next", and its window reaches at least the start of the cycle.
Progress ==
  /\ BookedUpTo(cursor)
  /\ saved => BookedUpTo(cursorFile)
  /\ pc = "consec" => BookedUpTo(next - 1) /\ cycleStart <= last /\ next <= last + 1
  /\ pc = "breaker" => /\ BookedUpTo(next - 1) /\ BookedIn("consec", next)
                       /\ cycleStart <= last /\ next <= last

Reliable == ~FetchMayFail /\ ~LongOutages

\* The account's high-water mark is one of the two numbers it is taken from.
LEMMA MaxOfTwo ==
  ASSUME NEW a \in Int, NEW b \in Int
  PROVE  Max({a, b}) \in Int
<1>1. \E x \in {a, b} : \A y \in {a, b} : x >= y
  <2>1. CASE a >= b  BY <2>1
  <2>2. CASE b >= a  BY <2>2
  <2> QED  BY <2>1, <2>2
<1> QED  BY <1>1 DEF Max

\* The bounds inside TypeOK that tie a running window to its cycle.
WindowOK ==
  /\ pc = "consec" => next <= last + 1
  /\ pc = "breaker" => next <= last

LEMMA InitType == Init => TypeOK /\ WindowOK
<1> SUFFICES ASSUME Init PROVE TypeOK /\ WindowOK  OBVIOUS
<1>1. booked \in [Halts -> Seq(Entry)]
  <2>1. <<>> \in Seq(Entry)  OBVIOUS
  <2> QED  BY <2>1 DEF Init
<1>2. deals = <<>> /\ deals \in Seq(Deal) /\ Len(deals) = 0  BY DEF Init
<1>3. 0 \in 0..Len(deals) /\ 1 \in 1..(Len(deals) + 1) /\ 0 \in Nat /\ 0 \in Int  BY <1>2
<1>4. StartBalance \in Int  BY AccountAssumption DEF AccountAssumption
<1>5. TypeOK
  <2>1. /\ day \in Nat /\ deals \in Seq(Deal) /\ balance \in Int /\ dailyPnl \in Int
        /\ peak \in Int /\ info \in Int /\ peakDay \in Nat /\ faults \in Nat
    BY <1>2, <1>3, <1>4 DEF Init
  <2>2. /\ cursorFile \in 0..Len(deals) /\ cycleStart \in 0..Len(deals)
        /\ cursor \in 0..Len(deals) /\ last \in 0..Len(deals)
        /\ next \in 1..(Len(deals) + 1)
    BY <1>3 DEF Init
  <2>3. pc \in States /\ saved \in BOOLEAN /\ infoKnown \in BOOLEAN /\ paused \in BOOLEAN
    BY DEF Init, States
  <2> QED  BY <1>1, <2>1, <2>2, <2>3 DEF TypeOK
<1>6. WindowOK  BY DEF Init, WindowOK
<1> QED  BY <1>5, <1>6

\* One more booking keeps the history a list of entries.
LEMMA BookType ==
  ASSUME TypeOK, NEW h \in Halts, next <= Len(deals), Book(h)
  PROVE  booked' \in [Halts -> Seq(Entry)]
<1>1. [deal |-> next, day |-> day] \in Entry  BY DEF TypeOK, Entry
<1>2. Append(booked[h], [deal |-> next, day |-> day]) \in Seq(Entry)
  BY <1>1 DEF TypeOK
<1> QED  BY <1>2 DEF TypeOK, Book

LEMMA StepType == TypeOK /\ WindowOK /\ [Next]_vars => TypeOK' /\ WindowOK'
<1> SUFFICES ASSUME TypeOK, WindowOK, [Next]_vars PROVE TypeOK' /\ WindowOK'  OBVIOUS
<1> USE AccountAssumption DEF TypeOK, WindowOK, States, procVars, Exit, AccountAssumption
<1>1. ASSUME NEW pnl \in Pnls, DealCloses(pnl)
      PROVE  TypeOK' /\ WindowOK'
  <2>1. [pnl |-> pnl, during |-> pc = "body"] \in Deal  BY PnlsAssumption DEF PnlsAssumption, Deal
  <2>2. deals' \in Seq(Deal) /\ Len(deals') = Len(deals) + 1  BY <1>1, <2>1 DEF DealCloses
  <2>3. balance' \in Int  BY <1>1, PnlsAssumption DEF PnlsAssumption, DealCloses
  <2> QED  BY <1>1, <2>2, <2>3 DEF DealCloses
<1>2. CASE Midnight  BY <1>2 DEF Midnight
<1>3. CASE Start
  <2>1. cursor' \in 0..Len(deals)  BY <1>3 DEF Start, LoadedCursors
  <2> QED  BY <1>3, <2>1 DEF Start
<1>4. CASE Crash  BY <1>4 DEF Crash, Fault
<1>5. CycleHead => /\ peak' \in Int /\ peakDay' \in Nat /\ cycleStart' \in 0..Len(deals)
                   /\ pc = "idle"
  BY DEF CycleHead, PeakChoices
<1>6. CASE HaltedCycle  BY <1>5, <1>6 DEF HaltedCycle
<1>7. CASE DoomedCycle  BY <1>7 DEF DoomedCycle
<1>8. CASE TradingCycle  BY <1>5, <1>8 DEF TradingCycle
<1>9. CASE FailCycle  BY <1>9 DEF FailCycle
<1>10. CASE Fetch
  <2>1. last' \in 0..Len(deals) /\ next' = cursor + 1 /\ next' <= last' + 1
    <3>1. last' \in {Len(deals), cursor} /\ next' = cursor + 1  BY <1>10 DEF Fetch
    <3> QED  BY <3>1
  <2>2. next' \in 1..(Len(deals) + 1)  BY <2>1
  <2>3. pc' = "consec" /\ deals' = deals  BY <1>10 DEF Fetch
  <2>4. WindowOK'  BY <2>1, <2>3
  <2> QED  BY <1>10, <2>1, <2>2, <2>3, <2>4 DEF Fetch
<1>11. CASE BookConsec
  <2>1. next \in 1..Len(deals)  BY <1>11 DEF BookConsec
  <2>2. deals[next].pnl \in Int
    <3>1. deals[next] \in Deal  BY <2>1
    <3> QED  BY <3>1 DEF Deal
  <2>3. booked' \in [Halts -> Seq(Entry)]
    BY <1>11, <2>1, BookType DEF BookConsec, Halts
  <2> QED  BY <1>11, <2>2, <2>3 DEF BookConsec
<1>12. CASE BookBreaker
  <2>1. next \in 1..Len(deals) /\ next <= last  BY <1>12 DEF BookBreaker
  <2>2. booked' \in [Halts -> Seq(Entry)]
    BY <1>12, <2>1, BookType DEF BookBreaker, Halts
  <2> QED  BY <1>12, <2>1, <2>2 DEF BookBreaker
<1>13. CASE Finish
  <2>1. info' \in Int /\ infoKnown' \in BOOLEAN /\ peak' \in Int /\ faults' \in Nat
    <3>1. Max({peak, balance}) \in Int  BY MaxOfTwo
    <3>2. CASE Fault /\ infoKnown' = FALSE /\ UNCHANGED <<info, peak>>
      <4>1. faults' \in Nat  BY <3>2 DEF Fault
      <4> QED  BY <3>2, <4>1
    <3>3. CASE /\ info' = balance /\ infoKnown' = TRUE
               /\ peak' = Max({peak, balance}) /\ UNCHANGED faults
      BY <3>1, <3>3
    <3> QED  BY <1>13, <3>2, <3>3 DEF Finish, ProbeAccount
  <2> QED  BY <1>13, <2>1 DEF Finish
<1>14. CASE SaveCursor
  <2>1. CASE saved' = TRUE /\ cursorFile' = cursor /\ UNCHANGED faults
    BY <1>14, <2>1 DEF SaveCursor
  <2>2. CASE Fault /\ UNCHANGED <<saved, cursorFile>>
    BY <1>14, <2>2 DEF SaveCursor, Fault
  <2> QED  BY <1>14, <2>1, <2>2 DEF SaveCursor
<1>15. CASE AbortReconcile  BY <1>15 DEF AbortReconcile, Fault
<1>16. CASE TogglePause  BY <1>16 DEF TogglePause
<1>17. CASE UNCHANGED vars  BY <1>17 DEF vars
<1> QED
  BY <1>1, <1>2, <1>3, <1>4, <1>6, <1>7, <1>8, <1>9, <1>10, <1>11, <1>12, <1>13,
     <1>14, <1>15, <1>16, <1>17 DEF Next

\* The variables keep their types, and the window of a running reconcile never
\* reaches beyond the deals that have closed, whatever crashes and aborts.
THEOREM TypeCorrect == Spec => []TypeOK
<1>1. Spec => [](TypeOK /\ WindowOK)  BY InitType, StepType, PTL DEF Spec
<1> QED  BY <1>1, PTL

-----------------------------------------------------------------------------
(* Nothing is skipped *)

\* A booking keeps what was booked and adds the deal at "next".
LEMMA BookingAdds ==
  ASSUME TypeOK, NEW g \in Halts, Book(g)
  PROVE  /\ \A h \in Halts, i \in Nat : BookedIn(h, i) => BookedIn(h, i)'
         /\ \A i : i = next => BookedIn(g, i)'
<1> DEFINE e == [deal |-> next, day |-> day]
<1>1. booked[g] \in Seq(Entry)  BY DEF TypeOK
<1>2. booked' = [booked EXCEPT ![g] = Append(@, e)]  BY DEF Book
<1>3. booked'[g] = Append(booked[g], e)  BY <1>2 DEF TypeOK
<1>4. \A h \in Halts : h # g => booked'[h] = booked[h]  BY <1>2 DEF TypeOK
<1>5. Len(booked'[g]) = Len(booked[g]) + 1 /\ booked'[g][Len(booked[g]) + 1] = e
  BY <1>1, <1>3
<1>6. \A k \in 1..Len(booked[g]) : booked'[g][k] = booked[g][k]  BY <1>1, <1>3
<1>7. ASSUME NEW h \in Halts, NEW i \in Nat, BookedIn(h, i) PROVE BookedIn(h, i)'
  <2>1. PICK k \in 1..Len(booked[h]) : booked[h][k].deal = i  BY <1>7 DEF BookedIn
  <2>2. CASE h = g
    <3>1. k \in 1..Len(booked'[g])  BY <1>1, <1>5, <2>1, <2>2
    <3>2. booked'[g][k].deal = i  BY <1>6, <2>1, <2>2
    <3> QED  BY <2>2, <3>1, <3>2 DEF BookedIn
  <2>3. CASE h # g  BY <1>4, <2>1, <2>3 DEF BookedIn
  <2> QED  BY <2>2, <2>3
<1>8. ASSUME NEW i, i = next PROVE BookedIn(g, i)'
  <2>1. Len(booked[g]) + 1 \in 1..Len(booked'[g])  BY <1>1, <1>5
  <2>2. booked'[g][Len(booked[g]) + 1].deal = i  BY <1>5, <1>8
  <2> QED
    <3>1. \E k \in 1..Len(booked'[g]) : booked'[g][k].deal = i  BY <2>1, <2>2
    <3> QED  BY <3>1 DEF BookedIn
<1> QED  BY <1>7, <1>8

\* What a booking does to the prefix both halts have seen.
LEMMA PrefixKept ==
  ASSUME TypeOK, NEW g \in Halts, Book(g), NEW n \in Int, BookedUpTo(n)
  PROVE  \A h \in Halts, i \in 1..n : BookedIn(h, i)'
BY BookingAdds DEF BookedUpTo

LEMMA InitProgress == Init => Progress
BY DEF Init, Progress, BookedUpTo

LEMMA StepProgress ==
  ASSUME Reliable
  PROVE  TypeOK /\ Progress /\ [Next]_vars => Progress'
<1> SUFFICES ASSUME TypeOK, Progress, [Next]_vars PROVE Progress'  OBVIOUS
<1> DEFINE Numbers == /\ cursor \in Nat /\ cursorFile \in Nat /\ cycleStart \in Nat
                      /\ next \in Nat \ {0} /\ last \in Nat
<1>1. Numbers
  <2>1. Len(deals) \in Nat  BY DEF TypeOK
  <2> QED  BY <2>1 DEF TypeOK
<1> HIDE DEF Numbers
<1>2. ASSUME UNCHANGED booked, NEW n PROVE BookedUpTo(n) => \A h \in Halts, i \in 1..n : BookedIn(h, i)'
  BY <1>2 DEF BookedUpTo, BookedIn
<1>3. ASSUME UNCHANGED <<booked, cursor, saved, cursorFile>>, pc' \notin {"consec", "breaker"}
      PROVE  Progress'
  BY <1>2, <1>3 DEF Progress, BookedUpTo
<1>4. ASSUME UNCHANGED <<booked, cursor, saved, cursorFile, pc, next, last, cycleStart>>
      PROVE  Progress'
  BY <1>4 DEF Progress, BookedUpTo, BookedIn
<1>5. ASSUME NEW pnl \in Pnls, DealCloses(pnl) PROVE Progress'
  BY <1>4, <1>5 DEF DealCloses, procVars
<1>6. CASE Midnight \/ TogglePause  BY <1>4, <1>6 DEF Midnight, TogglePause, procVars
<1>7. CASE Start
  <2>1. cursor' = IF saved THEN cursorFile ELSE 0
    BY <1>7 DEF Start, LoadedCursors, Reliable
  <2>2. pc' = "idle" /\ UNCHANGED <<booked, saved, cursorFile>>  BY <1>7 DEF Start
  <2>3. CASE saved
    <3>1. cursor' = cursorFile /\ BookedUpTo(cursorFile)  BY <2>1, <2>3 DEF Progress
    <3>2. BookedUpTo(cursor)' /\ BookedUpTo(cursorFile)'
      BY <2>2, <3>1 DEF BookedUpTo, BookedIn
    <3> QED  BY <2>2, <3>2 DEF Progress
  <2>4. CASE ~saved
    <3>1. BookedUpTo(cursor)'  BY <2>1, <2>4 DEF BookedUpTo
    <3> QED  BY <2>2, <2>4, <3>1 DEF Progress
  <2> QED  BY <2>3, <2>4
<1>8. ASSUME cursor' = 0, pc' = "down", UNCHANGED <<booked, saved, cursorFile>>
      PROVE  Progress'
  BY <1>8 DEF Progress, BookedUpTo, BookedIn
<1>20. CASE Crash  BY <1>8, <1>20 DEF Crash, procVars, Exit
<1>9. CASE HaltedCycle  BY <1>3, <1>9 DEF HaltedCycle, CycleHead
<1>10. CASE DoomedCycle  BY <1>8, <1>10 DEF DoomedCycle, procVars, Exit
<1>11. CASE TradingCycle  BY <1>3, <1>11 DEF TradingCycle
<1>12. CASE FailCycle  BY <1>3, <1>12 DEF FailCycle, procVars
<1>13. CASE Fetch
  <2>1. /\ pc' = "consec" /\ next' = cursor + 1 /\ last' = Len(deals)
        /\ UNCHANGED <<booked, cursor, saved, cursorFile, cycleStart>>
    BY <1>13 DEF Fetch, Reliable
  <2>2. next' - 1 = cursor  BY <1>1, <2>1 DEF Numbers
  <2>3. cycleStart' <= last' /\ next' <= last' + 1  BY <2>1 DEF TypeOK
  <2>4. BookedUpTo(cursor)' /\ (saved => BookedUpTo(cursorFile))'
    BY <2>1 DEF Progress, BookedUpTo, BookedIn
  <2>5. BookedUpTo(next - 1)'  BY <2>1, <2>2, <2>4 DEF BookedUpTo
  <2> QED  BY <2>1, <2>3, <2>4, <2>5 DEF Progress
<1>14. CASE BookConsec
  <2>1. /\ pc = "consec" /\ next <= last /\ pc' = "breaker" /\ Book("consec")
        /\ UNCHANGED <<cursor, saved, cursorFile, cycleStart, next, last>>
    BY <1>14 DEF BookConsec
  <2>2. "consec" \in Halts  BY DEF Halts
  <2>3. BookedUpTo(cursor)' /\ (saved => BookedUpTo(cursorFile))' /\ BookedUpTo(next - 1)'
    BY <1>1, <2>1, <2>2, PrefixKept DEF Progress, BookedUpTo, Numbers
  <2>4. BookedIn("consec", next)'  BY <2>1, <2>2, BookingAdds
  <2> QED  BY <2>1, <2>3, <2>4 DEF Progress
<1>15. CASE BookBreaker
  <2>1. /\ pc = "breaker" /\ pc' = "consec" /\ Book("breaker") /\ next' = next + 1
        /\ UNCHANGED <<cursor, saved, cursorFile, cycleStart, last>>
    BY <1>15 DEF BookBreaker
  <2>2. "breaker" \in Halts /\ "consec" \in Halts  BY DEF Halts
  <2>3. BookedUpTo(cursor)' /\ (saved => BookedUpTo(cursorFile))'
    BY <1>1, <2>1, <2>2, PrefixKept DEF Progress, BookedUpTo, Numbers
  <2>4. \A h \in Halts, i \in 1..(next - 1) : BookedIn(h, i)'
    BY <1>1, <2>1, <2>2, PrefixKept DEF Progress, Numbers
  <2>5. \A i : i = next => BookedIn("breaker", i)'  BY <2>1, <2>2, BookingAdds
  <2>6. next \in Nat /\ BookedIn("consec", next)  BY <1>1, <2>1 DEF Progress, Numbers
  <2>7. \A i : i = next => BookedIn("consec", i)'  BY <2>1, <2>2, <2>6, BookingAdds
  <2>8. \A i \in 1..(next' - 1) : i \in 1..(next - 1) \/ i = next
    BY <1>1, <2>1 DEF Numbers
  <2>9. BookedUpTo(next - 1)'
    BY <2>4, <2>5, <2>7, <2>8 DEF BookedUpTo, Halts
  <2>10. cycleStart' <= last' /\ next' <= last' + 1
    BY <1>1, <2>1 DEF Progress, Numbers
  <2> QED  BY <2>1, <2>3, <2>9, <2>10 DEF Progress
<1>16. CASE Finish
  <2>1. /\ pc = "consec" /\ next > last /\ pc' = "cursor" /\ cursor' = cycleStart
        /\ UNCHANGED <<booked, saved, cursorFile>>
    BY <1>16 DEF Finish
  <2>2. \A i \in 1..cycleStart : i \in 1..(next - 1)
    BY <1>1, <2>1 DEF Progress, Numbers
  <2>3. BookedUpTo(cursor)'
    BY <2>1, <2>2 DEF Progress, BookedUpTo, BookedIn
  <2>4. (saved => BookedUpTo(cursorFile))'  BY <2>1 DEF Progress, BookedUpTo, BookedIn
  <2> QED  BY <2>1, <2>3, <2>4 DEF Progress
<1>17. CASE SaveCursor
  <2>1. pc' = "idle" /\ UNCHANGED <<booked, cursor>>  BY <1>17 DEF SaveCursor, procVars
  <2>2. BookedUpTo(cursor)'  BY <2>1 DEF Progress, BookedUpTo, BookedIn
  <2>3. CASE cursorFile' = cursor
    BY <2>1, <2>2, <2>3 DEF Progress, BookedUpTo
  <2>4. CASE UNCHANGED <<saved, cursorFile>>  BY <1>3, <2>1, <2>4
  <2> QED  BY <1>17, <2>3, <2>4 DEF SaveCursor
<1>18. CASE AbortReconcile  BY <1>3, <1>18 DEF AbortReconcile, procVars
<1>19. CASE UNCHANGED vars  BY <1>4, <1>19 DEF vars, procVars
<1> QED
  BY <1>5, <1>6, <1>7, <1>9, <1>10, <1>11, <1>12, <1>13, <1>14, <1>15, <1>16,
     <1>17, <1>18, <1>19, <1>20 DEF Next

LEMMA ProgressSuffices == Progress => NothingSkipped
BY DEF Progress, NothingSkipped, Passed, BookedUpTo

\* If the fetch fails loudly and no outage outlasts the lookback, no crash,
\* aborted reconcile, failed save or halted day loses a closed deal: whatever the
\* cursor has passed, in memory or on disk, is booked in both halts.
THEOREM NoDealIsSkipped ==
  ASSUME Reliable
  PROVE  Spec => []NothingSkipped
<1>1. Spec => []TypeOK  BY TypeCorrect
<1>2. TypeOK /\ Progress /\ [Next]_vars => Progress'  BY StepProgress
<1> QED  BY <1>1, <1>2, InitProgress, ProgressSuffices, PTL DEF Spec
-----------------------------------------------------------------------------
(* Counted once.  Outside a reconcile, a deal that a restart would ask for     *)
(* again has been seen once less than the property allows, and so has, inside *)
(* one, a deal that is still to be booked; the cursor stays behind a deal that *)
(* closed during the cycle only in the cycle that books it first.             *)

During(i) == IF deals[i].during THEN 1 ELSE 0

\* How far a restart would be
OnFile == IF saved THEN cursorFile ELSE 0

\* How far the running reconcile has booked
Done(h) == IF pc = "breaker" /\ h = "consec" THEN next ELSE next - 1

\* A deal a restart, or the running reconcile, may still book
Awaits(h, i) ==
  \/ pc \in {"down", "idle", "body"} /\ i > OnFile
  \/ pc \in {"consec", "breaker"} /\ i > Done(h)
  \/ pc = "cursor" /\ i > cursor

\* A deal of the running cycle
Fresh(i) == pc \in {"body", "consec", "breaker"} /\ i > cycleStart

Counts(h, i) ==
  /\ Times(h, i) <= 1 + During(i) + faults
  /\ Awaits(h, i) => Times(h, i) <= During(i) + faults
  /\ Fresh(i) => /\ pc = "body" \/ i <= last => deals[i].during
                 /\ IF pc = "body" \/ i > Done(h) THEN Times(h, i) = 0
                                                  ELSE Times(h, i) <= 1 /\ deals[i].during

CursorInv ==
  /\ \A h \in Halts : \A k \in 1..Len(booked[h]) : booked[h][k].deal <= Len(deals)
  /\ pc # "down" => OnFile <= cursor
  /\ pc \in {"body", "consec", "breaker"} => cursor <= cycleStart

CountInv == CursorInv /\ \A h \in Halts, i \in 1..Len(deals) : Counts(h, i)

LEMMA TimesTyped ==
  ASSUME TypeOK, NEW h \in Halts, NEW i
  PROVE  /\ Times(h, i) \in Nat
         /\ (\A k \in 1..Len(booked[h]) : booked[h][k].deal # i) => Times(h, i) = 0
<1> DEFINE A == {k \in 1..Len(booked[h]) : booked[h][k].deal = i}
<1>1. Len(booked[h]) \in Nat
  BY DEF TypeOK
<1>2. IsFiniteSet(A)
  <2>1. IsFiniteSet(1..Len(booked[h])) /\ A \subseteq 1..Len(booked[h])
    BY <1>1, FS_Interval
  <2> QED
    BY <2>1, FS_Subset
<1>3. (\A k \in 1..Len(booked[h]) : booked[h][k].deal # i) => A = {}
  OBVIOUS
<1>4. Times(h, i) = Cardinality(A)
  BY DEF Times
<1> HIDE DEF A
<1> QED
  BY <1>2, <1>3, <1>4, FS_CardinalityType, FS_EmptySet

\* One more booking counts for the deal at "next", in its halt.
LEMMA TimesGrow ==
  ASSUME TypeOK, NEW g \in Halts, Book(g), NEW h \in Halts, NEW i
  PROVE  Times(h, i)' = Times(h, i) + (IF h = g /\ i = next THEN 1 ELSE 0)
<1> DEFINE e == [deal |-> next, day |-> day]
           n == Len(booked[h])
           A == {k \in 1..n : booked[h][k].deal = i}
           B == {k \in 1..Len(booked'[h]) : booked'[h][k].deal = i}
<1>1. booked[h] \in Seq(Entry) /\ n \in Nat
  BY DEF TypeOK
<1>2. booked'[h] = IF h = g THEN Append(booked[h], e) ELSE booked[h]
  BY DEF Book, TypeOK
<1>3. Times(h, i) = Cardinality(A) /\ Times(h, i)' = Cardinality(B)
  BY DEF Times
<1>4. IsFiniteSet(A) /\ Cardinality(A) \in Nat /\ n + 1 \notin A
  <2>1. A \subseteq 1..n
    OBVIOUS
  <2> HIDE DEF n, A
  <2>2. IsFiniteSet(1..n) /\ n + 1 \notin 1..n
    BY <1>1, FS_Interval
  <2> QED
    BY <2>1, <2>2, FS_Subset, FS_CardinalityType
<1>5. Cardinality(A \cup {n + 1}) = Cardinality(A) + 1
  BY <1>4, FS_AddElement
<1>6. B = IF h = g /\ i = next THEN A \cup {n + 1} ELSE A
  <2>1. CASE h # g
    BY <1>2, <2>1
  <2>2. CASE h = g
    <3>1. Len(booked'[h]) = n + 1 /\ booked'[h][n + 1].deal = next
      BY <1>1, <1>2, <2>2
    <3>2. \A k \in 1..n : booked'[h][k] = booked[h][k]
      BY <1>1, <1>2, <2>2
    <3>3. 1..(n + 1) = (1..n) \cup {n + 1} /\ n + 1 \notin 1..n
      BY <1>1
    <3> HIDE DEF n
    <3> QED
      BY <2>2, <3>1, <3>2, <3>3
  <2> QED
    BY <2>1, <2>2
<1> HIDE DEF A, B, n
<1> QED
  BY <1>3, <1>4, <1>5, <1>6

\* The cursor never falls behind its file, nor a cycle behind the cursor.
LEMMA CursorStep == TypeOK /\ WindowOK /\ CursorInv /\ [Next]_vars => CursorInv'
<1> SUFFICES ASSUME TypeOK, WindowOK, CursorInv, [Next]_vars PROVE CursorInv'
  OBVIOUS
<1>n. /\ Len(deals) \in Nat /\ cursor \in Int /\ cursorFile \in Int /\ cycleStart \in Int
      /\ next \in Int /\ last \in Int /\ cursor <= Len(deals) /\ cursorFile <= Len(deals)
      /\ OnFile <= Len(deals) /\ OnFile \in Int
  BY DEF TypeOK, OnFile
<1>b. ASSUME booked' = booked, Len(deals') \in Int, Len(deals') >= Len(deals)
      PROVE  \A h \in Halts : \A k \in 1..Len(booked'[h]) : booked'[h][k].deal <= Len(deals')
  <2> SUFFICES ASSUME NEW h \in Halts, NEW k \in 1..Len(booked[h])
               PROVE  booked[h][k].deal <= Len(deals')
    BY <1>b
  <2>1. booked[h][k] \in Entry /\ booked[h][k].deal <= Len(deals)
    BY DEF TypeOK, CursorInv
  <2> QED
    BY <1>b, <1>n, <2>1 DEF Entry
<1>g. ASSUME NEW g \in Halts, Book(g), next <= Len(deals), deals' = deals
      PROVE  \A h \in Halts : \A k \in 1..Len(booked'[h]) : booked'[h][k].deal <= Len(deals')
  <2> SUFFICES ASSUME NEW h \in Halts, NEW k \in 1..Len(booked'[h])
               PROVE  booked'[h][k].deal <= Len(deals)
    BY <1>g
  <2>1. booked[h] \in Seq(Entry)
    BY DEF TypeOK
  <2>2. booked'[h] = IF h = g THEN Append(booked[h], [deal |-> next, day |-> day]) ELSE booked[h]
    BY <1>g DEF Book, TypeOK
  <2>3. booked'[h][k].deal = next \/ (k \in 1..Len(booked[h]) /\ booked'[h][k] = booked[h][k])
    BY <2>1, <2>2
  <2> QED
    BY <1>g, <2>3 DEF CursorInv
<1>s. ASSUME UNCHANGED <<booked, deals, saved, cursorFile, cursor, cycleStart>>, pc # "down",
             pc' \in {"body", "consec", "breaker"} => pc \in {"body", "consec", "breaker"}
      PROVE  CursorInv'
  BY <1>s DEF CursorInv, OnFile
<1>1. ASSUME NEW pnl \in Pnls, DealCloses(pnl) PROVE CursorInv'
  <2>1. Len(deals') = Len(deals) + 1
    BY <1>1 DEF DealCloses, TypeOK
  <2> QED
    BY <1>1, <1>b, <1>n, <2>1 DEF DealCloses, procVars, CursorInv, OnFile
<1>2. CASE Midnight \/ TogglePause
  BY <1>2 DEF Midnight, TogglePause, procVars, CursorInv, OnFile
<1>3. CASE Start
  <2>1. /\ UNCHANGED <<booked, deals, saved, cursorFile>> /\ pc' = "idle"
        /\ cursor' \in LoadedCursors
    BY <1>3 DEF Start
  <2>2. OnFile' = OnFile /\ OnFile <= cursor'
    BY <1>n, <2>1 DEF LoadedCursors, OnFile
  <2> QED
    BY <2>1, <2>2 DEF CursorInv
<1>4. CASE Crash
  BY <1>4 DEF Crash, Exit, CursorInv
<1>5. CASE HaltedCycle
  BY <1>5 DEF HaltedCycle, CycleHead, CursorInv, OnFile
<1>6. CASE DoomedCycle
  BY <1>6 DEF DoomedCycle, Exit, CursorInv
<1>7. CASE TradingCycle
  BY <1>7, <1>n DEF TradingCycle, CycleHead, CursorInv, OnFile
<1>8. CASE FailCycle
  BY <1>8, <1>s DEF FailCycle, procVars
<1>9. CASE Fetch
  BY <1>9, <1>s DEF Fetch
<1>10. CASE BookConsec
  <2>1. next <= Len(deals) /\ "consec" \in Halts
    BY <1>10, <1>n DEF BookConsec, TypeOK, Halts
  <2> QED
    BY <1>10, <1>g, <2>1 DEF BookConsec, CursorInv, OnFile
<1>11. CASE BookBreaker
  <2>1. next <= Len(deals) /\ "breaker" \in Halts
    BY <1>11, <1>n DEF BookBreaker, TypeOK, WindowOK, Halts
  <2> QED
    BY <1>11, <1>g, <2>1 DEF BookBreaker, CursorInv, OnFile
<1>12. CASE Finish
  BY <1>12, <1>n DEF Finish, CursorInv, OnFile
<1>13. CASE SaveCursor
  <2>1. UNCHANGED <<booked, deals, cursor, cycleStart>> /\ pc = "cursor" /\ pc' = "idle"
    BY <1>13 DEF SaveCursor, procVars
  <2>2. UNCHANGED <<saved, cursorFile>> \/ (cursorFile' = cursor /\ saved' = TRUE)
    BY <1>13 DEF SaveCursor
  <2> QED
    BY <1>n, <2>1, <2>2 DEF CursorInv, OnFile
<1>14. CASE AbortReconcile
  BY <1>14, <1>s DEF AbortReconcile, procVars
<1>15. CASE UNCHANGED vars
  BY <1>15 DEF vars, procVars, CursorInv, OnFile
<1> QED
  BY <1>1, <1>2, <1>3, <1>4, <1>5, <1>6, <1>7, <1>8, <1>9, <1>10, <1>11, <1>12, <1>13,
     <1>14, <1>15 DEF Next

\* Every step keeps the count of every deal.
LEMMA CountStep == TypeOK /\ WindowOK /\ CountInv /\ [Next]_vars => CountInv'
<1> SUFFICES ASSUME TypeOK, WindowOK, CountInv, [Next]_vars,
                    NEW h \in Halts, NEW i \in 1..Len(deals')
             PROVE  Counts(h, i)'
  BY CursorStep DEF CountInv
<1>n. /\ Len(deals) \in Nat /\ cursor \in Int /\ cursorFile \in Int /\ cycleStart \in Int
      /\ next \in Int /\ last \in Int /\ cursor <= Len(deals) /\ faults \in Nat
      /\ i \in Int /\ Times(h, i) \in Nat /\ During(i) \in {0, 1} /\ OnFile \in Int
  BY TimesTyped DEF TypeOK, During, OnFile
<1>o. /\ pc # "down" => OnFile <= cursor
      /\ pc \in {"body", "consec", "breaker"} => cursor <= cycleStart
  BY DEF CountInv, CursorInv
<1>c. ASSUME deals' = deals
      PROVE  /\ i \in 1..Len(deals) /\ During(i)' = During(i) /\ deals'[i] = deals[i]
             /\ Times(h, i) <= 1 + During(i) + faults
             /\ Awaits(h, i) => Times(h, i) <= During(i) + faults
             /\ Fresh(i) => /\ pc = "body" \/ i <= last => deals[i].during
                            /\ IF pc = "body" \/ i > Done(h) THEN Times(h, i) = 0
                                                             ELSE Times(h, i) <= 1 /\ deals[i].during
  BY <1>c DEF CountInv, Counts, During
<1>t. ASSUME booked' = booked PROVE Times(h, i)' = Times(h, i)
  BY <1>t DEF Times
<1>1. ASSUME NEW pnl \in Pnls, DealCloses(pnl) PROVE Counts(h, i)'
  <2>1. /\ UNCHANGED <<pc, saved, cursorFile, booked, faults, cycleStart, cursor, next, last>>
        /\ deals' = Append(deals, [pnl |-> pnl, during |-> pc = "body"])
    BY <1>1 DEF DealCloses, procVars
  <2>2. CASE i \in 1..Len(deals)
    <3>1. deals'[i] = deals[i] /\ During(i)' = During(i)
      BY <2>1, <2>2 DEF During, TypeOK
    <3> QED
      BY <1>t, <2>1, <2>2, <3>1 DEF CountInv, Counts, Awaits, Fresh, Done, OnFile
  <2>3. CASE i = Len(deals) + 1
    <3>1. pc = "body" => deals'[i].during
      <4> SUFFICES ASSUME pc = "body" PROVE deals'[i].during
        OBVIOUS
      <4>1. deals' = Append(deals, [pnl |-> pnl, during |-> TRUE])
        BY <2>1
      <4> QED
        BY <2>3, <4>1 DEF TypeOK
    <3>2. \A k \in 1..Len(booked[h]) : booked[h][k].deal # i
      <4> SUFFICES ASSUME NEW k \in 1..Len(booked[h]) PROVE booked[h][k].deal # i
        OBVIOUS
      <4>1. booked[h][k] \in Entry /\ booked[h][k].deal <= Len(deals)
        BY DEF TypeOK, CountInv, CursorInv
      <4> QED
        BY <1>n, <2>3, <4>1 DEF Entry
    <3>3. Times(h, i)' = 0
      BY <1>t, <2>1, <3>2, TimesTyped
    <3>4. pc \in {"consec", "breaker"} => ~(i <= last) /\ i > Done(h)
      BY <1>n, <2>3 DEF TypeOK, WindowOK, Done
    <3>5. Done(h)' = Done(h) /\ During(i)' \in {0, 1}
      BY <2>1 DEF Done, During
    <3>6. Times(h, i)' <= During(i)' + faults' /\ Times(h, i)' <= 1 + During(i)' + faults'
      BY <1>n, <2>1, <3>3, <3>5
    <3>7. Fresh(i)' => /\ pc' = "body" \/ i <= last' => deals'[i].during
                       /\ pc' = "body" \/ i > Done(h)'
      BY <2>1, <3>1, <3>4, <3>5 DEF Fresh
    <3> QED
      BY <3>3, <3>6, <3>7 DEF Counts
  <2> QED
    BY <1>n, <2>1, <2>2, <2>3 DEF TypeOK
<1>s. ASSUME UNCHANGED <<deals, booked, saved, cursorFile>>, faults' = faults,
             pc \in {"down", "idle", "body"}, pc' \in {"down", "idle", "body"}, ~Fresh(i)'
      PROVE  Counts(h, i)'
  BY <1>c, <1>s, <1>t DEF Counts, Awaits, OnFile
<1>x. ASSUME UNCHANGED <<deals, booked, saved, cursorFile>>, faults' = faults + 1, ~Fresh(i)'
      PROVE  Counts(h, i)'
  <2>1. /\ Times(h, i)' <= During(i)' + faults'
        /\ Times(h, i)' \in Nat /\ During(i)' \in Nat /\ faults' \in Nat
    BY <1>c, <1>n, <1>t, <1>x
  <2> QED
    BY <1>c, <1>n, <1>x, <2>1 DEF Counts
<1>2. CASE Midnight \/ TogglePause \/ UNCHANGED vars
  <2>1. UNCHANGED <<deals, pc, saved, cursorFile, booked, faults, cycleStart, cursor, next, last>>
    BY <1>2 DEF Midnight, TogglePause, procVars, vars
  <2> QED
    BY <1>c, <1>t, <2>1 DEF Counts, Awaits, Fresh, Done, OnFile
<1>3. CASE Start
  BY <1>3, <1>s DEF Start, Fresh
<1>4. CASE Crash
  BY <1>4, <1>x DEF Crash, Exit, Fault, Fresh
<1>5. CASE HaltedCycle
  BY <1>5, <1>s DEF HaltedCycle, CycleHead, Fresh
<1>6. CASE DoomedCycle
  BY <1>6, <1>s DEF DoomedCycle, Exit, Fresh
<1>7. CASE TradingCycle
  <2>1. /\ UNCHANGED <<deals, booked, saved, cursorFile, faults>> /\ pc = "idle" /\ pc' = "body"
        /\ cycleStart' = Len(deals)
    BY <1>7 DEF TradingCycle, CycleHead
  <2>2. ~Fresh(i)'
    BY <1>n, <2>1 DEF Fresh
  <2> QED
    BY <1>s, <2>1, <2>2
<1>8. CASE FailCycle
  BY <1>8, <1>s DEF FailCycle, Fresh, procVars
<1>9. CASE Fetch
  <2>1. /\ UNCHANGED <<deals, booked, saved, cursorFile, faults, cycleStart, cursor>>
        /\ pc = "body" /\ pc' = "consec" /\ next' = cursor + 1
    BY <1>9 DEF Fetch
  <2>2. Done(h)' = cursor
    BY <1>n, <2>1 DEF Done
  <2> QED
    BY <1>c, <1>n, <1>o, <1>t, <2>1, <2>2 DEF Counts, Awaits, Fresh
<1>10. CASE BookConsec
  <2>1. /\ UNCHANGED <<deals, saved, cursorFile, faults, cycleStart, cursor, next, last>>
        /\ pc = "consec" /\ pc' = "breaker" /\ next <= last /\ Book("consec")
    BY <1>10 DEF BookConsec
  <2>2. Times(h, i)' = Times(h, i) + (IF h = "consec" /\ i = next THEN 1 ELSE 0)
    BY <2>1, TimesGrow DEF Halts
  <2>3. Done(h) = next - 1 /\ Done(h)' = IF h = "consec" THEN next ELSE next - 1
    BY <2>1 DEF Done
  <2> QED
    BY <1>c, <1>n, <2>1, <2>2, <2>3 DEF Counts, Awaits, Fresh
<1>11. CASE BookBreaker
  <2>1. /\ UNCHANGED <<deals, saved, cursorFile, faults, cycleStart, cursor, last>>
        /\ pc = "breaker" /\ pc' = "consec" /\ next' = next + 1 /\ next <= last /\ Book("breaker")
    BY <1>11 DEF BookBreaker, WindowOK
  <2>2. Times(h, i)' = Times(h, i) + (IF h = "breaker" /\ i = next THEN 1 ELSE 0)
    BY <2>1, TimesGrow DEF Halts
  <2>3. Done(h) = (IF h = "consec" THEN next ELSE next - 1) /\ Done(h)' = next
    BY <1>n, <2>1 DEF Done
  <2> QED
    BY <1>c, <1>n, <2>1, <2>2, <2>3 DEF Counts, Awaits, Fresh, Halts
<1>12. CASE Finish
  <2>1. /\ UNCHANGED <<deals, booked, saved, cursorFile, next, last>> /\ cursor' = cycleStart
        /\ pc = "consec" /\ pc' = "cursor" /\ next > last
    BY <1>12 DEF Finish
  <2>2. faults' \in Nat /\ faults' >= faults
    BY <1>12, <1>n DEF Finish, ProbeAccount, Fault
  <2> QED
    BY <1>c, <1>n, <1>t, <2>1, <2>2 DEF Counts, Awaits, Fresh, During
<1>13. CASE SaveCursor
  <2>1. UNCHANGED <<deals, booked>> /\ pc = "cursor" /\ pc' = "idle"
    BY <1>13 DEF SaveCursor
  <2>2. CASE saved' = TRUE /\ cursorFile' = cursor /\ UNCHANGED faults
    BY <1>c, <1>t, <2>1, <2>2 DEF Counts, Awaits, Fresh, OnFile
  <2>3. CASE UNCHANGED <<saved, cursorFile>> /\ faults' = faults + 1
    BY <1>x, <2>1, <2>3 DEF Fresh
  <2> QED
    BY <1>13, <2>2, <2>3 DEF SaveCursor, Fault
<1>14. CASE AbortReconcile
  BY <1>14, <1>x DEF AbortReconcile, Fault, Fresh
<1> QED
  BY <1>1, <1>2, <1>3, <1>4, <1>5, <1>6, <1>7, <1>8, <1>9, <1>10, <1>11, <1>12, <1>13,
     <1>14 DEF Next

\* reconcile_cursor.py:9: each halt sees a closed deal once, but for one replay of a
\* deal that closed during a cycle and one for each fault, even when the fetch fails
\* silently or an outage outlasts the lookback.
THEOREM DealsCountOnce == Spec => []CountedOnce
<1>1. Init => CountInv
  <2> SUFFICES ASSUME Init PROVE CountInv
    OBVIOUS
  <2>1. pc = "down" /\ deals = <<>> /\ booked = [h \in Halts |-> <<>>]
    BY DEF Init
  <2> QED
    BY <2>1 DEF CountInv, CursorInv
<1>2. CountInv => CountedOnce
  BY DEF CountInv, Counts, CountedOnce, During
<1> QED
  BY <1>1, <1>2, InitType, StepType, CountStep, PTL DEF Spec
=============================================================================
