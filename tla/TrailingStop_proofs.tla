------------------------- MODULE TrailingStop_proofs -------------------------
(* Proofs about TrailingStop, for every risk, distance, table size and price. *)
EXTENDS TrailingStop, FiniteSetTheorems, TLAPS

\* The table holds at most every number there is.
LEMMA TableFinite ==
  ASSUME tracked \subseteq Numbers
  PROVE  IsFiniteSet(tracked) /\ Cardinality(tracked) \in Nat
<1>1. MaxTickets \in Nat
  BY TrailAssumption DEF TrailAssumption
<1>2. IsFiniteSet(Numbers)
  BY <1>1, FS_Interval DEF Numbers
<1> QED
  BY <1>2, FS_Subset, FS_CardinalityType

\* Adding a number to a table that is not full does not overfill it.
LEMMA TableGrows ==
  ASSUME tracked \subseteq Numbers, Cardinality(tracked) <= MaxTracked,
         NEW n \in Numbers, n \in tracked \/ ~Full
  PROVE  tracked \cup {n} \subseteq Numbers /\ Cardinality(tracked \cup {n}) <= MaxTracked
<1>1. MaxTracked \in Nat
  BY TrailAssumption DEF TrailAssumption
<1>2. IsFiniteSet(tracked) /\ Cardinality(tracked) \in Nat
  BY TableFinite
<1>3. Cardinality(tracked \cup {n}) = IF n \in tracked THEN Cardinality(tracked) ELSE Cardinality(tracked) + 1
  BY <1>2, FS_AddElement
<1>4. Cardinality(tracked \cup {n}) <= MaxTracked
  BY <1>1, <1>2, <1>3 DEF Full
<1> QED
  BY <1>4

\* The effective distance and the candidate stop are integers.
LEMMA CandidateTyped ==
  ASSUME TrailTypeOK, NEW t \in open
  PROVE  /\ t \in Tickets /\ t \in Numbers
         /\ InitialSl(t) \in Int /\ InitialRisk(t) \in Int /\ Profit(t) \in Int
         /\ EffectiveActivate(t) \in Nat /\ EffectiveDistance(t) \in Nat
         /\ Candidate(t) \in Int /\ Further(t) \in Int
<1>0. MaxTickets \in Nat /\ MaxPrice \in Nat /\ TrailActivate \in Nat /\ TrailDistance \in Nat
  BY TrailAssumption DEF TrailAssumption
<1>1. t \in Tickets /\ t \in Numbers
  BY <1>0 DEF TrailTypeOK, Tickets, Numbers
<1>2. pos[t] \in Position /\ slot[t] \in Slot /\ price \in Int
  BY <1>1, <1>0 DEF TrailTypeOK
<1>3. InitialSl(t) \in Int
  BY <1>2 DEF InitialSl, Position, Slot
<1>4. InitialRisk(t) \in Int /\ Profit(t) \in Int
  BY <1>2, <1>3 DEF InitialRisk, Profit, Position
<1>5. EffectiveActivate(t) \in Nat /\ EffectiveDistance(t) \in Nat
  BY <1>0, <1>2 DEF EffectiveActivate, EffectiveDistance, Slot
<1>6. EffectiveDistance(t) * InitialRisk(t) \in Int
  BY <1>4, <1>5
<1>7. (EffectiveDistance(t) * InitialRisk(t)) \div 100 \in Int
  BY <1>6
<1>8. Candidate(t) \in Int
  BY <1>2, <1>7 DEF Candidate, Position
<1>9. Further(t) \in Int
  BY <1>2 DEF Further, Position
<1> QED
  BY <1>1, <1>3, <1>4, <1>5, <1>8, <1>9

LEMMA TypeInit == TrailInit => TrailTypeOK
<1> SUFFICES ASSUME TrailInit PROVE TrailTypeOK
  OBVIOUS
<1>1. Cardinality(tracked) <= MaxTracked /\ MaxTickets \in Nat
  BY TrailAssumption, FS_EmptySet DEF TrailInit, TrailAssumption
<1>2. NoPosition \in Position /\ NewSlot(0) \in Slot
  BY DEF NoPosition, Position, NewSlot, Slot
<1> QED
  BY <1>1, <1>2 DEF TrailInit, TrailTypeOK

\* GetInitialSL and MarkTrailed keep the table well-formed.
LEMMA TrackTyped ==
  ASSUME TrailTypeOK, NEW t \in open, NEW b \in BOOLEAN, Track(t, b)
  PROVE  /\ tracked' \subseteq Numbers /\ Cardinality(tracked') <= MaxTracked
         /\ slot' \in [Numbers -> Slot]
<1>1. t \in Numbers /\ pos[t] \in Position
  BY CandidateTyped DEF TrailTypeOK
<1>2. CASE ~(t \in tracked \/ ~Full)
  BY <1>2 DEF Track, TrailTypeOK
<1>3. CASE t \in tracked \/ ~Full
  <2> DEFINE seeded == IF t \in tracked THEN slot[t] ELSE NewSlot(pos[t].sl)
  <2>1. seeded \in Slot
    BY <1>1 DEF TrailTypeOK, NewSlot, Slot, Position
  <2>2. [seeded EXCEPT !.cooling = @ \/ b] \in Slot
    BY <2>1 DEF Slot
  <2> HIDE DEF seeded
  <2>3. tracked' = tracked \cup {t} /\ slot' = [slot EXCEPT ![t] = [seeded EXCEPT !.cooling = @ \/ b]]
    BY <1>3 DEF Track, seeded
  <2> QED
    BY <1>1, <1>3, <2>2, <2>3, TableGrows DEF TrailTypeOK
<1> QED
  BY <1>2, <1>3

\* RecordTrailParams does, too.
LEMMA RecordTyped ==
  ASSUME TrailTypeOK, NEW n \in Numbers, RecordTrailParams(n)
  PROVE  /\ tracked' \subseteq Numbers /\ Cardinality(tracked') <= MaxTracked
         /\ slot' \in [Numbers -> Slot]
<1>1. CASE ~(n \in tracked \/ ~Full)
  BY <1>1 DEF RecordTrailParams, TrailTypeOK
<1>2. CASE n \in tracked \/ ~Full
  <2>1. tracked' = tracked \cup {n}
        /\ slot' = [slot EXCEPT ![n].activate = RegimeActivate, ![n].distance = RegimeDistance]
    BY <1>2 DEF RecordTrailParams
  <2>2. slot[n] \in Slot /\ RegimeActivate \in Nat /\ RegimeDistance \in Nat
    BY TrailAssumption DEF TrailTypeOK, TrailAssumption
  <2>3. slot' \in [Numbers -> Slot]
    BY <2>1, <2>2 DEF TrailTypeOK, Slot
  <2> QED
    BY <1>2, <2>1, <2>3, TableGrows DEF TrailTypeOK
<1> QED
  BY <1>1, <1>2

\* A position that closes leaves the others as they are.
LEMMA ClosedTyped ==
  ASSUME TrailTypeOK, NEW T, Closed(T)
  PROVE  open' \subseteq 1..last /\ pos' \in [Tickets -> Position]
<1>1. NoPosition \in Position
  BY DEF NoPosition, Position
<1> QED
  BY <1>1 DEF Closed, TrailTypeOK

\* Every step keeps the variables in their types.
LEMMA TypeStep == TrailTypeOK /\ [TrailNext]_trailVars => TrailTypeOK'
<1> SUFFICES ASSUME TrailTypeOK, [TrailNext]_trailVars PROVE TrailTypeOK'
  OBVIOUS
<1>n. MaxTickets \in Nat /\ Risk \in Nat /\ MaxPrice \in Nat
  BY TrailAssumption DEF TrailAssumption
<1>1. ASSUME NEW p \in 1..MaxPrice, PriceMoves(p) PROVE TrailTypeOK'
  BY <1>1, ClosedTyped DEF PriceMoves, TrailTypeOK
<1>2. ASSUME NEW t \in open, PositionCloses(t) PROVE TrailTypeOK'
  BY <1>2, ClosedTyped DEF PositionCloses, TrailTypeOK
<1>3. ASSUME NEW dir \in {1, -1}, NEW regime \in BOOLEAN, Open(dir, regime) PROVE TrailTypeOK'
  <2> DEFINE t == last + 1
             new == [dir |-> dir, entry |-> price, sl |-> price - dir * Risk,
                     regime |-> regime, best |-> price, intact |-> TRUE]
  <2>1. t \in Tickets /\ last' = t /\ open' = open \cup {t} /\ pos' = [pos EXCEPT ![t] = new]
        /\ price' = price
    BY <1>3 DEF Open
  <2>2. new \in Position
    BY <1>n DEF Position, TrailTypeOK
  <2> HIDE DEF new
  <2>3. open' \subseteq 1..last' /\ last' \in 0..MaxTickets /\ pos' \in [Tickets -> Position]
    BY <1>n, <2>1, <2>2 DEF TrailTypeOK, Tickets
  <2>4. /\ tracked' \subseteq Numbers /\ Cardinality(tracked') <= MaxTracked
        /\ slot' \in [Numbers -> Slot]
    <3>1. CASE regime
      <4>1. PICK deal \in DealNumbers(t) : RecordTrailParams(deal)
        BY <1>3, <3>1 DEF Open
      <4>2. deal \in Numbers
        BY <1>n, <2>1, <4>1 DEF DealNumbers, Tickets, Numbers
      <4> QED
        BY <4>1, <4>2, RecordTyped
    <3>2. CASE ~regime
      BY <1>3, <3>2 DEF Open, TrailTypeOK
    <3> QED
      BY <3>1, <3>2
  <2> QED
    BY <2>1, <2>3, <2>4 DEF TrailTypeOK
<1>4. ASSUME NEW t \in open, Trail(t) PROVE TrailTypeOK'
  <2>1. pos' \in [Tickets -> Position]
    BY <1>4, CandidateTyped DEF Trail, TrailTypeOK, Position
  <2> QED
    BY <1>4, <2>1, TrackTyped DEF Trail, TrailTypeOK
<1>5. ASSUME NEW t \in open, Leave(t) PROVE TrailTypeOK'
  <2>1. pos' \in [Tickets -> Position]
    BY <1>5, CandidateTyped DEF Leave, TrailTypeOK, Position
  <2> QED
    BY <1>5, <2>1, TrackTyped DEF Leave, TrailTypeOK
<1>6. ASSUME NEW t \in open, IntervalPasses(t) PROVE TrailTypeOK'
  <2>1. slot' \in [Numbers -> Slot]
    BY <1>6, CandidateTyped DEF IntervalPasses, TrailTypeOK, Slot
  <2> QED
    BY <1>6, <2>1 DEF IntervalPasses, TrailTypeOK, brokerVars
<1>7. CASE EaReloads
  <2>1. Cardinality(tracked') <= MaxTracked /\ tracked' \subseteq Numbers
    BY <1>7, TrailAssumption, FS_EmptySet DEF EaReloads, TrailAssumption
  <2>2. slot' \in [Numbers -> Slot]
    BY <1>7 DEF EaReloads, NewSlot, Slot
  <2>3. pos' \in [Tickets -> Position]
    BY <1>7 DEF EaReloads, TrailTypeOK, Position
  <2> QED
    BY <1>7, <2>1, <2>2, <2>3 DEF EaReloads, TrailTypeOK
<1>8. CASE UNCHANGED trailVars
  BY <1>8 DEF trailVars, TrailTypeOK
<1> QED
  BY <1>1, <1>2, <1>3, <1>4, <1>5, <1>6, <1>7, <1>8 DEF TrailNext

\* The variables of TrailingStop keep their types, and the table its size.
THEOREM TypeCorrect == TrailSpec => []TrailTypeOK
BY TypeInit, TypeStep, PTL DEF TrailSpec

-----------------------------------------------------------------------------
(* A sell has a stop above zero, so the disjunct for "no stop" of Progress is *)
(* never the one that lets a modification through.                           *)

SellsHaveStops == \A t \in open : pos[t].dir = -1 => pos[t].sl > 0

\* A stop is never trailed to the wrong side of the price.
LEMMA CandidateSide ==
  ASSUME TrailTypeOK, NEW t \in open, Due(t), pos[t].dir = -1
  PROVE  Candidate(t) >= price
<1>1. EffectiveDistance(t) \in Nat /\ InitialRisk(t) \in Nat
  BY CandidateTyped DEF Due
<1>2. EffectiveDistance(t) * InitialRisk(t) \in Nat
  BY <1>1
<1>3. (EffectiveDistance(t) * InitialRisk(t)) \div 100 \in Nat
  BY <1>2
<1> QED
  BY <1>3 DEF Candidate, TrailTypeOK

\* Every step keeps the stops of sells above zero.
LEMMA SellStep == TrailTypeOK /\ SellsHaveStops /\ [TrailNext]_trailVars => SellsHaveStops'
<1> SUFFICES ASSUME TrailTypeOK, SellsHaveStops, [TrailNext]_trailVars,
                    NEW t \in open', pos'[t].dir = -1
             PROVE  pos'[t].sl > 0
  BY DEF SellsHaveStops
<1>n. Risk \in Nat /\ MaxTickets \in Nat /\ MaxPrice \in Nat
  BY TrailAssumption DEF TrailAssumption
<1>s. ASSUME t \in open, pos'[t].dir = pos[t].dir, pos'[t].sl = pos[t].sl PROVE pos'[t].sl > 0
  BY <1>s DEF SellsHaveStops
<1>t. ASSUME t \in open PROVE t \in Tickets /\ t <= last /\ last \in Int /\ pos[t] \in Position
  BY <1>t, CandidateTyped DEF TrailTypeOK
<1>1. ASSUME NEW p \in 1..MaxPrice, PriceMoves(p) PROVE pos'[t].sl > 0
  BY <1>1, <1>s, <1>t DEF PriceMoves, Closed
<1>2. ASSUME NEW u \in open, PositionCloses(u) PROVE pos'[t].sl > 0
  BY <1>2, <1>s, <1>t DEF PositionCloses, Closed
<1>3. ASSUME NEW dir \in {1, -1}, NEW regime \in BOOLEAN, Open(dir, regime) PROVE pos'[t].sl > 0
  <2>1. CASE t = last + 1
    <3>1. pos'[t].sl = price - dir * Risk /\ price - dir * Risk > 0
      BY <1>3, <2>1 DEF Open, TrailTypeOK
    <3> QED
      BY <3>1
  <2>2. CASE t # last + 1
    <3>1. t \in open
      BY <1>3, <2>2 DEF Open
    <3>2. pos'[t] = pos[t]
      BY <1>3, <1>t, <2>2, <3>1 DEF Open, TrailTypeOK
    <3> QED
      BY <3>1, <3>2, <1>s
  <2> QED
    BY <2>1, <2>2
<1>4. ASSUME NEW u \in open, Trail(u) PROVE pos'[t].sl > 0
  <2>1. t \in open
    BY <1>4 DEF Trail
  <2>2. CASE u = t
    <3>1. pos'[t].sl = Candidate(t) /\ pos'[t].dir = pos[t].dir
      BY <1>4, <1>t, <2>1, <2>2 DEF Trail, TrailTypeOK, Position
    <3>2. Due(t)
      BY <1>4, <2>2 DEF Trail
    <3>3. Candidate(t) \in Int /\ price \in Int /\ price > 0
      BY <1>n, <2>1, CandidateTyped DEF TrailTypeOK
    <3> QED
      BY <2>1, <3>1, <3>2, <3>3, CandidateSide
  <2>3. CASE u # t
    BY <1>4, <1>s, <1>t, <2>1, <2>3 DEF Trail, TrailTypeOK
  <2> QED
    BY <2>2, <2>3
<1>5. ASSUME NEW u \in open, Leave(u) PROVE pos'[t].sl > 0
  <2>1. t \in open
    BY <1>5 DEF Leave
  <2>2. pos'[t].dir = pos[t].dir /\ pos'[t].sl = pos[t].sl
    BY <1>5, <1>t, <2>1 DEF Leave, TrailTypeOK, Position
  <2> QED
    BY <2>1, <2>2, <1>s
<1>6. ASSUME NEW u \in open, IntervalPasses(u) PROVE pos'[t].sl > 0
  BY <1>6, <1>s DEF IntervalPasses, brokerVars
<1>7. CASE EaReloads
  <2>1. t \in open
    BY <1>7 DEF EaReloads
  <2>2. pos'[t].dir = pos[t].dir /\ pos'[t].sl = pos[t].sl
    BY <1>7, <1>t, <2>1 DEF EaReloads, TrailTypeOK, Position
  <2> QED
    BY <2>1, <2>2, <1>s
<1>8. CASE UNCHANGED trailVars
  BY <1>8, <1>s DEF trailVars
<1> QED
  BY <1>1, <1>2, <1>3, <1>4, <1>5, <1>6, <1>7, <1>8 DEF TrailNext

\* AISMCReceiver.mq5:435: no step loosens the stop of an open position, with any
\* table, full or emptied by a restart.
THEOREM StopsOnlyTighten == TrailSpec => StopOnlyTightens
<1>1. TrailTypeOK /\ SellsHaveStops /\ [TrailNext]_trailVars =>
        [\A t \in open \cap open' : pos'[t].dir * (pos'[t].sl - pos[t].sl) >= 0]_trailVars
  <2> SUFFICES ASSUME TrailTypeOK, SellsHaveStops, TrailNext, NEW t \in open, t \in open'
               PROVE  pos'[t].dir * (pos'[t].sl - pos[t].sl) >= 0
    OBVIOUS
  <2>t. t \in Tickets /\ t <= last /\ last \in Int /\ pos[t] \in Position /\ pos[t].sl \in Int
        /\ pos[t].dir \in {1, -1}
    BY CandidateTyped DEF TrailTypeOK, Position
  <2>s. ASSUME pos'[t].dir = pos[t].dir, pos'[t].sl = pos[t].sl
        PROVE  pos'[t].dir * (pos'[t].sl - pos[t].sl) >= 0
    BY <2>s, <2>t
  <2>1. ASSUME NEW p \in 1..MaxPrice, PriceMoves(p) PROVE pos'[t] = pos[t]
    BY <2>1, <2>t DEF PriceMoves, Closed
  <2>2. ASSUME NEW u \in open, PositionCloses(u) PROVE pos'[t] = pos[t]
    BY <2>2, <2>t DEF PositionCloses, Closed
  <2>3. ASSUME NEW dir \in {1, -1}, NEW regime \in BOOLEAN, Open(dir, regime) PROVE pos'[t] = pos[t]
    <3>1. t # last + 1
      BY <2>t
    <3> QED
      BY <2>3, <2>t, <3>1 DEF Open, TrailTypeOK
  <2>4. ASSUME NEW u \in open, Trail(u) PROVE pos'[t].dir * (pos'[t].sl - pos[t].sl) >= 0
    <3>1. CASE u # t
      <4>1. pos'[t] = pos[t]
        BY <2>4, <2>t, <3>1 DEF Trail, TrailTypeOK
      <4> QED
        BY <4>1, <2>s
    <3>2. CASE u = t
      <4>1. pos'[t].sl = Candidate(t) /\ pos'[t].dir = pos[t].dir /\ Progress(t)
        BY <2>4, <2>t, <3>2 DEF Trail, Due, TrailTypeOK, Position
      <4>2. Candidate(t) \in Int
        BY CandidateTyped
      <4>3. CASE pos[t].dir = 1
        BY <4>1, <4>2, <4>3, <2>t DEF Progress
      <4>4. CASE pos[t].dir = -1
        <5>1. pos[t].sl > 0
          BY <4>4 DEF SellsHaveStops
        <5> QED
          BY <4>1, <4>2, <4>4, <5>1, <2>t DEF Progress
      <4> QED
        BY <4>3, <4>4, <2>t
    <3> QED
      BY <3>1, <3>2
  <2>5. ASSUME NEW u \in open, Leave(u) PROVE pos'[t].dir = pos[t].dir /\ pos'[t].sl = pos[t].sl
    BY <2>5, <2>t DEF Leave, TrailTypeOK, Position
  <2>6. ASSUME NEW u \in open, IntervalPasses(u) PROVE pos'[t] = pos[t]
    BY <2>6 DEF IntervalPasses, brokerVars
  <2>7. CASE EaReloads
    BY <2>7, <2>t, <2>s DEF EaReloads, TrailTypeOK, Position
  <2> QED
    BY <2>1, <2>2, <2>3, <2>4, <2>5, <2>6, <2>7, <2>s DEF TrailNext
<1>2. TrailInit => SellsHaveStops
  BY DEF TrailInit, SellsHaveStops
<1> QED
  BY <1>1, <1>2, TypeInit, TypeStep, SellStep, PTL DEF TrailSpec, StopOnlyTightens
-----------------------------------------------------------------------------
(* The stop follows the best price.  A position that is known to the table is  *)
(* known with its first stop, and one that is not has not been trailed yet;    *)
(* the table has room for it, because no slot is taken by a number that has    *)
(* not been given.                                                            *)

\* The stop of the order, from which R is taken.
FirstStop(t) == pos[t].entry - pos[t].dir * Risk

\* Opened without parameters of a regime, and watched from the open on
Plain(t) == pos[t].intact /\ ~pos[t].regime

\* Slots are taken by positions and by deals that there have been, and no deal
\* of an open position that carries no regime has one.
TableInv ==
  /\ \A n \in tracked : n <= last \/ (n > MaxTickets /\ n <= MaxTickets + last)
  /\ DealIsPosition => \A n \in tracked : n <= MaxTickets
  /\ \A t \in open : ~pos[t].regime => MaxTickets + t \notin tracked

SlotInv ==
  \A t \in open : Plain(t) =>
    /\ t \in tracked => /\ slot[t].initial = FirstStop(t)
                        /\ slot[t].activate = 0 /\ slot[t].distance = 0
    /\ t \notin tracked => pos[t].sl = FirstStop(t)

\* mql5/AISMCReceiver.mq5, "128 is generous": as many slots as positions, and as
\* deals with numbers of their own, that one run of the terminal sees.
TableHasRoom == (IF DealIsPosition THEN MaxTickets ELSE 2 * MaxTickets - 1) <= MaxTracked

\* A set that misses an element of a finite one is smaller.
LEMMA OneMissing ==
  ASSUME NEW A, IsFiniteSet(A), NEW T \in SUBSET A, NEW a \in A, a \notin T
  PROVE  Cardinality(T) + 1 <= Cardinality(A)
<1>1. IsFiniteSet(T) /\ Cardinality(T) \in Nat /\ Cardinality(A) \in Nat
  BY FS_Subset, FS_CardinalityType
<1>2. IsFiniteSet(T \cup {a}) /\ Cardinality(T \cup {a}) = Cardinality(T) + 1
  BY <1>1, FS_AddElement
<1>3. T \cup {a} \subseteq A
  OBVIOUS
<1>4. Cardinality(T \cup {a}) <= Cardinality(A)
  BY <1>3, FS_Subset, Zenon
<1> QED
  BY <1>2, <1>4

\* A plain position that has no slot finds one.
LEMMA SlotFree ==
  ASSUME TableHasRoom, TrailTypeOK, TableInv, NEW t \in open, ~pos[t].regime
  PROVE  t \in tracked \/ ~Full
<1> SUFFICES ASSUME t \notin tracked PROVE Cardinality(tracked) < MaxTracked
  BY TableFinite, TrailAssumption DEF Full, TrailAssumption, TrailTypeOK
<1>1. MaxTickets \in Nat /\ MaxTracked \in Nat /\ t \in 1..MaxTickets
  BY CandidateTyped, TrailAssumption DEF TrailAssumption, Tickets
<1>2. MaxTickets + t \notin tracked
  BY DEF TableInv
<1>f. IsFiniteSet(tracked) /\ Cardinality(tracked) \in Nat
  BY TableFinite DEF TrailTypeOK
<1>3. CASE DealIsPosition
  <2>1. tracked \subseteq 1..MaxTickets
    BY <1>1, <1>3 DEF TableInv, TrailTypeOK, Numbers
  <2>2. IsFiniteSet(1..MaxTickets) /\ Cardinality(1..MaxTickets) = MaxTickets
    BY <1>1, FS_Interval
  <2>3. Cardinality(tracked) + 1 <= Cardinality(1..MaxTickets)
    BY <1>1, <2>1, <2>2, OneMissing
  <2> QED
    BY <1>1, <1>f, <1>3, <2>2, <2>3 DEF TableHasRoom
<1>4. CASE ~DealIsPosition
  <2> DEFINE T == tracked \cup {t}
  <2>1. IsFiniteSet(Numbers) /\ Cardinality(Numbers) = 2 * MaxTickets
    BY <1>1, FS_Interval DEF Numbers
  <2>2. Cardinality(T) = Cardinality(tracked) + 1
    BY <1>f, FS_AddElement
  <2>3. MaxTickets + t \in Numbers /\ T \subseteq Numbers
    BY <1>1 DEF Numbers, TrailTypeOK
  <2>4. MaxTickets + t \notin T
    BY <1>1, <1>2
  <2> HIDE DEF T
  <2>5. Cardinality(T) + 1 <= Cardinality(Numbers)
    BY <2>1, <2>3, <2>4, OneMissing
  <2> QED
    BY <1>1, <1>f, <1>4, <2>1, <2>2, <2>5 DEF TableHasRoom
<1> QED
  BY <1>3, <1>4

\* What GetInitialSL and the two getters answer for a plain position.
LEMMA PlainParameters ==
  ASSUME TrailTypeOK, SlotInv, NEW t \in open, Plain(t)
  PROVE  /\ InitialSl(t) = FirstStop(t) /\ InitialRisk(t) = Risk
         /\ EffectiveActivate(t) = TrailActivate /\ EffectiveDistance(t) = TrailDistance
<1>1. Risk \in Nat /\ pos[t] \in Position
  BY CandidateTyped, TrailAssumption DEF TrailAssumption, TrailTypeOK
<1>2. InitialSl(t) = FirstStop(t)
  BY DEF InitialSl, SlotInv
<1>3. pos[t].dir * (pos[t].entry - FirstStop(t)) = Risk
  <2>1. CASE pos[t].dir = 1
    BY <1>1, <2>1 DEF FirstStop, Position
  <2>2. CASE pos[t].dir = -1
    BY <1>1, <2>2 DEF FirstStop, Position
  <2> QED
    BY <1>1, <2>1, <2>2 DEF Position
<1> QED
  BY <1>2, <1>3 DEF InitialRisk, EffectiveActivate, EffectiveDistance, SlotInv

\* The pass over a plain position: the stop it would set, and when.
LEMMA PlainPass ==
  ASSUME TrailTypeOK, SellsHaveStops, SlotInv, NEW t \in open, Plain(t)
  PROVE  LET DR == (TrailDistance * Risk) \div 100
             stop == pos[t].dir * (pos[t].sl - pos[t].entry)
             best == pos[t].dir * (pos[t].best - pos[t].entry)
         IN  /\ pos[t].dir * (Candidate(t) - pos[t].entry) = Profit(t) - DR
             /\ Due(t) <=> /\ 100 * Profit(t) >= TrailActivate * Risk /\ Profit(t) - DR > stop
                           /\ ~Debounced(t)
             /\ pos[t].dir * (Further(t) - pos[t].entry) = IF Profit(t) > best THEN Profit(t) ELSE best
<1> DEFINE DR == (TrailDistance * Risk) \div 100
           AR == TrailActivate * Risk
<1>1. /\ Risk \in Nat \ {0} /\ pos[t].dir \in {1, -1} /\ pos[t].sl \in Int /\ pos[t].entry \in Int
      /\ pos[t].best \in Int /\ price \in Int
  BY CandidateTyped, TrailAssumption DEF TrailAssumption, TrailTypeOK, Position
<1>2. DR \in Int /\ AR \in Int
  <2>1. TrailDistance * Risk \in Int /\ AR \in Int
    BY TrailAssumption DEF TrailAssumption
  <2> QED
    BY <2>1
<1>3. /\ Candidate(t) = price - pos[t].dir * DR
      /\ InitialRisk(t) = Risk /\ EffectiveActivate(t) * InitialRisk(t) = AR
  BY PlainParameters DEF Candidate
<1> HIDE DEF DR, AR
<1>4. Due(t) <=> 100 * Profit(t) >= AR /\ Progress(t) /\ ~Debounced(t)
  BY <1>1, <1>3 DEF Due
<1>5. CASE pos[t].dir = 1
  BY <1>1, <1>2, <1>3, <1>4, <1>5 DEF Progress, Profit, Further, DR, AR
<1>6. CASE pos[t].dir = -1
  <2>1. pos[t].sl > 0
    BY <1>6 DEF SellsHaveStops
  <2> QED
    BY <1>1, <1>2, <1>3, <1>4, <1>6, <2>1 DEF Progress, Profit, Further, DR, AR
<1> QED
  BY <1>1, <1>5, <1>6

\* No step gives a slot to a number that has not been given.
LEMMA TableStep == TrailTypeOK /\ TableInv /\ [TrailNext]_trailVars => TableInv'
<1> SUFFICES ASSUME TrailTypeOK, TableInv, [TrailNext]_trailVars PROVE TableInv'
  OBVIOUS
<1>n. MaxTickets \in Nat /\ last \in 0..MaxTickets /\ open \subseteq 1..last /\ last \in Int
  BY TrailAssumption DEF TrailAssumption, TrailTypeOK
<1>s. ASSUME last' = last, tracked' \subseteq tracked,
             \A t \in open' : t \in open /\ pos'[t].regime = pos[t].regime
      PROVE  TableInv'
  BY <1>s DEF TableInv
<1>t. ASSUME NEW t \in open PROVE t \in Tickets /\ pos[t] \in Position /\ pos[t] \in Position
  BY CandidateTyped DEF TrailTypeOK
<1>1. ASSUME NEW p \in 1..MaxPrice, PriceMoves(p) PROVE TableInv'
  BY <1>1, <1>s, <1>t DEF PriceMoves, Closed
<1>2. ASSUME NEW u \in open, PositionCloses(u) PROVE TableInv'
  BY <1>2, <1>s, <1>t DEF PositionCloses, Closed
<1>3. ASSUME NEW dir \in {1, -1}, NEW regime \in BOOLEAN, Open(dir, regime) PROVE TableInv'
  <2>1. /\ last + 1 \in Tickets /\ last' = last + 1 /\ open' = open \cup {last + 1}
        /\ pos'[last + 1].regime = regime
        /\ \A t \in open : t # last + 1 /\ pos'[t] = pos[t]
    BY <1>3, <1>n, <1>t DEF Open, TrailTypeOK
  <2>2. CASE ~regime
    <3>1. tracked' = tracked
      BY <1>3, <2>2 DEF Open
    <3>2. MaxTickets + (last + 1) \notin tracked
      BY <1>n DEF TableInv, Tickets
    <3>3. \A t \in open' : ~pos'[t].regime => MaxTickets + t \notin tracked'
      BY <1>n, <2>1, <3>1, <3>2 DEF TableInv
    <3>4. \A n \in tracked' : n <= last' \/ (n > MaxTickets /\ n <= MaxTickets + last')
      BY <1>n, <2>1, <3>1 DEF TableInv, TrailTypeOK, Numbers
    <3> QED
      BY <3>1, <3>3, <3>4 DEF TableInv
  <2>3. CASE regime
    <3>1. PICK deal \in DealNumbers(last + 1) : RecordTrailParams(deal)
      BY <1>3, <2>3 DEF Open
    <3>2. tracked' \subseteq tracked \cup {deal}
      BY <3>1 DEF RecordTrailParams
    <3>3. /\ deal = last + 1 \/ (~DealIsPosition /\ deal = last + 1 + MaxTickets)
          /\ last + 1 <= MaxTickets
      BY <2>1, <3>1 DEF DealNumbers, Tickets
    <3>4. \A n \in tracked' : n <= last' \/ (n > MaxTickets /\ n <= MaxTickets + last')
      BY <1>n, <2>1, <3>2, <3>3 DEF TableInv, TrailTypeOK, Numbers
    <3>5. DealIsPosition => \A n \in tracked' : n <= MaxTickets
      BY <3>2, <3>3 DEF TableInv
    <3>6. \A t \in open' : ~pos'[t].regime => MaxTickets + t \notin tracked'
      <4> SUFFICES ASSUME NEW t \in open', ~pos'[t].regime PROVE MaxTickets + t \notin tracked'
        OBVIOUS
      <4>1. t \in open /\ t # last + 1 /\ ~pos[t].regime
        BY <2>1, <2>3
      <4>2. MaxTickets + t \notin tracked /\ t \in Int /\ t > 0
        BY <1>n, <4>1 DEF TableInv
      <4>3. MaxTickets + t # deal
        BY <1>n, <3>3, <4>1, <4>2
      <4> QED
        BY <3>2, <4>2, <4>3
    <3> QED
      BY <3>4, <3>5, <3>6 DEF TableInv
  <2> QED
    BY <2>2, <2>3
<1>4. ASSUME NEW u \in open, NEW b \in BOOLEAN, Track(u, b), last' = last, open' = open,
             \A t \in open : pos'[t].regime = pos[t].regime
      PROVE  TableInv'
  <2>1. tracked' \subseteq tracked \cup {u} /\ u <= last
    BY <1>4, <1>n DEF Track
  <2> QED
    BY <1>4, <1>n, <2>1 DEF TableInv
<1>5. ASSUME NEW u \in open, Trail(u) PROVE TableInv'
  <2>1. \A t \in open : pos'[t].regime = pos[t].regime
    BY <1>5, <1>t DEF Trail, TrailTypeOK, Position
  <2> QED
    BY <1>4, <1>5, <2>1 DEF Trail
<1>6. ASSUME NEW u \in open, Leave(u) PROVE TableInv'
  <2>1. \A t \in open : pos'[t].regime = pos[t].regime
    BY <1>6, <1>t DEF Leave, TrailTypeOK, Position
  <2> QED
    BY <1>4, <1>6, <2>1 DEF Leave
<1>7. ASSUME NEW u \in open, IntervalPasses(u) PROVE TableInv'
  BY <1>7, <1>s DEF IntervalPasses, brokerVars
<1>8. CASE EaReloads
  <2>1. \A t \in open : pos'[t].regime = pos[t].regime
    BY <1>8, <1>t DEF EaReloads, TrailTypeOK, Position
  <2> QED
    BY <1>8, <1>s, <2>1 DEF EaReloads
<1>9. CASE UNCHANGED trailVars
  BY <1>9, <1>s DEF trailVars
<1> QED
  BY <1>1, <1>2, <1>3, <1>5, <1>6, <1>7, <1>8, <1>9 DEF TrailNext

\* What StopFollows and SlotInv say of one position.
Follows(t) ==
  Plain(t) =>
    /\ At(t, StopProfit(t, TrailActivate, TrailDistance))
    /\ t \in tracked => /\ slot[t].initial = FirstStop(t)
                        /\ slot[t].activate = 0 /\ slot[t].distance = 0
    /\ t \notin tracked => pos[t].sl = FirstStop(t)

LEMMA FollowsSplit == (\A t \in open : Follows(t)) <=> SlotInv /\ StopFollows
BY DEF Follows, SlotInv, StopFollows, Plain

\* The pass over a plain position, whether it modifies the stop or not.
LEMMA PassFollows ==
  ASSUME TableHasRoom, TrailTypeOK, SellsHaveStops, TableInv, \A u \in open : Follows(u),
         NEW t \in open, Plain(t), Trail(t) \/ Leave(t)
  PROVE  Follows(t)'
<1> DEFINE DR == (TrailDistance * Risk) \div 100
           AR == TrailActivate * Risk
           best == pos[t].dir * (pos[t].best - pos[t].entry)
           F(x) == IF 100 * x >= AR THEN Larger(-Risk, x - DR) ELSE -Risk
<1>0. SlotInv /\ StopFollows
  BY FollowsSplit
<1>1. /\ Risk \in Nat \ {0} /\ pos[t].dir \in {1, -1} /\ pos[t].sl \in Int /\ pos[t].entry \in Int
      /\ pos[t].best \in Int /\ price \in Int /\ t \in Tickets /\ t \in Numbers
      /\ pos[t] \in Position /\ slot[t] \in Slot /\ Profit(t) \in Int /\ Candidate(t) \in Int
  BY CandidateTyped, TrailAssumption DEF TrailAssumption, TrailTypeOK, Position
<1>2. DR \in Int /\ AR \in Int /\ best \in Int
  <2>1. TrailDistance * Risk \in Int /\ AR \in Int
    BY TrailAssumption DEF TrailAssumption
  <2> QED
    BY <1>1, <2>1
<1>3. pos[t].dir * (pos[t].sl - pos[t].entry) = F(best)
  BY <1>0 DEF StopFollows, Plain, At, StopProfit
<1>4. /\ pos[t].dir * (Candidate(t) - pos[t].entry) = Profit(t) - DR
      /\ Due(t) <=> 100 * Profit(t) >= AR /\ Profit(t) - DR > F(best) /\ ~Debounced(t)
      /\ pos[t].dir * (Further(t) - pos[t].entry) = IF Profit(t) > best THEN Profit(t) ELSE best
  BY <1>0, <1>3, PlainPass
<1>5. /\ 100 * Profit(t) >= AR /\ Profit(t) - DR > F(best)
           => F(IF Profit(t) > best THEN Profit(t) ELSE best) = Profit(t) - DR
      /\ ~(100 * Profit(t) >= AR /\ Profit(t) - DR > F(best))
           => F(IF Profit(t) > best THEN Profit(t) ELSE best) = F(best)
  <2> HIDE DEF DR, AR, best
  <2>1. Risk \in Int
    BY <1>1
  <2> QED
    BY <1>1, <1>2, <2>1 DEF Larger
<1>6. /\ t \in tracked'
      /\ slot'[t].initial = FirstStop(t) /\ slot'[t].activate = 0 /\ slot'[t].distance = 0
  <2>1. t \in tracked \/ ~Full
    BY SlotFree DEF Plain
  <2>2. PICK b \in BOOLEAN : Track(t, b)
    BY DEF Trail, Leave
  <2>3. CASE t \in tracked
    BY <1>0, <1>1, <2>2, <2>3 DEF Track, SlotInv, TrailTypeOK, Slot
  <2>4. CASE t \notin tracked
    <3>1. pos[t].sl = FirstStop(t)
      BY <1>0, <2>4 DEF SlotInv
    <3> QED
      BY <1>1, <2>1, <2>2, <2>4, <3>1 DEF Track, NewSlot, TrailTypeOK, Slot
  <2> QED
    BY <2>3, <2>4
<1>7. ASSUME NEW s \in Int, NEW b \in Int, pos'[t] = [pos[t] EXCEPT !.sl = s, !.best = b],
             pos[t].dir * (s - pos[t].entry) = F(pos[t].dir * (b - pos[t].entry))
      PROVE  Follows(t)'
  <2>1. /\ pos'[t].dir = pos[t].dir /\ pos'[t].entry = pos[t].entry
        /\ pos'[t].sl = s /\ pos'[t].best = b
    BY <1>1, <1>7 DEF Position
  <2>2. FirstStop(t)' = FirstStop(t)
    BY <2>1 DEF FirstStop
  <2>3. At(t, StopProfit(t, TrailActivate, TrailDistance))'
    BY <1>7, <2>1 DEF At, StopProfit
  <2> QED
    BY <1>6, <2>2, <2>3 DEF Follows
<1>8. Further(t) \in Int
  BY CandidateTyped
<1> HIDE DEF DR, AR, best
<1>9. CASE Trail(t)
  <2>1. pos'[t] = [pos[t] EXCEPT !.sl = Candidate(t), !.best = Further(t)] /\ Due(t)
    BY <1>9, <1>1 DEF Trail, TrailTypeOK, Position
  <2> QED
    BY <1>1, <1>4, <1>5, <1>7, <1>8, <2>1
<1>10. CASE Leave(t) /\ ~Due(t) /\ ~Debounced(t)
  <2>1. pos'[t] = [pos[t] EXCEPT !.best = Further(t)]
    BY <1>10, <1>1 DEF Leave, TrailTypeOK, Position
  <2>2. pos'[t] = [pos[t] EXCEPT !.sl = pos[t].sl, !.best = Further(t)]
    BY <1>1, <2>1 DEF Position
  <2> QED
    BY <1>1, <1>3, <1>4, <1>5, <1>7, <1>8, <1>10, <2>2
<1>11. CASE Leave(t) /\ (Due(t) \/ Debounced(t))
  <2>1. pos'[t] = pos[t]
    BY <1>11 DEF Leave
  <2>2. pos'[t] = [pos[t] EXCEPT !.sl = pos[t].sl, !.best = pos[t].best]
    BY <1>1, <2>1 DEF Position
  <2> QED
    BY <1>1, <1>3, <1>7, <2>2 DEF best
<1> QED
  BY <1>9, <1>10, <1>11

FollowInv == TrailTypeOK /\ SellsHaveStops /\ TableInv /\ \A t \in open : Follows(t)

\* Every step keeps the stops of the plain positions where they belong.
LEMMA FollowStep ==
  ASSUME TableHasRoom, FollowInv, [TrailNext]_trailVars
  PROVE  \A t \in open' : Follows(t)'
<1> SUFFICES ASSUME NEW t \in open', Plain(t)' PROVE Follows(t)'
  BY DEF Follows
<1> USE DEF FollowInv
<1>n. MaxTickets \in Nat /\ Risk \in Nat \ {0} /\ last \in 0..MaxTickets /\ open \subseteq 1..last
      /\ price \in Int
  BY TrailAssumption DEF TrailAssumption, TrailTypeOK
<1>t. ASSUME NEW u \in open PROVE u \in Tickets /\ u \in Numbers /\ u <= last /\ pos[u] \in Position
  BY <1>n, CandidateTyped DEF TrailTypeOK
<1>s. ASSUME t \in open, pos'[t] = pos[t], t \in tracked' <=> t \in tracked,
             t \in tracked => /\ slot'[t].initial = slot[t].initial
                              /\ slot'[t].activate = slot[t].activate
                              /\ slot'[t].distance = slot[t].distance
      PROVE  Follows(t)'
  <2>1. Follows(t) /\ Plain(t)
    BY <1>s DEF Plain
  <2> QED
    BY <1>s, <2>1 DEF Follows, FirstStop, At, StopProfit
<1>1. ASSUME NEW p \in 1..MaxPrice, PriceMoves(p) PROVE Follows(t)'
  BY <1>1, <1>s, <1>t DEF PriceMoves, Closed
<1>2. ASSUME NEW u \in open, PositionCloses(u) PROVE Follows(t)'
  BY <1>2, <1>s, <1>t DEF PositionCloses, Closed
<1>3. ASSUME NEW dir \in {1, -1}, NEW regime \in BOOLEAN, Open(dir, regime) PROVE Follows(t)'
  <2>1. last + 1 \in Tickets /\ open' = open \cup {last + 1} /\ last + 1 \in Numbers
    BY <1>3, <1>n DEF Open, Tickets, Numbers
  <2>2. CASE t = last + 1
    <3>1. /\ pos'[t].dir = dir /\ pos'[t].entry = price /\ pos'[t].sl = price - dir * Risk
          /\ pos'[t].regime = regime /\ pos'[t].best = price
      BY <1>3, <2>1, <2>2 DEF Open, TrailTypeOK
    <3>2. ~regime /\ tracked' = tracked
      BY <1>3, <3>1 DEF Open, Plain
    <3>3. last + 1 \notin tracked
      BY <1>n, <2>1 DEF TableInv, Tickets
    <3>4. pos'[t].sl = FirstStop(t)'
      BY <3>1 DEF FirstStop
    <3>5. dir * (price - price) = 0 /\ dir * ((price - dir * Risk) - price) = - Risk
      BY <1>n
    <3>6. ~(100 * (pos'[t].dir * (pos'[t].best - pos'[t].entry)) >= TrailActivate * Risk)
      <4>1. TrailActivate * Risk \in Int /\ TrailActivate * Risk > 0
        BY <1>n, TrailAssumption DEF TrailAssumption
      <4>2. pos'[t].dir * (pos'[t].best - pos'[t].entry) = 0
        BY <3>1, <3>5
      <4> QED
        BY <4>1, <4>2
    <3>7. At(t, StopProfit(t, TrailActivate, TrailDistance))'
      BY <3>1, <3>5, <3>6, Zenon DEF At, StopProfit
    <3> QED
      BY <2>2, <3>2, <3>3, <3>4, <3>7 DEF Follows
  <2>3. CASE t # last + 1
    <3>1. t \in open /\ t \in Numbers /\ t \in Tickets /\ t \in 1..MaxTickets /\ t # last + 1
      BY <1>t, <2>1, <2>3 DEF Tickets
    <3>2. pos'[t] = pos[t]
      BY <1>3, <2>1, <3>1 DEF Open, TrailTypeOK
    <3>3. CASE ~regime
      BY <1>3, <1>s, <3>1, <3>2, <3>3 DEF Open
    <3>4. CASE regime
      <4>1. PICK deal \in DealNumbers(last + 1) : RecordTrailParams(deal)
        BY <1>3, <3>4 DEF Open
      <4>2. deal \in Numbers /\ deal # t
        BY <1>n, <2>1, <3>1, <4>1 DEF DealNumbers, Numbers, Tickets
      <4>3. (t \in tracked' <=> t \in tracked) /\ slot'[t] = slot[t]
        BY <3>1, <4>1, <4>2 DEF RecordTrailParams, TrailTypeOK
      <4> QED
        BY <1>s, <3>1, <3>2, <4>3
    <3> QED
      BY <3>3, <3>4
  <2> QED
    BY <2>2, <2>3
<1>o. ASSUME NEW u \in open, u # t, NEW b \in BOOLEAN, Track(u, b), open' = open, pos'[t] = pos[t]
      PROVE  Follows(t)'
  <2>1. (t \in tracked' <=> t \in tracked) /\ slot'[t] = slot[t]
    BY <1>o, <1>t DEF Track, TrailTypeOK
  <2> QED
    BY <1>o, <1>s, <2>1
<1>4. ASSUME NEW u \in open, Trail(u) \/ Leave(u) PROVE Follows(t)'
  <2>1. t \in open /\ open' = open /\ pos'[t].regime = pos[t].regime /\ pos'[t].intact = pos[t].intact
    BY <1>4, <1>t DEF Trail, Leave, TrailTypeOK, Position
  <2>2. CASE u = t
    BY <1>4, <2>1, <2>2, PassFollows DEF Plain
  <2>3. CASE u # t
    <3>1. pos'[t] = pos[t]
      BY <1>4, <1>t, <2>1, <2>3 DEF Trail, Leave, TrailTypeOK
    <3> QED
      BY <1>4, <1>o, <2>1, <2>3, <3>1 DEF Trail, Leave
  <2> QED
    BY <2>2, <2>3
<1>5. ASSUME NEW u \in open, IntervalPasses(u) PROVE Follows(t)'
  <2>1. t \in open /\ pos' = pos /\ tracked' = tracked
    BY <1>5 DEF IntervalPasses, brokerVars
  <2>2. /\ slot'[t].initial = slot[t].initial /\ slot'[t].activate = slot[t].activate
        /\ slot'[t].distance = slot[t].distance
    BY <1>5, <1>t, <2>1 DEF IntervalPasses, TrailTypeOK, Slot
  <2> QED
    BY <1>s, <2>1, <2>2
<1>6. CASE EaReloads
  BY <1>6, <1>t DEF EaReloads, Plain, TrailTypeOK, Position
<1>7. CASE UNCHANGED trailVars
  BY <1>7, <1>s DEF trailVars
<1> QED
  BY <1>1, <1>2, <1>3, <1>4, <1>5, <1>6, <1>7 DEF TrailNext

\* AISMCReceiver.mq5:72, "128 is generous": with a slot for each number that one run
\* of the terminal may see, the stop of a position that carries no regime follows its
\* best price by the distance in R of the initial risk, whatever was trailed, opened,
\* closed or debounced before.  The table is never too small for these, only for more.
THEOREM StopFollowsBest == ASSUME TableHasRoom PROVE TrailSpec => []StopFollows
<1>1. TrailInit => FollowInv
  <2>1. TrailInit => TableInv /\ SellsHaveStops /\ \A t \in open : Follows(t)
    BY DEF TrailInit, TableInv, SellsHaveStops
  <2> QED
    BY <2>1, TypeInit DEF FollowInv
<1>2. FollowInv /\ [TrailNext]_trailVars => FollowInv'
  BY TypeStep, SellStep, TableStep, FollowStep DEF FollowInv
<1>3. FollowInv => StopFollows
  BY FollowsSplit DEF FollowInv
<1> QED
  BY <1>1, <1>2, <1>3, PTL DEF TrailSpec
=============================================================================
