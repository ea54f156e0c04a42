--------------------------- MODULE Research_proofs ---------------------------
(* Proofs about the research tools: the walk-forward gates with the scripts  *)
(* of single windows, for every history that begins by the 28th of a month   *)
(* and every list of holes and outcomes; the data lake, for every number of  *)
(* months, bars and backfills, whatever the sources offer (LakeAssumption);  *)
(* the backtest, from the charts to the books and the report, for every      *)
(* market that the detector and the regime layer can report (Views), every   *)
(* window of bars and every script (BacktestAssumption); and the detector,   *)
(* for every window and whatever the library finds in it                     *)
(* (DetectionAssumption).                                                    *)
EXTENDS WalkForward, Lake, Backtest, Detection, FiniteSetTheorems, SequenceTheorems,
        WellFoundedInduction, TLAPS

-----------------------------------------------------------------------------
\* What the sections share.

\* Induction over the naturals, for a set.
LEMMA NatInd ==
  ASSUME NEW S, 0 \in S, \A n \in Nat : n \in S => n + 1 \in S
  PROVE  Nat \subseteq S
<1> DEFINE T == Nat \ S
<1> SUFFICES ASSUME T # {} PROVE FALSE
  OBVIOUS
<1> HIDE DEF T
<1>1. T \subseteq Nat
  BY DEF T
<1>2. \E m \in T : \A k \in T : <<k, m>> \notin OpToRel(<, Nat)
  BY <1>1, WFMin, NatLessThanWellFounded, Zenon
<1>3. PICK m \in T : \A k \in T : ~(k < m)
  BY <1>1, <1>2, Zenon DEF OpToRel
<1>4. m \in Nat /\ m # 0 /\ m - 1 \in Nat /\ (m - 1) + 1 = m /\ m - 1 < m
  BY <1>1 DEF T
<1>5. m - 1 \in T
  BY <1>4 DEF T
<1> QED
  BY <1>3, <1>4, <1>5

\* The least and the largest of naturals up to a bound.
LEMMA SmallestNat ==
  ASSUME NEW T \in SUBSET Nat, T # {}
  PROVE  Min(T) \in T /\ \A k \in T : Min(T) <= k
<1>1. \E m \in T : \A k \in T : <<k, m>> \notin OpToRel(<, Nat)
  BY WFMin, NatLessThanWellFounded, Zenon
<1>2. PICK m \in T : \A k \in T : ~(k < m)
  BY <1>1, Zenon DEF OpToRel
<1>3. \A k \in T : m <= k
  BY <1>2
<1> QED
  BY <1>3 DEF Min

LEMMA LargestNat ==
  ASSUME NEW n \in Nat, NEW T \in SUBSET (0 .. n), T # {}
  PROVE  Max(T) \in T /\ \A k \in T : k <= Max(T)
<1> DEFINE U == {n - k : k \in T}
<1>0. \A k \in T : k \in Nat /\ n - k \in Nat /\ n - (n - k) = k
  OBVIOUS
<1>1. U \subseteq Nat /\ U # {} /\ \A u \in U : n - u \in T
  BY <1>0
<1>2. \A k \in T : n - k \in U /\ k \in Int
  BY <1>0
<1> HIDE DEF U
<1>3. PICK l \in U : \A u \in U : l <= u
  <2>1. Min(U) \in U /\ \A u \in U : Min(U) <= u
    BY <1>1, SmallestNat
  <2> QED
    BY <2>1
<1> DEFINE m == n - l
<1>4. m \in T /\ \A k \in T : m >= k
  <2>1. m \in T /\ l \in Int
    BY <1>1, <1>3
  <2>2. ASSUME NEW k \in T PROVE m >= k
    <3>1. l <= n - k /\ k \in Int
      BY <1>2, <1>3
    <3> QED
      BY <2>1, <3>1
  <2> QED
    BY <2>1, <2>2
<1> HIDE DEF m
<1> QED
  BY <1>4 DEF Max

-----------------------------------------------------------------------------
\* Walk-forward.

WalkSpec == WalkInit /\ [][WalkNext]_walkVars

\* A date whose day every month has.
EarlyDates == [y : Nat, m : 1 .. 12, d : 1 .. 28]
MonthNum(dt) == 12 * dt.y + dt.m - 1

LEMMA LaterMonth ==
  ASSUME NEW s \in EarlyDates, NEW n \in Nat
  PROVE  /\ AddMonths(s, n) \in EarlyDates
         /\ AddMonths(s, n).d = s.d /\ MonthNum(AddMonths(s, n)) = MonthNum(s) + n
<1> DEFINE k == s.m - 1 + n
           q == k \div 12
           rest == k % 12
           y == s.y + q
           m == rest + 1
<1>1. s.y \in Nat /\ s.m \in 1 .. 12 /\ s.d \in 1 .. 28 /\ k \in Nat
  BY DEF EarlyDates
<1>2. q \in Nat /\ rest \in 0 .. 11 /\ k = 12 * q + rest
  <2> HIDE DEF k
  <2> QED
    BY <1>1
<1>3. MonthDays(y, m) >= 28
  <2>1. m = 2 => MonthDays(y, m) \in {28, 29}
    BY DEF MonthDays
  <2>2. m # 2 => MonthDays(y, m) \in {30, 31}
    BY DEF MonthDays
  <2> QED
    BY <2>1, <2>2
<1>4. MonthDays(y, m) \in Int
  BY DEF MonthDays
<1>5. AddMonths(s, n) = [y |-> y, m |-> m, d |-> s.d]
  <2> DEFINE cap == MonthDays(y, m)
  <2>1. AddMonths(s, n) = [y |-> y, m |-> m, d |-> IF s.d < cap THEN s.d ELSE cap]
    BY DEF AddMonths
  <2>2. cap >= 28 /\ cap \in Int
    BY <1>3, <1>4
  <2> HIDE DEF cap, y, m
  <2> QED
    BY <1>1, <2>1, <2>2
<1>6. y \in Nat /\ m \in 1 .. 12 /\ 12 * y + m - 1 = 12 * s.y + s.m - 1 + n
  <2>1. k = s.m - 1 + n
    OBVIOUS
  <2> HIDE DEF q, rest, k
  <2> QED
    BY <1>1, <1>2, <2>1
<1> HIDE DEF y, m
<1> QED
  BY <1>1, <1>5, <1>6 DEF EarlyDates, MonthNum

\* Two of them on the same day of the same month are one.
LEMMA SameDate ==
  ASSUME NEW s \in EarlyDates, NEW t \in EarlyDates, s.d = t.d, MonthNum(s) = MonthNum(t)
  PROVE  s = t
<1>1. s.y = t.y /\ s.m = t.m
  BY DEF EarlyDates, MonthNum
<1> QED
  BY <1>1 DEF EarlyDates

LEMMA AddTwice ==
  ASSUME NEW s \in EarlyDates, NEW a \in Nat, NEW b \in Nat
  PROVE  AddMonths(AddMonths(s, a), b) = AddMonths(s, a + b)
<1>1. AddMonths(s, a) \in EarlyDates /\ a + b \in Nat
  BY LaterMonth
<1>2. /\ AddMonths(AddMonths(s, a), b) \in EarlyDates /\ AddMonths(AddMonths(s, a), b).d = s.d
      /\ MonthNum(AddMonths(AddMonths(s, a), b)) = MonthNum(s) + a + b
  <2>1. /\ AddMonths(AddMonths(s, a), b) \in EarlyDates /\ AddMonths(AddMonths(s, a), b).d = AddMonths(s, a).d
        /\ MonthNum(AddMonths(AddMonths(s, a), b)) = MonthNum(AddMonths(s, a)) + b
    BY <1>1, LaterMonth
  <2>2. AddMonths(s, a).d = s.d /\ MonthNum(AddMonths(s, a)) = MonthNum(s) + a
    BY LaterMonth
  <2> QED
    BY <2>1, <2>2
<1>3. /\ AddMonths(s, a + b) \in EarlyDates /\ AddMonths(s, a + b).d = s.d
      /\ MonthNum(AddMonths(s, a + b)) = MonthNum(s) + (a + b)
  BY <1>1, LaterMonth
<1>4. MonthNum(s) \in Int
  BY DEF MonthNum, EarlyDates
<1>5. MonthNum(AddMonths(AddMonths(s, a), b)) = MonthNum(AddMonths(s, a + b))
  BY <1>2, <1>3, <1>4
<1> QED
  BY <1>2, <1>3, <1>5, SameDate

LEMMA AddNone ==
  ASSUME NEW s \in EarlyDates
  PROVE  AddMonths(s, 0) = s
<1>1. /\ AddMonths(s, 0) \in EarlyDates /\ AddMonths(s, 0).d = s.d
      /\ MonthNum(AddMonths(s, 0)) = MonthNum(s) + 0
  BY LaterMonth
<1>2. MonthNum(s) \in Int
  BY DEF MonthNum, EarlyDates
<1>3. MonthNum(AddMonths(s, 0)) = MonthNum(s)
  BY <1>1, <1>2
<1> QED
  BY <1>1, <1>3, SameDate

\* The window of a number.
WindowStart(k) == AddMonths(dataStart, StepMonths * (k - 1))
Window == [num : Nat, train : EarlyDates \X EarlyDates, test : EarlyDates \X EarlyDates, out : Outcomes]

\* The loop is at the window after the last one it numbered, each result is that of the
\* window of its number, and the numbers increase.
WalkInv ==
  /\ dataStart \in EarlyDates /\ num \in Nat /\ windowStart = WindowStart(num + 1)
  /\ results \in Seq(Window)
  /\ \A i \in DOMAIN results :
       LET r == results[i]
       IN  r.num \in 1 .. num /\ r.train = Train(WindowStart(r.num)) /\ r.test = Test(WindowStart(r.num))
  /\ \A i, j \in DOMAIN results : i < j => results[i].num < results[j].num

LEMMA WindowOf ==
  ASSUME NEW k \in Nat, k >= 1, dataStart \in EarlyDates
  PROVE  /\ WindowStart(k) \in EarlyDates
         /\ Train(WindowStart(k)) \in EarlyDates \X EarlyDates
         /\ Test(WindowStart(k)) \in EarlyDates \X EarlyDates
         /\ Train(WindowStart(k))[2] = Test(WindowStart(k))[1]
         /\ Test(WindowStart(k))[1] = AddMonths(dataStart, 3 * k + 9)
         /\ Test(WindowStart(k))[2] = AddMonths(dataStart, 3 * k + 12)
         /\ WindowStart(k + 1) = AddMonths(WindowStart(k), StepMonths)
<1> DEFINE n == 3 * (k - 1)
<1>1. n \in Nat /\ n + 12 = 3 * k + 9 /\ n + 15 = 3 * k + 12 /\ n + 3 = 3 * (k + 1 - 1)
  OBVIOUS
<1>2. WindowStart(k) = AddMonths(dataStart, n) /\ WindowStart(k + 1) = AddMonths(dataStart, 3 * (k + 1 - 1))
  BY DEF WindowStart, StepMonths
<1> HIDE DEF n
<1>3. AddMonths(dataStart, n) \in EarlyDates
  BY <1>1, LaterMonth
<1>4. AddMonths(AddMonths(dataStart, n), 12) = AddMonths(dataStart, n + 12) /\ n + 12 \in Nat
  BY <1>1, AddTwice
<1>5. AddMonths(AddMonths(dataStart, n), 3) = AddMonths(dataStart, n + 3)
  BY <1>1, AddTwice
<1>6. AddMonths(AddMonths(dataStart, n + 12), 3) = AddMonths(dataStart, n + 15)
  <2>1. AddMonths(AddMonths(dataStart, n + 12), 3) = AddMonths(dataStart, n + 12 + 3)
    BY <1>4, AddTwice
  <2>2. n + 12 + 3 = n + 15
    BY <1>1
  <2> QED
    BY <2>1, <2>2
<1>7. AddMonths(dataStart, n + 12) \in EarlyDates /\ AddMonths(dataStart, n + 15) \in EarlyDates
  BY <1>1, LaterMonth
<1> QED
  BY <1>1, <1>2, <1>3, <1>4, <1>5, <1>6, <1>7 DEF Train, Test, TrainMonths, TestMonths, StepMonths

\* The order of two dates is that of their months.
LEMMA DatesInOrder ==
  ASSUME NEW s \in EarlyDates, NEW a \in Nat, NEW b \in Nat, a <= b
  PROVE  DateNum(AddMonths(s, a)) <= DateNum(AddMonths(s, b))
<1>1. \A dt \in EarlyDates : DateNum(dt) = 31 * MonthNum(dt) + dt.d - 1 /\ MonthNum(dt) \in Int /\ dt.d \in Int
  BY DEF DateNum, MonthNum, EarlyDates
<1>2. /\ AddMonths(s, a) \in EarlyDates /\ AddMonths(s, a).d = s.d /\ MonthNum(AddMonths(s, a)) = MonthNum(s) + a
      /\ AddMonths(s, b) \in EarlyDates /\ AddMonths(s, b).d = s.d /\ MonthNum(AddMonths(s, b)) = MonthNum(s) + b
  BY LaterMonth
<1> QED
  BY <1>1, <1>2

LEMMA WalkInvTests == WalkInv => TestedOnce
<1> SUFFICES ASSUME WalkInv, NEW i \in DOMAIN results, NEW j \in DOMAIN results
             PROVE  /\ results[i].train[2] = results[i].test[1]
                    /\ i < j => DateNum(results[i].test[2]) <= DateNum(results[j].test[1])
                    /\ results[j].num = results[i].num + 1 => results[i].test[2] = results[j].test[1]
  BY DEF TestedOnce
<1> DEFINE a == results[i].num
           b == results[j].num
<1>1. /\ a \in Nat /\ a >= 1 /\ b \in Nat /\ b >= 1 /\ dataStart \in EarlyDates
      /\ results[i].train = Train(WindowStart(a)) /\ results[i].test = Test(WindowStart(a))
      /\ results[j].test = Test(WindowStart(b))
      /\ (i < j => a < b)
  BY DEF WalkInv
<1> HIDE DEF a, b
<1>2. /\ Train(WindowStart(a))[2] = Test(WindowStart(a))[1]
      /\ Test(WindowStart(a))[2] = AddMonths(dataStart, 3 * a + 12)
      /\ Test(WindowStart(b))[1] = AddMonths(dataStart, 3 * b + 9)
  BY <1>1, WindowOf
<1>3. a < b => 3 * a + 12 <= 3 * b + 9 /\ 3 * a + 12 \in Nat /\ 3 * b + 9 \in Nat
  BY <1>1
<1>4. b = a + 1 => 3 * a + 12 = 3 * b + 9
  BY <1>1
<1>5. i < j => DateNum(AddMonths(dataStart, 3 * a + 12)) <= DateNum(AddMonths(dataStart, 3 * b + 9))
  BY <1>1, <1>3, DatesInOrder
<1> QED
  BY <1>1, <1>2, <1>4, <1>5 DEF a, b

LEMMA WalkStep == WalkInv /\ [WalkNext]_walkVars => WalkInv'
<1> SUFFICES ASSUME WalkInv, [WalkNext]_walkVars PROVE WalkInv'
  OBVIOUS
<1>1. CASE UNCHANGED <<dataStart, windowStart, num, results>>
  BY <1>1 DEF WalkInv, WindowStart
<1>2. CASE Walk
  <2> DEFINE k == num + 1
             r(out) == [num |-> k, train |-> Train(windowStart), test |-> Test(windowStart), out |-> out]
  <2>1. num \in Nat /\ k \in Nat /\ k >= 1 /\ windowStart = WindowStart(k) /\ dataStart \in EarlyDates
    BY DEF WalkInv
  <2>2. /\ Train(WindowStart(k)) \in EarlyDates \X EarlyDates
        /\ Test(WindowStart(k)) \in EarlyDates \X EarlyDates
        /\ WindowStart(k + 1) = AddMonths(WindowStart(k), StepMonths)
    BY <2>1, WindowOf
  <2>3. num' = k /\ dataStart' = dataStart /\ windowStart' = AddMonths(windowStart, StepMonths)
    BY <1>2 DEF Walk
  <2>5. windowStart' = WindowStart(num' + 1)
    BY <2>1, <2>2, <2>3
  <2>6. results' = results \/ \E out \in Outcomes : results' = Append(results, r(out))
    BY <1>2 DEF Walk
  <2>7. /\ results \in Seq(Window)
        /\ \A i \in 1 .. Len(results) :
              /\ results[i].num \in 1 .. num
              /\ results[i].train = Train(WindowStart(results[i].num))
              /\ results[i].test = Test(WindowStart(results[i].num))
        /\ \A i, j \in 1 .. Len(results) : i < j => results[i].num < results[j].num
    BY DEF WalkInv
  <2>8. CASE results' = results
    <3>1. \A n \in 1 .. num : n \in 1 .. k
      BY <2>1
    <3> QED
      BY <2>1, <2>3, <2>5, <2>7, <2>8, <3>1 DEF WalkInv, WindowStart
  <2>9. ASSUME NEW out \in Outcomes, results' = Append(results, r(out)) PROVE WalkInv'
    <3> DEFINE n == Len(results)
    <3>1. r(out) \in Window
      BY <2>1, <2>2 DEF Window
    <3>2. r(out).num = k /\ r(out).train = Train(WindowStart(k)) /\ r(out).test = Test(WindowStart(k))
      BY <2>1
    <3> HIDE DEF r
    <3>3. /\ results' \in Seq(Window) /\ Len(results') = n + 1 /\ n \in Nat
          /\ \A i \in 1 .. n : results'[i] = results[i]
          /\ results'[n + 1] = r(out)
      BY <2>7, <2>9, <3>1
    <3>4. \A i \in 1 .. n + 1 : /\ results'[i].num \in 1 .. k
                                /\ results'[i].train = Train(WindowStart(results'[i].num))
                                /\ results'[i].test = Test(WindowStart(results'[i].num))
                                /\ i \in 1 .. n \/ i = n + 1
      <4> TAKE i \in 1 .. n + 1
      <4>1. CASE i \in 1 .. n
        BY <2>1, <2>7, <3>3, <4>1
      <4>2. CASE i = n + 1
        BY <2>1, <3>2, <3>3, <4>2
      <4> QED
        BY <3>3, <4>1, <4>2
    <3>5. \A i, j \in 1 .. n + 1 : i < j => results'[i].num < results'[j].num
      <4> TAKE i, j \in 1 .. n + 1
      <4> SUFFICES ASSUME i < j PROVE results'[i].num < results'[j].num
        OBVIOUS
      <4>1. i \in 1 .. n
        BY <3>3
      <4>2. CASE j \in 1 .. n
        BY <2>7, <3>3, <4>1, <4>2
      <4>3. CASE j = n + 1
        BY <2>1, <2>7, <3>2, <3>3, <4>1, <4>3
      <4> QED
        BY <3>3, <4>2, <4>3
    <3>6. DOMAIN results' = 1 .. n + 1
      BY <3>3
    <3> QED
      BY <2>1, <2>3, <2>5, <3>3, <3>4, <3>5, <3>6 DEF WalkInv, WindowStart
  <2> QED
    BY <2>6, <2>8, <2>9
<1> QED
  BY <1>1, <1>2 DEF WalkNext, Abort, Judge, RunSingleWindow, walkVars

\* The loop of every gate script tests no day twice, never before its own training has
\* ended, and leaves no day out between two windows, for every history that begins by the
\* 28th of a month, whatever months are without bars.
THEOREM DaysAreTestedOnce ==
  ASSUME DataStarts \subseteq EarlyDates
  PROVE  WalkSpec => []TestedOnce
<1>1. WalkInit => WalkInv
  <2> SUFFICES ASSUME WalkInit PROVE WalkInv
    OBVIOUS
  <2>1. dataStart \in EarlyDates /\ windowStart = dataStart /\ num = 0 /\ results = <<>>
    BY DEF WalkInit
  <2>2. AddMonths(dataStart, 0) = dataStart
    BY <2>1, AddNone
  <2>3. StepMonths * (0 + 1 - 1) = 0
    BY DEF StepMonths
  <2> QED
    BY <2>1, <2>2, <2>3 DEF WalkInv, WindowStart
<1> QED
  BY <1>1, WalkStep, WalkInvTests, PTL DEF WalkSpec

\* StartOf goes a step on for each number before its own.  It is a fold over a sequence,
\* so it is what a function of the subsets of 1 .. n - 1 is of that set.
LEMMA StartOfIsWindowStart ==
  ASSUME dataStart \in EarlyDates, NEW n \in Nat, n >= 1
  PROVE  StartOf(n) = WindowStart(n)
<1> DEFINE T == 1 .. n - 1
           q == [i \in 1 .. n - 1 |-> i]
           IsFold(h, S) == h = [s \in SUBSET S |->
                                  IF s = {} THEN dataStart ELSE AddMonths(h[s \ {Max(s)}], 3)]
           iter(S) == CHOOSE h : IsFold(h, S)
<1>1. StartOf(n) = iter(DOMAIN q)[DOMAIN q] /\ DOMAIN q = T
  BY DEF StartOf, FoldLeft, MapThenFoldSet, StepMonths
<1>2. \A s \in SUBSET T : s # {} => Max(s) \in s /\ \A k \in s : k <= Max(s)
  <2>1. \A s \in SUBSET T : s \in SUBSET (0 .. n)
    OBVIOUS
  <2> QED
    BY <2>1, LargestNat
<1>3. AddMonths(dataStart, 0) = dataStart
  BY AddNone
<1>4. \E h : IsFold(h, T)
  <2> DEFINE h == [s \in SUBSET T |-> AddMonths(dataStart, 3 * Cardinality(s))]
  <2>1. \A s \in SUBSET T : h[s] = IF s = {} THEN dataStart ELSE AddMonths(h[s \ {Max(s)}], 3)
    <3> TAKE s \in SUBSET T
    <3>0. IsFiniteSet(s) /\ Cardinality(s) \in Nat
      <4>1. IsFiniteSet(T)
        BY FS_Interval
      <4> HIDE DEF T
      <4> QED
        BY <4>1, FS_Subset, FS_CardinalityType
    <3>1. CASE s = {}
      BY <1>3, <3>1, FS_EmptySet
    <3>2. CASE s # {}
      <4> DEFINE r == s \ {Max(s)}
      <4>1. r \in SUBSET T /\ Cardinality(r) = Cardinality(s) - 1 /\ Cardinality(r) \in Nat
        <5>1. Max(s) \in s
          BY <1>2, <3>2
        <5>2. IsFiniteSet(r) /\ Cardinality(r) = Cardinality(s) - 1
          BY <3>0, <5>1, FS_RemoveElement
        <5> QED
          BY <5>2, FS_CardinalityType
      <4> HIDE DEF r
      <4>2. h[r] = AddMonths(dataStart, 3 * Cardinality(r)) /\ h[s] = AddMonths(dataStart, 3 * Cardinality(s))
        BY <4>1
      <4> DEFINE a == 3 * Cardinality(r)
      <4>3. a \in Nat /\ a + 3 = 3 * Cardinality(s)
        BY <3>0, <4>1
      <4> HIDE DEF a, h
      <4>4. AddMonths(AddMonths(dataStart, a), 3) = AddMonths(dataStart, a + 3)
        BY <4>3, AddTwice
      <4> QED
        BY <3>2, <4>2, <4>3, <4>4 DEF a, r
    <3> QED
      BY <3>1, <3>2
  <2>2. h = [s \in SUBSET T |-> IF s = {} THEN dataStart ELSE AddMonths(h[s \ {Max(s)}], 3)]
    BY <2>1
  <2> HIDE DEF h
  <2> QED
    BY <2>2
<1>5. IsFold(iter(T), T)
  BY <1>4
<1> DEFINE h == iter(T)
<1>6. \A s \in SUBSET T : h[s] = IF s = {} THEN dataStart ELSE AddMonths(h[s \ {Max(s)}], 3)
  BY <1>5
<1> DEFINE Good == {k \in Nat : k <= n - 1 => h[1 .. k] = AddMonths(dataStart, 3 * k)}
<1> HIDE DEF h
<1>7. 0 \in Good
  <2>1. 1 .. 0 = {} /\ 3 * 0 = 0
    OBVIOUS
  <2> QED
    BY <1>3, <1>6, <2>1
<1>8. ASSUME NEW k \in Nat, k \in Good PROVE k + 1 \in Good
  <2> SUFFICES ASSUME k + 1 <= n - 1 PROVE h[1 .. k + 1] = AddMonths(dataStart, 3 * (k + 1))
    OBVIOUS
  <2> DEFINE s == 1 .. k + 1
  <2>1. s \in SUBSET T /\ s # {} /\ k + 1 \in s
    OBVIOUS
  <2>2. Max(s) = k + 1
    <3>1. Max(s) \in s /\ k + 1 <= Max(s)
      BY <1>2, <2>1
    <3> QED
      BY <3>1
  <2>3. s \ {k + 1} = 1 .. k
    OBVIOUS
  <2>4. h[1 .. k] = AddMonths(dataStart, 3 * k)
    BY <1>8
  <2>5. h[s] = AddMonths(h[s \ {Max(s)}], 3)
    BY <1>6, <2>1
  <2> DEFINE a == 3 * k
  <2>6. a \in Nat /\ a + 3 = 3 * (k + 1)
    OBVIOUS
  <2>7. h[s] = AddMonths(AddMonths(dataStart, a), 3)
    BY <2>2, <2>3, <2>4, <2>5
  <2> HIDE DEF a, s
  <2>8. AddMonths(AddMonths(dataStart, a), 3) = AddMonths(dataStart, a + 3)
    BY <2>6, AddTwice
  <2> QED
    BY <2>6, <2>7, <2>8 DEF s
<1> HIDE DEF Good
<1>9. n - 1 \in Good
  <2>1. Nat \subseteq Good
    BY <1>7, <1>8, NatInd
  <2> QED
    BY <2>1
<1>10. h[T] = AddMonths(dataStart, 3 * (n - 1))
  BY <1>9 DEF Good
<1> QED
  BY <1>1, <1>10 DEF WindowStart, StepMonths, h

\* The lines a single-window script can append for the history that begins at dataStart.
LineOf(version, n, notes, out) ==
  [file |-> version, num |-> n, train |-> Train(StartOf(n)), test |-> Test(StartOf(n)),
   error |-> ~HasBars(Test(StartOf(n))), notes |-> notes, out |-> out]
LineSet == {LineOf(version, n, notes, out) :
              version \in UNION {s.versions : s \in Scripts}, n \in 0 .. MaxNum,
              notes \in {s.notes : s \in Scripts}, out \in Outcomes}

GateInv ==
  /\ WalkInv /\ lines \in Seq(LineSet)
  /\ \A i \in DOMAIN results : HasBars(results[i].test)

LEMMA GateMatches == GateInv => SingleMatchesGate
<1> SUFFICES ASSUME GateInv, NEW r \in Range(results), NEW l \in Range(lines), r.num = l.num
             PROVE  r.train = l.train /\ r.test = l.test /\ ~l.error
  BY DEF SingleMatchesGate
<1>1. PICK i \in DOMAIN results : r = results[i]
  BY DEF Range
<1>2. /\ r.num \in Nat /\ r.num >= 1 /\ dataStart \in EarlyDates /\ HasBars(r.test)
      /\ r.train = Train(WindowStart(r.num)) /\ r.test = Test(WindowStart(r.num))
  BY <1>1 DEF GateInv, WalkInv
<1>3. l \in LineSet
  BY DEF GateInv, Range
<1>4. l.train = Train(StartOf(l.num)) /\ l.test = Test(StartOf(l.num)) /\ l.error = ~HasBars(l.test)
  <2>1. PICK version, n, notes, out : l = LineOf(version, n, notes, out)
    BY <1>3 DEF LineSet
  <2> QED
    BY <2>1 DEF LineOf
<1>5. StartOf(r.num) = WindowStart(r.num)
  BY <1>2, StartOfIsWindowStart
<1> QED
  BY <1>2, <1>4, <1>5

LEMMA GateStep == GateInv /\ [WalkNext]_walkVars => GateInv'
<1> SUFFICES ASSUME GateInv, [WalkNext]_walkVars PROVE GateInv'
  OBVIOUS
<1>0. WalkInv'
  BY WalkStep DEF GateInv
<1>1. dataStart' = dataStart
  BY DEF WalkNext, Abort, Walk, Judge, RunSingleWindow, walkVars
<1>2. LineSet' = LineSet
  <2>1. \A n : StartOf(n)' = StartOf(n)
    BY <1>1 DEF StartOf, FoldLeft, MapThenFoldSet
  <2> QED
    BY <2>1 DEF LineSet, LineOf
<1>3. lines' \in Seq(LineSet)
  <2>0. lines \in Seq(LineSet)
    BY DEF GateInv
  <2>1. ASSUME NEW script \in Scripts, NEW n \in 0 .. MaxNum, RunSingleWindow(script, n)
        PROVE  lines' \in Seq(LineSet)
    <3>1. PICK version \in script.versions, out \in Outcomes :
            lines' = Append(lines, LineOf(version, n, script.notes, out))
      BY <2>1 DEF RunSingleWindow, LineOf
    <3> DEFINE l == LineOf(version, n, script.notes, out)
    <3>2. l \in LineSet
      BY DEF LineSet
    <3> HIDE DEF l
    <3>3. Append(lines, l) \in Seq(LineSet)
      BY <2>0, <3>2, AppendProperties
    <3> QED
      BY <3>1, <3>3 DEF l
  <2>2. CASE UNCHANGED lines
    BY <2>0, <2>2
  <2> QED
    BY <2>1, <2>2 DEF WalkNext, Abort, Walk, Judge, walkVars
<1>4. \A i \in DOMAIN results' : HasBars(results'[i].test)
  <2>0. results \in Seq(Window) /\ \A i \in DOMAIN results : HasBars(results[i].test)
    BY DEF GateInv, WalkInv
  <2>1. CASE results' = results
    BY <2>0, <2>1
  <2>2. CASE results' # results
    <3>1. Walk
      BY <2>2 DEF WalkNext, Abort, Judge, RunSingleWindow, walkVars
    <3>2. PICK r : results' = Append(results, r) /\ HasBars(r.test)
      <4> DEFINE r(out) == [num |-> num + 1, train |-> Train(windowStart),
                            test |-> Test(windowStart), out |-> out]
      <4>1. HasBars(Test(windowStart)) /\ \E out \in Outcomes : results' = Append(results, r(out))
        BY <2>2, <3>1 DEF Walk
      <4>2. \A out : r(out).test = Test(windowStart)
        OBVIOUS
      <4> HIDE DEF r
      <4> QED
        BY <4>1, <4>2
    <3>3. /\ DOMAIN results' = 1 .. Len(results) + 1 /\ Len(results) \in Nat
          /\ results'[Len(results) + 1] = r
          /\ \A i \in 1 .. Len(results) : results'[i] = results[i]
          /\ DOMAIN results = 1 .. Len(results)
      BY <2>0, <3>2
    <3>4. \A i \in 1 .. Len(results) + 1 : i \in 1 .. Len(results) \/ i = Len(results) + 1
      BY <3>3
    <3> QED
      BY <2>0, <3>2, <3>3, <3>4
  <2> QED
    BY <2>1, <2>2
<1> QED
  BY <1>0, <1>2, <1>3, <1>4 DEF GateInv, HasBars

\* run_single_window, which walks to its window from the start, and the loop of the gate
\* scripts train and test on the same days under one number, and the gate has a result
\* only where the script has no error.
THEOREM SinglesMatchTheGate ==
  ASSUME DataStarts \subseteq EarlyDates
  PROVE  WalkSpec => []SingleMatchesGate
<1>1. WalkInit => GateInv
  <2> SUFFICES ASSUME WalkInit PROVE GateInv
    OBVIOUS
  <2>1. dataStart \in EarlyDates /\ windowStart = dataStart /\ num = 0 /\ results = <<>> /\ lines = <<>>
    BY DEF WalkInit
  <2>2. WalkInv
    <3>1. StepMonths * (0 + 1 - 1) = 0
      BY DEF StepMonths
    <3> QED
      BY <2>1, <3>1, AddNone DEF WalkInv, WindowStart
  <2> QED
    BY <2>1, <2>2 DEF GateInv
<1> QED
  BY <1>1, GateStep, GateMatches, PTL DEF WalkSpec

-----------------------------------------------------------------------------
\* The data lake.

LakeSpec == LakeInit /\ [][LakeNext]_lakeVars

LEMMA DivMonotone ==
  ASSUME NEW a \in Int, NEW b \in Int, NEW d \in Nat \ {0}, a <= b
  PROVE  a \div d <= b \div d
  OBVIOUS

\* A backfill is one of those asked for, with the bars of its timeframe.
IsJob(j) ==
  /\ j.req \in Requests
  /\ j = [req |-> j.req, tfs |-> j.tfs, got |-> j.got, bars |-> j.bars, left |-> j.left]
MonthsOf(j) == {Month(ts) : ts \in j.bars}

\* A file has bars of its source that had happened, and of its month.
OfItsMonth(k, f) == f.bars \subseteq {ts \in Happened(f.source, k[2]) : Month(ts) = k[3]}

\* The months a backfill has written are in the lake.
Written(j) ==
  \A month \in MonthsOf(j) \ j.left :
    KeyAt(j, month) \in DOMAIN files /\ files[KeyAt(j, month)] = FileOf(j, month)

\* In a month it has still to write, it has every bar of its source's file, unless the
\* range it was asked for begins or ends in that month.
Covers(j) ==
  \A month \in j.left :
    LET k == KeyAt(j, month)
    IN  k \in DOMAIN files /\ files[k].source = j.req.source
          => files[k].bars \subseteq j.bars \/ month \in {Month(j.req.from), Month(j.req.to)}

LakeInv ==
  /\ now \in Nat
  /\ \A k \in DOMAIN files : OfItsMonth(k, files[k])
  /\ \A i, j \in job : i = j
  /\ \A j \in job :
       /\ IsJob(j) /\ j.left \subseteq MonthsOf(j) /\ Written(j) /\ Covers(j)
       /\ j.bars \subseteq Happened(j.req.source, Head(j.tfs))

\* What a backfill is given of a month in which its range neither begins nor ends is all
\* there is.
LEMMA FetchCovers ==
  ASSUME LakeInv, NEW req \in Requests, NEW tf, NEW got, NEW given, given = Fetch(req, tf, got),
         NEW ts \in given, Month(ts) \notin {Month(req.from), Month(req.to)}
  PROVE  {x \in Happened(req.source, tf) : Month(x) = Month(ts)} \subseteq given
<1> SUFFICES ASSUME NEW x \in Happened(req.source, tf), Month(x) = Month(ts) PROVE x \in given
  OBVIOUS
<1>1. now \in Nat /\ x \in Int /\ req.from \in Int /\ req.to \in Int /\ PerMonth \in Nat \ {0}
  BY LakeAssumption DEF LakeAssumption, LakeInv, Happened
<1>2. \A a, b \in Int : a <= b => Month(a) <= Month(b) /\ Month(a) \in Int /\ Month(b) \in Int
  <2> SUFFICES ASSUME NEW a \in Int, NEW b \in Int, a <= b
               PROVE  a \div PerMonth <= b \div PerMonth /\ a \div PerMonth \in Int /\ b \div PerMonth \in Int
    BY DEF Month
  <2>1. a \div PerMonth <= b \div PerMonth
    BY <1>1, DivMonotone
  <2> QED
    BY <1>1, <2>1
<1>3. ASSUME ts \in Int, req.from <= ts, ts <= req.to PROVE req.from <= x /\ x <= req.to - 1
  <2> DEFINE a == Month(req.from)
             b == Month(req.to)
             c == Month(ts)
  <2>1. a <= c /\ c <= b /\ a \in Int /\ b \in Int /\ c \in Int
    BY <1>1, <1>2, <1>3
  <2>2. a # c /\ b # c /\ c = Month(x)
    OBVIOUS
  <2>3. (x <= req.from => Month(x) <= a) /\ (req.to <= x => b <= Month(x))
    BY <1>1, <1>2
  <2> HIDE DEF a, b, c
  <2> QED
    BY <1>1, <2>1, <2>2, <2>3
<1>4. req.source \in Sources
  BY LakeAssumption DEF LakeAssumption
<1>5. CASE req.source = "mt5"
  <2>1. given = FetchMt5(req, tf)
    BY <1>5 DEF Fetch
  <2> DEFINE last == IF EndInclusive THEN req.to ELSE req.to - 1
  <2>2. last \in {req.to, req.to - 1} /\ given = Within(Happened("mt5", tf), req.from, last)
    BY <2>1 DEF FetchMt5
  <2> HIDE DEF last
  <2>3. ts \in Int /\ req.from <= ts /\ ts <= last
    BY <1>1, <2>2 DEF Within, Happened
  <2>4. ts <= req.to
    BY <1>1, <2>2, <2>3
  <2>5. req.from <= x /\ x <= req.to - 1
    BY <1>3, <2>3, <2>4
  <2>6. x <= last
    BY <1>1, <2>2, <2>5
  <2> QED
    BY <1>5, <2>2, <2>5, <2>6 DEF Within
<1>6. CASE req.source = "csv"
  BY <1>6 DEF Fetch, FetchCsv
<1>7. CASE req.source = "histdata"
  BY <1>7 DEF Fetch, FetchHistData
<1>8. CASE req.source = "yfinance"
  <2>1. given = FetchYahoo(req, tf)
    BY <1>8 DEF Fetch
  <2>2. ts \in Int /\ req.from <= ts /\ ts <= req.to - 1
    BY <1>1, <2>1 DEF FetchYahoo, Within, Happened
  <2>3. req.from <= x /\ x <= req.to - 1
    BY <1>1, <1>3, <2>2
  <2> QED
    BY <1>8, <2>1, <2>3 DEF FetchYahoo, Within
<1> QED
  BY <1>4, <1>5, <1>6, <1>7, <1>8 DEF Sources

\* It is given bars that have happened.
LEMMA FetchHappened ==
  ASSUME NEW req \in Requests, NEW tf, NEW got
  PROVE  Fetch(req, tf, got) \subseteq Happened(req.source, tf)
<1>1. req.source \in Sources
  BY LakeAssumption DEF LakeAssumption
<1> QED
  BY <1>1 DEF Sources, Fetch, FetchMt5, FetchCsv, FetchHistData, FetchYahoo, Within, Happened

\* A partition goes in: its file is the month's, and no other file changes.
LEMMA KeysApart ==
  ASSUME NEW j, NEW a, NEW b, KeyAt(j, a) = KeyAt(j, b)
  PROVE  a = b
  BY DEF KeyAt

\* The fields of a backfill that a step replaces.
LEMMA JobWith ==
  ASSUME NEW j, IsJob(j), NEW x, NEW y
  PROVE  /\ [j EXCEPT !.bars = x, !.left = y]
              = [req |-> j.req, tfs |-> j.tfs, got |-> j.got, bars |-> x, left |-> y]
         /\ [j EXCEPT !.left = y]
              = [req |-> j.req, tfs |-> j.tfs, got |-> j.got, bars |-> j.bars, left |-> y]
<1> DEFINE i == [req |-> j.req, tfs |-> j.tfs, got |-> j.got, bars |-> x, left |-> j.left]
<1>1. [j EXCEPT !.bars = x, !.left = y]
            = [req |-> j.req, tfs |-> j.tfs, got |-> j.got, bars |-> x, left |-> y]
  <2>1. [j EXCEPT !.bars = x] = i
    BY DEF IsJob
  <2>2. [j EXCEPT !.bars = x, !.left = y] = [[j EXCEPT !.bars = x] EXCEPT !.left = y]
    OBVIOUS
  <2>3. [i EXCEPT !.left = y] = [req |-> j.req, tfs |-> j.tfs, got |-> j.got, bars |-> x, left |-> y]
    OBVIOUS
  <2> HIDE DEF i
  <2> QED
    BY <2>1, <2>2, <2>3
<1>2. [j EXCEPT !.left = y]
            = [req |-> j.req, tfs |-> j.tfs, got |-> j.got, bars |-> j.bars, left |-> y]
  BY DEF IsJob
<1> QED
  BY <1>1, <1>2

\* A backfill that goes on with its next timeframe, or ends, has no bars.
LEMMA DoneRests ==
  ASSUME LakeInv, NEW j, IsJob(j), j.left = {}, job' = Done(j) \/ job' = {}, UNCHANGED <<files, now>>
  PROVE  LakeInv'
<1>1. (\A k \in DOMAIN files : OfItsMonth(k, files[k]))'
  BY DEF LakeInv, OfItsMonth, Happened
<1>2. ASSUME NEW i \in job' PROVE i = [req |-> j.req, tfs |-> Tail(j.tfs), got |-> j.got, bars |-> {}, left |-> {}]
  BY <1>2 DEF Done, IsJob
<1>3. ASSUME NEW i \in job'
      PROVE  /\ IsJob(i) /\ i.left \subseteq MonthsOf(i) /\ Written(i)' /\ Covers(i)'
             /\ i.bars \subseteq Happened(i.req.source, Head(i.tfs))'
  <2>1. IsJob(i) /\ i.left = {} /\ i.bars = {}
    BY <1>2 DEF IsJob
  <2> QED
    BY <2>1 DEF MonthsOf, Written, Covers
<1> QED
  BY <1>1, <1>2, <1>3 DEF LakeInv, IsJob, MonthsOf

LEMMA LakeStep == LakeInv /\ [LakeNext]_lakeVars => LakeInv'
<1> SUFFICES ASSUME LakeInv, [LakeNext]_lakeVars PROVE LakeInv'
  OBVIOUS
<1>1. CASE UNCHANGED lakeVars
  BY <1>1 DEF LakeInv, lakeVars, OfItsMonth, Written, Covers, Happened
<1>2. CASE StartIngest \/ StartBackfill \/ StartHistData
  <2>1. PICK sources, got : Start(sources, got)
    BY <1>2 DEF StartIngest, StartBackfill, StartHistData
  <2>2. UNCHANGED <<files, now>>
    BY <2>1 DEF Start
  <2>3. PICK req \in Requests :
          job' = {[req |-> req, tfs |-> Supported(req), got |-> got, bars |-> {}, left |-> {}]}
    BY <2>1 DEF Start
  <2>4. \A j \in job' : IsJob(j) /\ j.left = {} /\ j.bars = {}
    BY <2>3 DEF IsJob
  <2> QED
    BY <2>2, <2>3, <2>4 DEF LakeInv, OfItsMonth, Happened, Written, Covers, MonthsOf
<1>3. CASE FetchBars
  <2>1. PICK j \in job :
          /\ j.bars = {}
          /\ LET given == Fetch(j.req, Head(j.tfs), j.got)
             IN  job' = IF given # {} THEN {[j EXCEPT !.bars = given, !.left = {Month(ts) : ts \in given}]}
                        ELSE IF j.req.source = "histdata" THEN Done(j) ELSE {}
          /\ UNCHANGED <<files, manifests, now, jobs>>
    BY <1>3 DEF FetchBars
  <2>2. IsJob(j) /\ j.left = {} /\ j.req \in Requests
    BY <2>1 DEF LakeInv, MonthsOf, IsJob
  <2>3. PICK given : given = Fetch(j.req, Head(j.tfs), j.got)
    OBVIOUS
  <2>4. CASE given = {}
    <3>1. job' = Done(j) \/ job' = {}
      BY <2>1, <2>3, <2>4
    <3> QED
      BY <2>1, <2>2, <3>1, DoneRests
  <2>5. CASE given # {}
    <3>1. PICK new : /\ job' = {new}
                     /\ new = [req |-> j.req, tfs |-> j.tfs, got |-> j.got, bars |-> given,
                               left |-> {Month(ts) : ts \in given}]
      <4>1. job' = {[j EXCEPT !.bars = given, !.left = {Month(ts) : ts \in given}]}
        BY <2>1, <2>3, <2>5
      <4>2. [j EXCEPT !.bars = given, !.left = {Month(ts) : ts \in given}]
            = [req |-> j.req, tfs |-> j.tfs, got |-> j.got, bars |-> given,
               left |-> {Month(ts) : ts \in given}]
        BY <2>2, JobWith
      <4> QED
        BY <4>1, <4>2
    <3>2. IsJob(new) /\ MonthsOf(new) = new.left
      BY <2>2, <3>1 DEF IsJob, MonthsOf
    <3>3. Written(new)'
      BY <3>2 DEF Written
    <3>4. given \subseteq Happened(j.req.source, Head(j.tfs))
      BY <2>2, <2>3, FetchHappened
    <3>5. Covers(new)'
      <4>1. SUFFICES ASSUME NEW month \in new.left, KeyAt(new, month) \in DOMAIN files,
                            files[KeyAt(new, month)].source = j.req.source,
                            month \notin {Month(j.req.from), Month(j.req.to)}
                     PROVE  files[KeyAt(new, month)].bars \subseteq given
        BY <2>1, <3>1 DEF Covers, KeyAt
      <4>2. PICK ts \in given : month = Month(ts)
        BY <3>1
      <4>3. {x \in Happened(j.req.source, Head(j.tfs)) : Month(x) = month} \subseteq given
        BY <2>2, <2>3, <4>1, <4>2, FetchCovers
      <4>4. OfItsMonth(KeyAt(new, month), files[KeyAt(new, month)])
        BY <4>1 DEF LakeInv
      <4>5. KeyAt(new, month)[2] = Head(j.tfs) /\ KeyAt(new, month)[3] = month
        BY <3>1 DEF KeyAt
      <4> QED
        BY <4>1, <4>3, <4>4, <4>5 DEF OfItsMonth
    <3>6. new.bars \subseteq Happened(new.req.source, Head(new.tfs)) /\ new.left \subseteq MonthsOf(new)
      BY <3>1, <3>2, <3>4
    <3>7. (\A k \in DOMAIN files : OfItsMonth(k, files[k]))'
      BY <2>1 DEF LakeInv, OfItsMonth, Happened
    <3>8. now' = now /\ now \in Nat
      BY <2>1 DEF LakeInv
    <3> QED
      BY <3>1, <3>2, <3>3, <3>5, <3>6, <3>7, <3>8 DEF LakeInv, Happened
  <2> QED
    BY <2>4, <2>5
<1>4. CASE WritePartition
  <2>0. PICK j \in job :
          /\ files' = With(files, KeyAt(j, Min(j.left)), FileOf(j, Min(j.left)))
          /\ job' = {[j EXCEPT !.left = @ \ {Min(j.left)}]} /\ now' = now
    BY <1>4 DEF WritePartition
  <2>1. PICK month : /\ files' = With(files, KeyAt(j, month), FileOf(j, month))
                     /\ job' = {[j EXCEPT !.left = @ \ {month}]} /\ now' = now
    BY <2>0
  <2>2. IsJob(j) /\ j.left \subseteq MonthsOf(j) /\ Written(j) /\ Covers(j)
        /\ j.bars \subseteq Happened(j.req.source, Head(j.tfs))
    BY DEF LakeInv
  <2>3. PICK new : /\ job' = {new}
                   /\ new = [req |-> j.req, tfs |-> j.tfs, got |-> j.got, bars |-> j.bars,
                             left |-> j.left \ {month}]
    <3>1. [j EXCEPT !.left = @ \ {month}]
            = [req |-> j.req, tfs |-> j.tfs, got |-> j.got, bars |-> j.bars, left |-> j.left \ {month}]
      BY <2>2, JobWith
    <3> QED
      BY <2>1, <3>1
  <2>4. \A m : KeyAt(new, m) = KeyAt(j, m) /\ FileOf(new, m) = FileOf(j, m)
    BY <2>3 DEF KeyAt, FileOf
  <2> DEFINE key == KeyAt(j, month)
  <2>5. /\ DOMAIN files' = DOMAIN files \cup {key} /\ files'[key] = FileOf(j, month)
        /\ \A k \in DOMAIN files \ {key} : files'[k] = files[k]
    BY <2>1 DEF With
  <2>6. \A m : m # month => KeyAt(j, m) # key
    BY KeysApart
  <2>7. Written(new)'
    <3> SUFFICES ASSUME NEW m \in MonthsOf(j) \ (j.left \ {month})
                 PROVE  KeyAt(j, m) \in DOMAIN files' /\ files'[KeyAt(j, m)] = FileOf(j, m)
      BY <2>3, <2>4 DEF Written, MonthsOf, KeyAt, FileOf
    <3> QED
      BY <2>2, <2>5, <2>6 DEF Written
  <2>8. Covers(new)'
    <3> SUFFICES ASSUME NEW m \in j.left \ {month}, KeyAt(j, m) \in DOMAIN files',
                        files'[KeyAt(j, m)].source = j.req.source,
                        m \notin {Month(j.req.from), Month(j.req.to)}
                 PROVE  files'[KeyAt(j, m)].bars \subseteq j.bars
      BY <2>3 DEF Covers, KeyAt
    <3> QED
      BY <2>2, <2>5, <2>6 DEF Covers
  <2>9. (\A k \in DOMAIN files : OfItsMonth(k, files[k]))'
    <3>1. FileOf(j, month).bars \subseteq {ts \in Happened(j.req.source, key[2]) : Month(ts) = key[3]}
          /\ FileOf(j, month).source = j.req.source
      BY <2>2 DEF FileOf, KeyAt
    <3> QED
      BY <2>1, <2>5, <3>1 DEF LakeInv, OfItsMonth, Happened
  <2>10. IsJob(new) /\ new.left \subseteq MonthsOf(new)
         /\ new.bars \subseteq Happened(new.req.source, Head(new.tfs))
    BY <2>2, <2>3 DEF IsJob, MonthsOf
  <2> QED
    BY <2>1, <2>3, <2>7, <2>8, <2>9, <2>10 DEF LakeInv, Happened
<1>5. CASE WriteManifest
  <2>1. PICK j \in job : j.left = {} /\ job' = Done(j) /\ UNCHANGED <<files, now>>
    BY <1>5 DEF WriteManifest
  <2> QED
    BY <2>1, DoneRests DEF LakeInv
<1>6. CASE Killed
  <2>1. PICK j \in job :
          /\ job' = {} /\ now' = now
          /\ \/ files' = files
             \/ files' = With(files, KeyAt(j, Min(j.left)), Torn(j))
    BY <1>6 DEF Killed
  <2>2. Torn(j).bars = {}
    BY DEF Torn
  <2>3. (\A k \in DOMAIN files : OfItsMonth(k, files[k]))'
    <3>1. CASE files' = files
      BY <2>1, <3>1 DEF LakeInv, OfItsMonth, Happened
    <3>2. CASE files' = With(files, KeyAt(j, Min(j.left)), Torn(j))
      BY <2>1, <2>2, <3>2 DEF LakeInv, OfItsMonth, Happened, With
    <3> QED
      BY <2>1, <3>1, <3>2
  <2> QED
    BY <2>1, <2>3 DEF LakeInv
<1>7. CASE TimePasses
  <2>1. now' = now + 1 /\ now \in Nat /\ UNCHANGED <<files, job>>
    BY <1>7 DEF TimePasses, LakeInv
  <2>2. \A s, tf : Happened(s, tf) \subseteq Happened(s, tf)'
    BY <2>1 DEF Happened
  <2> QED
    BY <2>1, <2>2 DEF LakeInv, OfItsMonth, Written, Covers
<1> QED
  BY <1>1, <1>2, <1>3, <1>4, <1>5, <1>6, <1>7 DEF LakeNext

\* The invariant holds of every behaviour.
THEOREM LakeInvariant == LakeSpec => []LakeInv
<1>1. LakeInit => LakeInv
  BY LakeAssumption DEF LakeInit, LakeInv, Times, Horizon, LakeAssumption
<1> QED
  BY <1>1, LakeStep, PTL DEF LakeSpec

\* build_manifest counts what the writer has written: every bar of a manifest is in a file,
\* whenever the run is killed.
THEOREM ManifestsFollowFiles == LakeSpec => ManifestFollowsFiles
<1> DEFINE Counted(s) ==
         LET tf   == manifests'[s].tf
             keys == {<<RootOf(s), tf, Month(ts)>> : ts \in manifests'[s].bars}
         IN  /\ keys \subseteq DOMAIN files /\ Readable(keys)
             /\ UNION {files[k].bars : k \in keys} = manifests'[s].bars
           Follows == \A s \in DOMAIN manifests' :
             (s \notin DOMAIN manifests \/ manifests'[s] # manifests[s]) => Counted(s)
<1>1. LakeInv /\ [LakeNext]_lakeVars => [Follows]_lakeVars
  <2> SUFFICES ASSUME LakeInv, LakeNext PROVE Follows
    OBVIOUS
  <2>1. CASE manifests' = manifests
    BY <2>1
  <2>2. CASE WriteManifest
    <3>1. PICK j \in job :
            /\ j.bars # {} /\ j.left = {}
            /\ manifests' = With(manifests, j.req.source, [tf |-> Head(j.tfs), bars |-> j.bars])
      BY <2>2 DEF WriteManifest
    <3> DEFINE s == j.req.source
               keys == {<<RootOf(s), Head(j.tfs), Month(ts)>> : ts \in j.bars}
    <3>2. manifests'[s] = [tf |-> Head(j.tfs), bars |-> j.bars]
          /\ (\A r \in DOMAIN manifests' : r # s => r \in DOMAIN manifests /\ manifests'[r] = manifests[r])
      BY <3>1 DEF With
    <3>3. keys = {KeyAt(j, month) : month \in MonthsOf(j)}
      BY DEF KeyAt, MonthsOf
    <3> HIDE DEF keys, s
    <3>4. \A month \in MonthsOf(j) :
            /\ KeyAt(j, month) \in DOMAIN files /\ ~files[KeyAt(j, month)].torn
            /\ files[KeyAt(j, month)].bars = {ts \in j.bars : Month(ts) = month}
      <4> TAKE month \in MonthsOf(j)
      <4>1. KeyAt(j, month) \in DOMAIN files /\ files[KeyAt(j, month)] = FileOf(j, month)
        BY <3>1 DEF LakeInv, Written
      <4> QED
        BY <4>1 DEF FileOf
    <3>5. \A k \in keys : \E month \in MonthsOf(j) : k = KeyAt(j, month)
      BY <3>3
    <3>8. \A month \in MonthsOf(j) : KeyAt(j, month) \in keys
      BY <3>3
    <3>9. keys \subseteq DOMAIN files /\ Readable(keys)
      BY <3>4, <3>5 DEF Readable
    <3>6. UNION {files[k].bars : k \in keys} = j.bars
      <4>1. \A k \in keys : files[k].bars \subseteq j.bars
        BY <3>4, <3>5
      <4>2. ASSUME NEW ts \in j.bars PROVE \E k \in keys : ts \in files[k].bars
        <5>1. Month(ts) \in MonthsOf(j)
          BY DEF MonthsOf
        <5>2. KeyAt(j, Month(ts)) \in keys /\ ts \in files[KeyAt(j, Month(ts))].bars
          BY <3>4, <3>8, <5>1
        <5> QED
          BY <5>2
      <4> QED
        BY <4>1, <4>2
    <3>7. Counted(s)
      BY <3>2, <3>6, <3>9 DEF keys
    <3> QED
      BY <3>2, <3>7, ZenonT(60)
  <2> QED
    BY <2>1, <2>2 DEF LakeNext, StartIngest, StartBackfill, StartHistData, Start, FetchBars,
                      WritePartition, Killed, TimePasses
<1> QED
  BY <1>1, LakeInvariant, PTL DEF LakeSpec, ManifestFollowsFiles

\* A backfill loses bars its own source had written only in the months in which its range
\* begins or ends: elsewhere the file it replaces had no more than it was given, because
\* what a source offers of a whole month only grows.
THEOREM EdgesLoseBars == LakeSpec => OnlyEdgesLoseBars
<1> DEFINE Keeps == \A k \in DOMAIN files, j \in job :
       /\ files[k].source = j.req.source /\ files'[k].source = j.req.source
       /\ ~files'[k].torn /\ files'[k].bars # files[k].bars
       /\ ~(files[k].bars \subseteq files'[k].bars)
       => k[3] \in {Month(j.req.from), Month(j.req.to)}
<1>1. LakeInv /\ [LakeNext]_lakeVars => [Keeps]_lakeVars
  <2> SUFFICES ASSUME LakeInv, LakeNext, NEW k \in DOMAIN files, NEW j \in job,
                      files[k].source = j.req.source, ~files'[k].torn, files'[k].bars # files[k].bars,
                      ~(files[k].bars \subseteq files'[k].bars)
               PROVE  k[3] \in {Month(j.req.from), Month(j.req.to)}
    OBVIOUS
  <2>1. CASE files' = files
    BY <2>1
  <2>2. CASE WritePartition
    <3>0. PICK i \in job : /\ i.left # {}
                           /\ files' = With(files, KeyAt(i, Min(i.left)), FileOf(i, Min(i.left)))
      BY <2>2 DEF WritePartition
    <3>1. Min(i.left) \in i.left
      <4>1. i.left \subseteq MonthsOf(i) /\ i.bars \subseteq 0 .. now /\ now \in Nat
        BY DEF LakeInv, Happened
      <4>2. \A ts \in Nat : Month(ts) \in Nat
        BY LakeAssumption DEF LakeAssumption, Month
      <4>3. MonthsOf(i) \subseteq Nat
        BY <4>1, <4>2 DEF MonthsOf
      <4> QED
        BY <3>0, <4>1, <4>3, SmallestNat
    <3>2. i = j
      BY DEF LakeInv
    <3>3. PICK month \in j.left : files' = With(files, KeyAt(j, month), FileOf(j, month))
      BY <3>0, <3>1, <3>2
    <3>4. k = KeyAt(j, month) /\ files'[k] = FileOf(j, month)
      BY <3>3 DEF With
    <3>5. k[3] = month
      BY <3>4 DEF KeyAt
    <3>6. Covers(j) /\ OfItsMonth(k, files[k])
      BY DEF LakeInv
    <3>7. CASE files[k].bars \subseteq j.bars
      <4>1. \A ts \in files[k].bars : Month(ts) = month
        BY <3>5, <3>6 DEF OfItsMonth
      <4> QED
        BY <3>4, <3>7, <4>1 DEF FileOf
    <3> QED
      BY <3>4, <3>5, <3>6, <3>7 DEF Covers
  <2>3. CASE Killed
    <3>1. PICK i \in job : files' = files \/ files' = With(files, KeyAt(i, Min(i.left)), Torn(i))
      BY <2>3 DEF Killed
    <3>2. \A l \in DOMAIN files : files'[l] = files[l] \/ files'[l].torn
      BY <3>1 DEF With, Torn
    <3> QED
      BY <3>2
  <2> QED
    BY <2>1, <2>2, <2>3 DEF LakeNext, StartIngest, StartBackfill, StartHistData, Start, FetchBars,
                      WriteManifest, TimePasses
<1> QED
  BY <1>1, LakeInvariant, PTL DEF LakeSpec, OnlyEdgesLoseBars

\* The place of a bar among others, from 1.
Rank(S, x) == Cardinality({y \in S : y <= x})

LEMMA Ranks ==
  ASSUME NEW S \in SUBSET Nat, IsFiniteSet(S)
  PROVE  /\ \A x \in S : Rank(S, x) \in 1 .. Cardinality(S)
         /\ \A x, y \in S : x < y => Rank(S, x) < Rank(S, y)
<1> DEFINE Upto(x) == {y \in S : y <= x}
<1>1. \A x \in S : /\ IsFiniteSet(Upto(x)) /\ Cardinality(Upto(x)) \in Nat
                   /\ Cardinality(Upto(x)) <= Cardinality(S)
  <2>1. \A x : Upto(x) \in SUBSET S
    OBVIOUS
  <2> HIDE DEF Upto
  <2> QED
    BY <2>1, FS_Subset, FS_CardinalityType
<1>2. \A x \in S : Cardinality(Upto(x)) # 0
  <2> TAKE x \in S
  <2>1. x \in Upto(x)
    OBVIOUS
  <2> HIDE DEF Upto
  <2> QED
    BY <1>1, <2>1, FS_EmptySet
<1>3. \A x, y \in S : x < y => Cardinality(Upto(x)) < Cardinality(Upto(y))
  <2> TAKE x, y \in S
  <2> SUFFICES ASSUME x < y PROVE Cardinality(Upto(x)) < Cardinality(Upto(y))
    OBVIOUS
  <2>0. x \in Nat /\ y \in Nat /\ \A z \in S : z \in Nat
    OBVIOUS
  <2>1. Upto(x) \in SUBSET Upto(y) /\ y \in Upto(y) /\ y \notin Upto(x)
    <3>1. y <= y /\ ~(y <= x) /\ \A z \in S : z <= x => z <= y
      BY <2>0
    <3> QED
      BY <3>1
  <2> HIDE DEF Upto
  <2>2. Upto(x) # Upto(y)
    BY <2>1
  <2>3. /\ Cardinality(Upto(x)) <= Cardinality(Upto(y))
        /\ Cardinality(Upto(x)) = Cardinality(Upto(y)) => Upto(y) = Upto(x)
    BY <1>1, <2>1, FS_Subset
  <2> QED
    BY <1>1, <2>2, <2>3
<1>4. \A x \in S : Rank(S, x) = Cardinality(Upto(x))
  BY DEF Rank
<1>5. Cardinality(S) \in Nat
  BY FS_CardinalityType
<1> HIDE DEF Upto
<1> QED
  BY <1>1, <1>2, <1>3, <1>4, <1>5

\* Every place is taken: InOrder has the bars, each once, the earlier first.
LEMMA OrderedBars ==
  ASSUME NEW S \in SUBSET Nat, IsFiniteSet(S)
  PROVE  /\ InOrder(S) \in [1 .. Cardinality(S) -> S]
         /\ Len(InOrder(S)) = Cardinality(S) /\ DOMAIN InOrder(S) = 1 .. Cardinality(S)
         /\ Range(InOrder(S)) = S
         /\ \A i, j \in DOMAIN InOrder(S) : i < j => InOrder(S)[i] < InOrder(S)[j]
         /\ \A i \in DOMAIN InOrder(S) : Rank(S, InOrder(S)[i]) = i
<1> DEFINE D == 1 .. Cardinality(S)
           f == [x \in S |-> Rank(S, x)]
           q == InOrder(S)
<1>0. Cardinality(S) \in Nat
  BY FS_CardinalityType
<1>1. f \in [S -> D] /\ \A x, y \in S : f[x] = f[y] => x = y
  BY Ranks
<1>2. \A x \in S : f[x] = Rank(S, x)
  OBVIOUS
<1>3. IsFiniteSet(D) /\ Cardinality(D) = Cardinality(S)
  <2>1. IsFiniteSet(D) /\ Cardinality(D) = IF 1 > Cardinality(S) THEN 0 ELSE Cardinality(S) - 1 + 1
    BY <1>0, FS_Interval
  <2> QED
    BY <1>0, <2>1
<1> HIDE DEF f, D
<1>4. f \in Injection(S, D)
  BY <1>1 DEF Injection, IsInjective
<1>5. f \in Surjection(S, D)
  BY <1>3, <1>4, FS_Injection
<1>6. \A i \in D : \E x \in S : Rank(S, x) = i
  BY <1>2, <1>5 DEF Surjection
<1>7. q = [i \in D |-> CHOOSE x \in S : Rank(S, x) = i]
  BY DEF InOrder, Rank, D
<1> HIDE DEF q
<1>8. \A i \in D : q[i] \in S /\ Rank(S, q[i]) = i
  BY <1>6, <1>7
<1>9. DOMAIN q = D /\ q \in [D -> S] /\ Len(q) = Cardinality(S)
  BY <1>0, <1>7, <1>8 DEF D
<1>10. Range(q) = S
  <2>1. ASSUME NEW x \in S PROVE f[x] \in D /\ q[f[x]] = x
    <3> DEFINE i == f[x]
    <3>1. i \in D
      BY <1>1
    <3>2. q[i] \in S /\ Rank(S, q[i]) = i
      BY <1>8, <3>1
    <3>3. f[q[i]] = i
      BY <1>2, <3>2
    <3>4. q[i] = x
      BY <1>1, <3>2, <3>3
    <3> QED
      BY <3>1, <3>4
  <2> QED
    BY <1>8, <1>9, <2>1 DEF Range
<1>11. \A i, j \in D : i < j => q[i] < q[j]
  <2> TAKE i, j \in D
  <2> SUFFICES ASSUME i < j, ~(q[i] < q[j]) PROVE FALSE
    OBVIOUS
  <2>1. q[i] \in S /\ q[j] \in S /\ q[i] \in Nat /\ q[j] \in Nat /\ Rank(S, q[i]) = i /\ Rank(S, q[j]) = j
    BY <1>8
  <2>2. q[j] < q[i] \/ q[j] = q[i]
    BY <2>1
  <2>3. q[j] < q[i] => Rank(S, q[j]) < Rank(S, q[i])
    BY <2>1, Ranks
  <2>4. i \in Int /\ j \in Int
    BY <1>0 DEF D
  <2> QED
    BY <2>1, <2>2, <2>3, <2>4
<1> QED
  BY <1>8, <1>9, <1>10, <1>11 DEF q, D

\* There are finitely many files, and one for a root, a timeframe and a month.
FilesInv ==
  /\ LakeInv /\ IsFiniteSet(DOMAIN files)
  /\ \A k \in DOMAIN files : k = <<k[1], k[2], k[3]>>

LEMMA FilesStep == FilesInv /\ LakeInv' /\ [LakeNext]_lakeVars => FilesInv'
<1> SUFFICES ASSUME FilesInv, [LakeNext]_lakeVars, LakeInv' PROVE FilesInv'
  OBVIOUS
<1>1. CASE UNCHANGED files
  BY <1>1 DEF FilesInv
<1>2. ASSUME NEW j, NEW month, NEW f, files' = With(files, KeyAt(j, month), f) PROVE FilesInv'
  <2> DEFINE k == KeyAt(j, month)
  <2>1. DOMAIN files' = DOMAIN files \cup {k}
    BY <1>2 DEF With
  <2>2. k = <<k[1], k[2], k[3]>>
    BY DEF KeyAt
  <2> HIDE DEF k
  <2>3. IsFiniteSet(DOMAIN files')
    BY <2>1, FS_AddElement DEF FilesInv
  <2> QED
    BY <2>1, <2>2, <2>3 DEF FilesInv
<1> QED
  BY <1>1, <1>2 DEF LakeNext, StartIngest, StartBackfill, StartHistData, Start, FetchBars,
                    WritePartition, WriteManifest, Killed, TimePasses, lakeVars

\* The bars of the lake: there are finitely many, each in the file of its month.
LEMMA LakeBars ==
  ASSUME FilesInv, NEW root, NEW tf
  PROVE  /\ AllBars(root, tf) \in SUBSET (0 .. now) /\ now \in Nat
         /\ \A k \in AllKeys(root, tf) :
              /\ k \in DOMAIN files /\ k = <<root, tf, k[3]>>
              /\ files[k].bars \in SUBSET (0 .. now) /\ \A ts \in files[k].bars : Month(ts) = k[3]
<1>1. now \in Nat
  BY DEF FilesInv, LakeInv
<1>2. \A k \in AllKeys(root, tf) :
        /\ k \in DOMAIN files /\ k = <<root, tf, k[3]>>
        /\ files[k].bars \in SUBSET (0 .. now) /\ \A ts \in files[k].bars : Month(ts) = k[3]
  BY DEF AllKeys, FilesInv, LakeInv, OfItsMonth, Happened
<1> QED
  BY <1>1, <1>2 DEF AllBars

LEMMA MonthIsMonotone == \A a, b \in Nat : a <= b => Month(a) <= Month(b) /\ Month(a) \in Nat /\ Month(b) \in Nat
<1> SUFFICES ASSUME NEW a \in Nat, NEW b \in Nat, a <= b
             PROVE  a \div PerMonth <= b \div PerMonth /\ a \div PerMonth \in Nat /\ b \div PerMonth \in Nat
  BY DEF Month
<1>1. PerMonth \in Nat \ {0}
  BY LakeAssumption DEF LakeAssumption
<1>2. a \div PerMonth <= b \div PerMonth
  BY <1>1, DivMonotone
<1> QED
  BY <1>1, <1>2

\* A query is the bars of the lake in its range, in order.
BarsWanted(root, tf, from, to) == {ts \in AllBars(root, tf) : from <= ts /\ ts < to}

LEMMA QueryReturns ==
  ASSUME FilesInv, NEW root, NEW tf, NEW from \in Nat, NEW to \in Nat
  PROVE  /\ Query(root, tf, from, to) = InOrder(BarsWanted(root, tf, from, to))
         /\ BarsWanted(root, tf, from, to) \in SUBSET Nat /\ IsFiniteSet(BarsWanted(root, tf, from, to))
<1> DEFINE W == BarsWanted(root, tf, from, to)
           C == CollectFiles(root, tf, from, to)
           Q == {ts \in UNION {files[k].bars : k \in C} : from <= ts /\ ts < to}
<1>1. now \in Nat /\ AllBars(root, tf) \in SUBSET (0 .. now)
  BY LakeBars
<1>2. W \in SUBSET Nat /\ IsFiniteSet(W)
  <2>1. IsFiniteSet(0 .. now)
    BY <1>1, FS_Interval
  <2>2. W \in SUBSET (0 .. now)
    BY <1>1 DEF BarsWanted
  <2> HIDE DEF W
  <2>3. IsFiniteSet(W)
    BY <2>1, <2>2, FS_Subset
  <2> QED
    BY <2>2, <2>3
<1>3. C \subseteq AllKeys(root, tf)
  BY DEF CollectFiles, AllKeys
<1>4. ASSUME NEW ts \in W PROVE ts \in Q
  <2>1. ts \in AllBars(root, tf) /\ from <= ts /\ ts < to /\ ts \in Nat
    BY <1>1 DEF BarsWanted
  <2>2. PICK k \in AllKeys(root, tf) : ts \in files[k].bars
    BY <2>1 DEF AllBars
  <2>3. Month(ts) = k[3]
    BY <2>2, LakeBars
  <2>4. Month(from) <= k[3] /\ k[3] <= Month(to)
    BY <2>1, <2>3, MonthIsMonotone
  <2>5. k \in C
    BY <2>4 DEF CollectFiles, AllKeys
  <2> QED
    BY <2>1, <2>2, <2>5
<1>5. ASSUME NEW ts \in Q PROVE ts \in W
  <2>1. PICK k \in C : ts \in files[k].bars
    OBVIOUS
  <2>2. ts \in AllBars(root, tf)
    BY <1>3, <2>1 DEF AllBars
  <2> QED
    BY <2>2 DEF BarsWanted
<1>6. Q = W
  <2> HIDE DEF Q, W
  <2> QED
    BY <1>4, <1>5
<1>7. Query(root, tf, from, to) = InOrder(Q)
  BY DEF Query
<1> QED
  BY <1>2, <1>6, <1>7

\* The range of the lake is its first and its last bar.
LEMMA RangeOfLake ==
  ASSUME FilesInv, NEW root, NEW tf, NEW r \in AvailableRange(root, tf)
  PROVE  /\ AvailableRange(root, tf) = {r} /\ r[1] \in Nat /\ r[2] \in AllBars(root, tf) /\ r[2] \in Nat
         /\ \A ts \in AllBars(root, tf) : ts \in Nat /\ ts <= r[2]
<1> DEFINE B == AllBars(root, tf)
<1>1. B \in SUBSET (0 .. now) /\ now \in Nat
  BY LakeBars
<1>2. B # {} /\ AvailableRange(root, tf) = {<<Min(B), Max(B)>>}
  BY DEF AvailableRange
<1> HIDE DEF B
<1>3. Max(B) \in B /\ \A ts \in B : ts <= Max(B)
  BY <1>1, <1>2, LargestNat
<1>4. Min(B) \in B
  <2>1. B \in SUBSET Nat
    BY <1>1
  <2> QED
    BY <1>2, <2>1, SmallestNat
<1>5. \A ts \in B : ts \in Nat
  BY <1>1
<1>6. r = <<Min(B), Max(B)>>
  BY <1>2
<1>7. r[1] = Min(B) /\ r[2] = Max(B)
  BY <1>6
<1>8. Min(B) \in Nat /\ Max(B) \in Nat
  BY <1>3, <1>4, <1>5, Zenon
<1> QED
  BY <1>2, <1>3, <1>5, <1>6, <1>7, <1>8 DEF B

\* In order, the last bar is the one no other is after.
LEMMA LastInOrder ==
  ASSUME NEW S \in SUBSET Nat, IsFiniteSet(S), NEW m \in S, \A x \in S : x <= m
  PROVE  Last(InOrder(S)) = m
<1> DEFINE q == InOrder(S)
           n == Cardinality(S)
<1>1. /\ DOMAIN q = 1 .. n /\ Len(q) = n /\ Range(q) = S
      /\ \A i, j \in 1 .. n : i < j => q[i] < q[j]
      /\ q \in [1 .. n -> S]
  BY OrderedBars
<1>2. n \in Nat
  BY FS_CardinalityType
<1>3. \A x \in S : x \in Nat
  OBVIOUS
<1> HIDE DEF q, n
<1>4. PICK i \in 1 .. n : q[i] = m
  BY <1>1 DEF Range
<1>5. n \in 1 .. n /\ q[n] \in S
  BY <1>1, <1>2, <1>4
<1>6. q[n] <= m /\ q[n] \in Nat /\ m \in Nat
  BY <1>3, <1>5
<1>7. i < n => m < q[n]
  BY <1>1, <1>4, <1>5
<1>8. i = n
  BY <1>2, <1>4, <1>6, <1>7
<1> QED
  BY <1>1, <1>4, <1>8 DEF Last, q

\* What detection is given ends with the newest bar, which the simulated terminal never sees.
LEMMA NewestBar ==
  ASSUME FilesInv, NEW root, NEW tf, NEW r \in AvailableRange(root, tf), NEW lookback \in Nat \ {0}
  PROVE  /\ Last(PatternWindow(root, tf, lookback)) = r[2]
         /\ r[2] \notin MockTick(root, tf)
<1>1. /\ AvailableRange(root, tf) = {r} /\ r[1] \in Nat /\ r[2] \in AllBars(root, tf) /\ r[2] \in Nat
      /\ \A ts \in AllBars(root, tf) : ts \in Nat /\ ts <= r[2]
  BY RangeOfLake
<1>2. Last(PatternWindow(root, tf, lookback)) = r[2]
  <2> DEFINE end == r[2] + 1
             from == Max({0, end - lookback})
             W == BarsWanted(root, tf, from, end)
  <2>1. PatternWindow(root, tf, lookback) = Query(root, tf, from, end)
    <3>1. (CHOOSE x \in AvailableRange(root, tf) : TRUE) = r
      BY <1>1
    <3> QED
      BY <3>1 DEF PatternWindow
  <2>2. end \in Nat /\ from \in Nat /\ from <= r[2]
    <3>1. end \in Nat /\ end - lookback \in Int /\ end - lookback <= r[2]
      BY <1>1
    <3> DEFINE b == end - lookback
    <3> HIDE DEF end, b
    <3>2. Max({0, b}) = IF b > 0 THEN b ELSE 0
      <4>1. b \in Int
        BY <3>1 DEF b
      <4> QED
        BY <4>1 DEF Max
    <3> QED
      BY <1>1, <3>1, <3>2 DEF b
  <2> HIDE DEF from
  <2>3. W \in SUBSET Nat /\ IsFiniteSet(W) /\ Query(root, tf, from, end) = InOrder(W)
    BY <2>2, QueryReturns
  <2>4. r[2] \in W /\ \A x \in W : x <= r[2]
    BY <1>1, <2>2 DEF BarsWanted
  <2> HIDE DEF W
  <2>5. Last(InOrder(W)) = r[2]
    BY <2>3, <2>4, LastInOrder
  <2> QED
    BY <2>1, <2>3, <2>5
<1>3. r[2] \notin MockTick(root, tf)
  <2> DEFINE read == Query(root, tf, r[1], r[2])
             W == BarsWanted(root, tf, r[1], r[2])
  <2>1. MockTick(root, tf) = IF read = <<>> THEN {} ELSE {Last(read)}
    BY <1>1 DEF MockTick
  <2>2. W \in SUBSET Nat /\ IsFiniteSet(W) /\ read = InOrder(W)
    BY <1>1, QueryReturns
  <2>3. \A x \in W : x < r[2]
    BY DEF BarsWanted
  <2> HIDE DEF W, read
  <2>4. /\ InOrder(W) \in [1 .. Cardinality(W) -> W] /\ Len(InOrder(W)) = Cardinality(W)
        /\ DOMAIN InOrder(W) = 1 .. Cardinality(W) /\ Cardinality(W) \in Nat
    BY <2>2, OrderedBars, FS_CardinalityType
  <2>5. ASSUME read # <<>> PROVE Last(read) \in W
    <3>1. Cardinality(W) # 0
      <4>1. ASSUME Cardinality(W) = 0 PROVE read = <<>>
        <5>1. DOMAIN read = {} /\ read \in [1 .. 0 -> W]
          BY <2>2, <2>4, <4>1
        <5>2. read = [i \in 1 .. 0 |-> read[i]]
          BY <5>1
        <5> QED
          BY <5>1, <5>2
      <4> QED
        BY <2>5, <4>1
    <3> QED
      BY <2>2, <2>4, <3>1 DEF Last
  <2> QED
    BY <1>1, <2>1, <2>3, <2>5
<1> QED
  BY <1>2, <1>3

\* A bar is in one file only: the rows of the files are the bars of the lake.  RowCount is
\* a fold over the files, so it is what a function of their subsets is of all of them.
LEMMA RowsAreBars ==
  ASSUME FilesInv, NEW root, NEW tf
  PROVE  RowCount(root, tf) = Cardinality(AllBars(root, tf))
<1> DEFINE K == AllKeys(root, tf)
           AnyOf(s) == CHOOSE k \in s : TRUE
           Count(k) == Cardinality(files[k].bars)
           IsFold(h) == h = [s \in SUBSET K |-> IF s = {} THEN 0 ELSE h[s \ {AnyOf(s)}] + Count(AnyOf(s))]
           iter == CHOOSE h : IsFold(h)
           BarsOf(s) == UNION {files[k].bars : k \in s}
<1>1. RowCount(root, tf) = iter[K]
  BY DEF RowCount, FoldSet, MapThenFoldSet
<1>2. IsFiniteSet(K)
  BY FS_Subset DEF FilesInv, AllKeys
<1>3. \A k \in K : k = <<root, tf, k[3]>> /\ files[k].bars \in SUBSET (0 .. now) /\ \A ts \in files[k].bars : Month(ts) = k[3]
  BY LakeBars
<1>4. now \in Nat /\ IsFiniteSet(0 .. now)
  BY FS_Interval DEF FilesInv, LakeInv
<1>5. AllBars(root, tf) = BarsOf(K)
  BY DEF AllBars
<1> HIDE DEF K
<1>6. \A s \in SUBSET K : BarsOf(s) \in SUBSET (0 .. now) /\ IsFiniteSet(BarsOf(s)) /\ Cardinality(BarsOf(s)) \in Nat
  <2>1. \A s \in SUBSET K : BarsOf(s) \in SUBSET (0 .. now)
    BY <1>3
  <2> HIDE DEF BarsOf
  <2> QED
    BY <1>4, <2>1, FS_Subset, FS_CardinalityType
<1>7. \A s \in SUBSET K : s # {} => AnyOf(s) \in s /\ s \ {AnyOf(s)} \in SUBSET K
  OBVIOUS
<1> HIDE DEF AnyOf
\* The bars of a set of files are those of one and those of the others.
<1>8. \A s \in SUBSET K : s # {} =>
        Cardinality(BarsOf(s)) = Cardinality(BarsOf(s \ {AnyOf(s)})) + Count(AnyOf(s))
  <2> TAKE s \in SUBSET K
  <2> SUFFICES ASSUME s # {} PROVE Cardinality(BarsOf(s)) = Cardinality(BarsOf(s \ {AnyOf(s)})) + Count(AnyOf(s))
    OBVIOUS
  <2> DEFINE x == AnyOf(s)
             r == s \ {x}
             A == BarsOf(r)
             B == files[x].bars
  <2>1. x \in s /\ x \in K /\ r \in SUBSET K
    BY <1>7
  <2> HIDE DEF x
  <2>2. BarsOf(s) = A \cup B
    BY <2>1
  <2>3. A \cap B = {}
    <3> SUFFICES ASSUME NEW ts \in A, ts \in B PROVE FALSE
      OBVIOUS
    <3>1. PICK k \in r : ts \in files[k].bars
      OBVIOUS
    <3>2. k[3] = x[3] /\ k = <<root, tf, k[3]>> /\ x = <<root, tf, x[3]>>
      BY <1>3, <2>1, <3>1
    <3>3. k = x
      BY <3>2
    <3> QED
      BY <3>1, <3>3
  <2>4. IsFiniteSet(A) /\ Cardinality(A) \in Nat
    <3> HIDE DEF r, BarsOf
    <3> QED
      BY <1>6, <2>1
  <2>5. IsFiniteSet(B) /\ Cardinality(B) \in Nat
    <3>1. B \in SUBSET (0 .. now)
      BY <1>3, <2>1
    <3> HIDE DEF B
    <3> QED
      BY <1>4, <3>1, FS_Subset, FS_CardinalityType
  <2> HIDE DEF A, B
  <2>6. Cardinality(A \cup B) = Cardinality(A) + Cardinality(B) - Cardinality(A \cap B)
    BY <2>4, <2>5, FS_Union
  <2>7. Cardinality(A \cap B) = 0
    BY <2>3, FS_EmptySet
  <2>8. Cardinality(BarsOf(s)) = Cardinality(A) + Cardinality(B)
    <3>1. Cardinality(BarsOf(s)) = Cardinality(A \cup B)
      BY <2>2
    <3> QED
      BY <2>4, <2>5, <2>6, <2>7, <3>1
  <2> QED
    BY <2>8 DEF A, B, x
<1>9. Cardinality(BarsOf({})) = 0
  <2>1. BarsOf({}) = {}
    OBVIOUS
  <2> QED
    BY <2>1, FS_EmptySet
<1> HIDE DEF BarsOf, Count
<1>10. \E h : IsFold(h)
  <2> DEFINE h == [s \in SUBSET K |-> Cardinality(BarsOf(s))]
  <2>1. \A s \in SUBSET K : h[s] = IF s = {} THEN 0 ELSE h[s \ {AnyOf(s)}] + Count(AnyOf(s))
    BY <1>7, <1>8, <1>9
  <2>2. h = [s \in SUBSET K |-> IF s = {} THEN 0 ELSE h[s \ {AnyOf(s)}] + Count(AnyOf(s))]
    BY <2>1
  <2> HIDE DEF h
  <2> QED
    BY <2>2
<1>11. \A s \in SUBSET K : iter[s] = IF s = {} THEN 0 ELSE iter[s \ {AnyOf(s)}] + Count(AnyOf(s))
  <2>1. IsFold(iter)
    BY <1>10
  <2> HIDE DEF iter
  <2> QED
    BY <2>1
<1> HIDE DEF iter
<1> DEFINE Good == {n \in Nat : \A s \in SUBSET K : Cardinality(s) = n => iter[s] = Cardinality(BarsOf(s))}
<1>12. \A s \in SUBSET K : IsFiniteSet(s) /\ Cardinality(s) \in Nat
  BY <1>2, FS_Subset, FS_CardinalityType
<1>13. 0 \in Good
  <2>1. \A s \in SUBSET K : Cardinality(s) = 0 => s = {}
    BY <1>12, FS_EmptySet
  <2> QED
    BY <1>9, <1>11, <2>1
<1>14. ASSUME NEW n \in Nat, n \in Good PROVE n + 1 \in Good
  <2> SUFFICES ASSUME NEW s \in SUBSET K, Cardinality(s) = n + 1 PROVE iter[s] = Cardinality(BarsOf(s))
    OBVIOUS
  <2>1. s # {}
    BY <1>12, FS_EmptySet
  <2>2. s \ {AnyOf(s)} \in SUBSET K /\ Cardinality(s \ {AnyOf(s)}) = n
    <3>1. IsFiniteSet(s) /\ AnyOf(s) \in s
      BY <1>7, <1>12, <2>1
    <3>2. Cardinality(s \ {AnyOf(s)}) = Cardinality(s) - 1
      BY <3>1, FS_RemoveElement
    <3> QED
      BY <3>2
  <2>3. iter[s \ {AnyOf(s)}] = Cardinality(BarsOf(s \ {AnyOf(s)}))
    BY <1>14, <2>2
  <2> QED
    BY <1>8, <1>11, <2>1, <2>3
<1> HIDE DEF Good
<1>15. Cardinality(K) \in Good
  <2>1. Nat \subseteq Good
    BY <1>13, <1>14, NatInd
  <2> QED
    BY <1>12, <2>1
<1> QED
  BY <1>1, <1>5, <1>15 DEF Good

\* query, available_range, row_count and what detection and the simulated terminal take of
\* them: whatever backfills wrote, overwrote or left half done, a query has every bar of
\* its range that is in the lake, once and in order; the window of detection ends with the
\* newest bar, which the simulated terminal never gets; the rows counted are the bars.
THEOREM QueriesAreComplete == LakeSpec => []QueryIsComplete
<1>1. LakeInit => FilesInv
  <2>1. LakeInit => LakeInv
    BY LakeAssumption DEF LakeInit, LakeInv, Times, Horizon, LakeAssumption
  <2> QED
    BY <2>1, FS_EmptySet DEF LakeInit, FilesInv
<1>2. FilesInv => QueryIsComplete
  <2> SUFFICES ASSUME FilesInv PROVE QueryIsComplete
    OBVIOUS
  <2>1. ASSUME NEW root \in Roots, NEW tf \in Timeframes, NEW from \in Times, NEW to \in 1 .. Horizon
        PROVE  LET got == Query(root, tf, from, to)
               IN  /\ Range(got) = {ts \in AllBars(root, tf) : from <= ts /\ ts < to}
                   /\ Len(got) = Cardinality(Range(got))
                   /\ \A i, j \in DOMAIN got : i < j => got[i] < got[j]
    <3> DEFINE W == BarsWanted(root, tf, from, to)
               got == Query(root, tf, from, to)
    <3>1. from \in Nat /\ to \in Nat
      BY LakeAssumption DEF LakeAssumption, Times, Horizon
    <3>2. got = InOrder(W) /\ W \in SUBSET Nat /\ IsFiniteSet(W)
      BY <3>1, QueryReturns
    <3>3. W = {ts \in AllBars(root, tf) : from <= ts /\ ts < to}
      BY DEF BarsWanted
    <3> HIDE DEF W, got
    <3>4. Range(got) = W /\ Len(got) = Cardinality(W) /\ \A i, j \in DOMAIN got : i < j => got[i] < got[j]
      BY <3>2, OrderedBars
    <3> QED
      BY <3>3, <3>4 DEF got
  <2>2. ASSUME NEW root \in Roots, NEW tf \in Timeframes, NEW r \in AvailableRange(root, tf), NEW lookback \in 1 .. PerMonth
        PROVE  /\ Last(PatternWindow(root, tf, lookback)) = r[2] /\ r[2] \notin MockTick(root, tf)
               /\ RowCount(root, tf) = Cardinality(AllBars(root, tf))
    <3>1. lookback \in Nat \ {0}
      BY LakeAssumption DEF LakeAssumption
    <3> QED
      BY <3>1, NewestBar, RowsAreBars
  <2> QED
    BY <2>1, <2>2 DEF QueryIsComplete
<1>3. FilesInv /\ [LakeNext]_lakeVars => FilesInv'
  BY LakeStep, FilesStep DEF FilesInv
<1> QED
  BY <1>1, <1>2, <1>3, PTL DEF LakeSpec

-----------------------------------------------------------------------------
\* Folds over sequences.

LEMMA LastPlace ==
  ASSUME NEW n \in Nat, NEW s \in SUBSET (1 .. n), s # {}
  PROVE  /\ Max(s) \in s /\ s \ {Max(s)} \in SUBSET (1 .. n)
         /\ n \in s => Max(s) = n /\ s \ {Max(s)} \in SUBSET (1 .. n - 1)
         /\ n \notin s => s \in SUBSET (1 .. n - 1)
<1>1. Max(s) \in s /\ \A k \in s : k <= Max(s)
  <2>1. s \in SUBSET (0 .. n)
    OBVIOUS
  <2> QED
    BY <2>1, LargestNat
<1>2. n \in s => Max(s) = n
  <2> DEFINE m == Max(s)
  <2>1. m \in s /\ \A k \in s : k <= m
    BY <1>1
  <2>2. \A k \in s : k \in Int /\ k <= n
    OBVIOUS
  <2> HIDE DEF m
  <2>3. n \in s => m = n
    BY <2>1, <2>2
  <2> QED
    BY <2>3 DEF m
<1>3. s \ {n} \subseteq 1 .. n - 1
  OBVIOUS
<1> QED
  BY <1>1, <1>2, <1>3

LEMMA WholePrefix ==
  ASSUME NEW k \in Nat, k >= 1
  PROVE  Max(1 .. k) = k /\ (1 .. k) \ {k} = 1 .. k - 1
<1>1. 1 .. k \in SUBSET (1 .. k) /\ k \in 1 .. k /\ 1 .. k # {}
  OBVIOUS
<1>2. Max(1 .. k) = k
  BY <1>1, LastPlace
<1> QED
  BY <1>2

\* The values of a fold for every set of places, and those from place to place.
IsFold(h, n, V, base, step, seq) ==
  /\ h \in [SUBSET (1 .. n) -> V]
  /\ \A s \in SUBSET (1 .. n) :
       h[s] = IF s = {} THEN base ELSE step[<<h[s \ {Max(s)}], seq[Max(s)]>>]
Iterates(it, n, V, base, step, seq) ==
  /\ it[{}] = base
  /\ \A s \in SUBSET (1 .. n) : s # {} /\ it[s \ {Max(s)}] \in V
                                => it[s] = step[<<it[s \ {Max(s)}], seq[Max(s)]>>]
IsRun(r, it, n, V, base, step, seq) ==
  /\ r \in [0 .. n -> V] /\ r[0] = base /\ r[n] = it[1 .. n]
  /\ \A k \in 1 .. n : r[k] = step[<<r[k - 1], seq[k]>>]

\* A fold whose step is a function has a value for every set of places.
LEMMA FoldExists ==
  ASSUME NEW n \in Nat, NEW T, NEW seq, \A i \in 1 .. n : seq[i] \in T,
         NEW V, NEW base \in V, NEW step \in [V \X T -> V]
  PROVE  \E h : IsFold(h, n, V, base, step, seq)
<1> DEFINE Value(h, s) == IF s = {} THEN base ELSE step[<<h[s \ {Max(s)}], seq[Max(s)]>>]
           UpTo(m) == \E h \in [SUBSET (1 .. m) -> V] : \A s \in SUBSET (1 .. m) : h[s] = Value(h, s)
           Ns == {m \in Nat : m <= n => UpTo(m)}
<1>1. 0 \in Ns
  <2> DEFINE h == [s \in SUBSET (1 .. 0) |-> base]
  <2>1. h \in [SUBSET (1 .. 0) -> V] /\ \A s \in SUBSET (1 .. 0) : s = {} /\ h[s] = base
    OBVIOUS
  <2> HIDE DEF h
  <2>2. UpTo(0)
    BY <2>1
  <2> QED
    BY <2>2
<1>2. ASSUME NEW m \in Nat, m \in Ns PROVE m + 1 \in Ns
  <2> HIDE DEF UpTo
  <2> SUFFICES ASSUME m + 1 <= n PROVE UpTo(m + 1)
    OBVIOUS
  <2>0. UpTo(m)
    BY <1>2
  <2> HIDE DEF Value
  <2>1. PICK h \in [SUBSET (1 .. m) -> V] : \A s \in SUBSET (1 .. m) : h[s] = Value(h, s)
    BY <2>0 DEF UpTo
  <2> DEFINE g == [s \in SUBSET (1 .. m + 1) |->
                    IF m + 1 \in s THEN step[<<h[s \ {m + 1}], seq[m + 1]>>] ELSE h[s]]
  <2>2. ASSUME NEW s \in SUBSET (1 .. m + 1), m + 1 \in s
        PROVE  Max(s) = m + 1 /\ s \ {m + 1} \in SUBSET (1 .. m) /\ g[s \ {m + 1}] = h[s \ {m + 1}]
    <3>1. Max(s) = m + 1 /\ s \ {m + 1} \in SUBSET (1 .. m)
      BY <2>2, LastPlace
    <3> QED
      BY <3>1
  <2>3. ASSUME NEW s \in SUBSET (1 .. m + 1), m + 1 \notin s
        PROVE  s \in SUBSET (1 .. m) /\ g[s] = h[s]
               /\ (s # {} => s \ {Max(s)} \in SUBSET (1 .. m) /\ g[s \ {Max(s)}] = h[s \ {Max(s)}])
    <3>1. s \in SUBSET (1 .. m)
      BY <2>3
    <3>2. \A x : s \ {x} \in SUBSET (1 .. m) /\ s \ {x} \in SUBSET (1 .. m + 1) /\ m + 1 \notin s \ {x}
      BY <2>3, <3>1
    <3> QED
      BY <2>3, <3>1, <3>2
  <2>4. g \in [SUBSET (1 .. m + 1) -> V]
    <3>1. ASSUME NEW s \in SUBSET (1 .. m + 1), m + 1 \in s PROVE step[<<h[s \ {m + 1}], seq[m + 1]>>] \in V
      <4>1. h[s \ {m + 1}] \in V /\ seq[m + 1] \in T
        BY <2>2, <3>1
      <4> QED
        BY <4>1
    <3>2. ASSUME NEW s \in SUBSET (1 .. m + 1), m + 1 \notin s PROVE h[s] \in V
      BY <2>3, <3>2
    <3> QED
      BY <3>1, <3>2
  <2>5. \A s \in SUBSET (1 .. m + 1) : m + 1 \in s => g[s] = step[<<h[s \ {m + 1}], seq[m + 1]>>]
    OBVIOUS
  <2> HIDE DEF g
  <2>6. ASSUME NEW s \in SUBSET (1 .. m + 1) PROVE g[s] = Value(g, s)
    <3>1. CASE m + 1 \in s
      BY <2>2, <2>5, <3>1 DEF Value
    <3>2. CASE m + 1 \notin s
      BY <2>1, <2>3, <3>2 DEF Value
    <3> QED
      BY <3>1, <3>2
  <2> QED
    BY <2>4, <2>6 DEF UpTo
<1>3. n \in Ns
  <2> HIDE DEF Ns
  <2> QED
    BY <1>1, <1>2, NatInd
<1>4. UpTo(n)
  <2> HIDE DEF UpTo
  <2> QED
    BY <1>3
<1> HIDE DEF Value
<1>5. PICK h \in [SUBSET (1 .. n) -> V] : \A s \in SUBSET (1 .. n) : h[s] = Value(h, s)
  BY <1>4
<1> QED
  BY <1>5 DEF Value, IsFold

\* A fold takes its elements from the first to the last.
LEMMA FoldPlaces ==
  ASSUME NEW n \in Nat, NEW T, NEW seq, \A i \in 1 .. n : seq[i] \in T,
         NEW V, NEW base \in V, NEW step \in [V \X T -> V],
         NEW it, Iterates(it, n, V, base, step, seq)
  PROVE  \E r : IsRun(r, it, n, V, base, step, seq)
<1> DEFINE r == [k \in 0 .. n |-> it[1 .. k]]
           Good == {k \in Nat : k <= n => it[1 .. k] \in V}
<1>1. ASSUME NEW k \in 1 .. n, it[1 .. k - 1] \in V
      PROVE  it[1 .. k] = step[<<it[1 .. k - 1], seq[k]>>] /\ it[1 .. k] \in V
  <2>1. Max(1 .. k) = k /\ (1 .. k) \ {k} = 1 .. k - 1
    BY WholePrefix
  <2>2. 1 .. k \in SUBSET (1 .. n) /\ 1 .. k # {}
    OBVIOUS
  <2>3. it[1 .. k] = step[<<it[1 .. k - 1], seq[k]>>]
    BY <1>1, <2>1, <2>2 DEF Iterates
  <2>4. <<it[1 .. k - 1], seq[k]>> \in V \X T
    BY <1>1
  <2> QED
    BY <2>3, <2>4
<1>2. 0 \in Good /\ 1 .. 0 = {} /\ it[1 .. 0] = base
  BY DEF Iterates
<1>3. ASSUME NEW k \in Nat, k \in Good PROVE k + 1 \in Good
  <2> SUFFICES ASSUME k + 1 <= n PROVE it[1 .. k + 1] \in V
    OBVIOUS
  <2>1. it[1 .. k] \in V /\ k + 1 \in 1 .. n /\ (k + 1) - 1 = k
    BY <1>3
  <2> QED
    BY <1>1, <2>1
<1>4. \A k \in 0 .. n : it[1 .. k] \in V
  <2> HIDE DEF Good
  <2>1. Nat \subseteq Good
    BY <1>2, <1>3, NatInd
  <2> QED
    BY <2>1 DEF Good
<1>5. r \in [0 .. n -> V] /\ r[0] = base /\ r[n] = it[1 .. n]
  BY <1>2, <1>4
<1>6. \A k \in 1 .. n : r[k] = step[<<r[k - 1], seq[k]>>]
  <2> TAKE k \in 1 .. n
  <2>1. k - 1 \in 0 .. n /\ k \in 0 .. n
    OBVIOUS
  <2> QED
    BY <1>1, <1>4, <2>1
<1> HIDE DEF r
<1> QED
  BY <1>5, <1>6 DEF IsRun

-----------------------------------------------------------------------------
\* Sequences.

LEMMA Firsts ==
  ASSUME NEW S, NEW s \in Seq(S), NEW n \in Nat
  PROVE  FirstOf(s, n) \in Seq(S)
<1>1. Least(n, Len(s)) \in Nat /\ Least(n, Len(s)) <= Len(s)
  BY DEF Least
<1> QED
  BY <1>1 DEF FirstOf

\* A finite set as a sequence: its elements, in some order.
LEMMA SomeOrder ==
  ASSUME NEW S, NEW X \in SUBSET S, IsFiniteSet(X)
  PROVE  SetToSeq(X) \in Seq(S)
<1>1. Cardinality(X) \in Nat /\ ExistsBijection(1 .. Cardinality(X), X)
  BY FS_CardinalityType
<1>2. \E f \in [1 .. Cardinality(X) -> X] : IsInjective(f)
  BY <1>1 DEF ExistsBijection, Bijection, Injection
<1>3. SetToSeq(X) \in [1 .. Cardinality(X) -> X]
  BY <1>2 DEF SetToSeq
<1> QED
  BY <1>1, <1>3

\* The elements at some of the places.
LEMMA Chosen ==
  ASSUME NEW S, NEW s \in Seq(S), NEW keep \in SUBSET DOMAIN s
  PROVE  /\ Only(s, keep) \in Seq(S)
         /\ \A k \in DOMAIN Only(s, keep) : \E i \in keep : Only(s, keep)[k] = s[i]
<1>1. keep \in SUBSET Nat /\ IsFiniteSet(keep) /\ Cardinality(keep) \in Nat
  <2>1. IsFiniteSet(1 .. Len(s)) /\ DOMAIN s = 1 .. Len(s)
    BY FS_Interval
  <2>2. IsFiniteSet(keep) /\ keep \in SUBSET Nat
    BY <2>1, FS_Subset
  <2> QED
    BY <2>2, FS_CardinalityType
<1>2. \A k \in 1 .. Cardinality(keep) : \E i \in keep : Cardinality({j \in keep : j <= i}) = k
  <2> TAKE k \in 1 .. Cardinality(keep)
  <2>1. InOrder(keep)[k] \in keep /\ Rank(keep, InOrder(keep)[k]) = k
    BY <1>1, OrderedBars
  <2> QED
    BY <2>1 DEF Rank
<1> DEFINE at(k) == CHOOSE i \in keep : Cardinality({j \in keep : j <= i}) = k
<1>3. \A k \in 1 .. Cardinality(keep) : at(k) \in keep
  BY <1>2
<1>4. Only(s, keep) = [k \in 1 .. Cardinality(keep) |-> s[at(k)]]
  BY DEF Only
<1> HIDE DEF at
<1>5. \A k \in 1 .. Cardinality(keep) : s[at(k)] \in S
  BY <1>3
<1> QED
  BY <1>1, <1>3, <1>4, <1>5

\* Every place of a stable sort is taken.
LEMMA Places ==
  ASSUME NEW n \in Nat, NEW key \in [1 .. n -> Int]
  PROVE  \A k \in 1 .. n : \E i \in 1 .. n :
           Cardinality({j \in 1 .. n : key[j] > key[i] \/ (key[j] = key[i] /\ j <= i)}) = k
<1> DEFINE D == 1 .. n
           Upto(i) == {j \in D : key[j] > key[i] \/ (key[j] = key[i] /\ j <= i)}
           f == [i \in D |-> Cardinality(Upto(i))]
<1>0. \A i \in D : i \in Nat /\ key[i] \in Int
  OBVIOUS
<1>1. IsFiniteSet(D) /\ Cardinality(D) = n
  <2>1. IsFiniteSet(D) /\ Cardinality(D) = IF 1 > n THEN 0 ELSE n - 1 + 1
    BY FS_Interval
  <2> QED
    BY <2>1
<1>2. \A i \in D : /\ IsFiniteSet(Upto(i)) /\ Cardinality(Upto(i)) \in Nat
                   /\ Cardinality(Upto(i)) <= n
  <2>1. \A i : Upto(i) \in SUBSET D
    OBVIOUS
  <2> HIDE DEF Upto, D
  <2> QED
    BY <1>1, <2>1, FS_Subset, FS_CardinalityType
<1>3. \A i \in D : i \in Upto(i)
  BY <1>0
<1>4. \A i, j \in D : i # j => Upto(i) # Upto(j)
  <2> SUFFICES ASSUME NEW i \in D, NEW j \in D, i # j PROVE ~(i \in Upto(j) /\ j \in Upto(i))
    BY <1>3
  <2> QED
    BY <1>0
<1>5. \A i, j \in D : Upto(i) \subseteq Upto(j) \/ Upto(j) \subseteq Upto(i)
  <2> TAKE i, j \in D
  <2>1. CASE key[i] > key[j] \/ (key[i] = key[j] /\ i <= j)
    <3>1. \A l \in D : l \in Upto(i) => l \in Upto(j)
      BY <1>0, <2>1
    <3> QED
      BY <3>1
  <2>2. CASE key[j] > key[i] \/ (key[i] = key[j] /\ j <= i)
    <3>1. \A l \in D : l \in Upto(j) => l \in Upto(i)
      BY <1>0, <2>2
    <3> QED
      BY <3>1
  <2> QED
    BY <1>0, <2>1, <2>2
<1> HIDE DEF Upto, D
<1>6. \A i, j \in D : i # j => Cardinality(Upto(i)) # Cardinality(Upto(j))
  <2> TAKE i, j \in D
  <2>1. ASSUME Upto(i) \subseteq Upto(j), Cardinality(Upto(i)) = Cardinality(Upto(j)) PROVE Upto(i) = Upto(j)
    BY <1>2, <2>1, FS_Subset
  <2>2. ASSUME Upto(j) \subseteq Upto(i), Cardinality(Upto(i)) = Cardinality(Upto(j)) PROVE Upto(i) = Upto(j)
    BY <1>2, <2>2, FS_Subset
  <2> QED
    BY <1>4, <1>5, <2>1, <2>2
<1>7. \A i \in D : Cardinality(Upto(i)) \in D
  <2> TAKE i \in D
  <2>1. Cardinality(Upto(i)) # 0
    BY <1>2, <1>3, FS_EmptySet
  <2> QED
    BY <1>2, <2>1 DEF D
<1>8. f \in Injection(D, D)
  BY <1>6, <1>7 DEF Injection, IsInjective
<1>9. f \in Surjection(D, D)
  BY <1>1, <1>8, FS_Injection
<1>10. \A k \in D : \E i \in D : Cardinality(Upto(i)) = k
  BY <1>9 DEF Surjection
<1> QED
  BY <1>10 DEF Upto, D

\* Sorting by confidence rearranges.
LEMMA Sorted ==
  ASSUME NEW S, \A x \in S : x.conf \in Int, NEW s \in Seq(S)
  PROVE  Descending(s, LAMBDA x : x.conf) \in Seq(S)
<1> DEFINE n == Len(s)
           key == [i \in DOMAIN s |-> s[i].conf]
           place(i) == Cardinality({j \in 1 .. n : key[j] > key[i] \/ (key[j] = key[i] /\ j <= i)})
           at(k) == CHOOSE i \in 1 .. n : place(i) = k
<1>1. n \in Nat /\ DOMAIN s = 1 .. n /\ key \in [1 .. n -> Int] /\ \A i \in 1 .. n : s[i] \in S
  OBVIOUS
<1>2. Descending(s, LAMBDA x : x.conf) = [k \in 1 .. n |-> s[at(k)]]
  BY <1>1 DEF Descending
<1> HIDE DEF key, n
<1>3. \A k \in 1 .. n : \E i \in 1 .. n : place(i) = k
  BY <1>1, Places
<1>4. \A k \in 1 .. n : at(k) \in 1 .. n
  BY <1>3
<1> HIDE DEF at
<1>5. \A k \in 1 .. n : s[at(k)] \in S
  BY <1>1, <1>4
<1> QED
  BY <1>1, <1>2, <1>5

\* Sequences one after the other.
LEMMA Flattened ==
  ASSUME NEW S, NEW ss \in Seq(Seq(S))
  PROVE  FlattenSeq(ss) \in Seq(S)
<1> DEFINE n == Len(ss)
           step == [p \in Seq(S) \X Seq(S) |-> p[1] \o p[2]]
           F(f) == [i \in 1 .. n |-> IF i = 1 THEN ss[1] ELSE f[i - 1] \o ss[i]]
           flatten == CHOOSE f : f = F(f)
<1>0. n \in Nat /\ \A i \in 1 .. n : ss[i] \in Seq(S)
  OBVIOUS
<1>1. n = 0 => FlattenSeq(ss) = <<>>
  BY DEF FlattenSeq
<1>2. n # 0 => FlattenSeq(ss) = flatten[n]
  BY DEF FlattenSeq
<1>3. <<>> \in Seq(S) /\ step \in [Seq(S) \X Seq(S) -> Seq(S)]
  OBVIOUS
<1>4. \A a, b \in Seq(S) : step[<<a, b>>] = a \o b
  OBVIOUS
<1> HIDE DEF n
<1>5. \E f : f = F(f)
  <2> HIDE DEF step
  <2> DEFINE Q == Seq(S)
  <2>0. step \in [Q \X Q -> Q] /\ <<>> \in Q /\ \A i \in 1 .. n : ss[i] \in Q
    BY <1>0, <1>3
  <2> HIDE DEF Q
  <2>10. PICK h : IsFold(h, n, Q, <<>>, step, ss)
    BY <1>0, <2>0, FoldExists
  <2>1. /\ h \in [SUBSET (1 .. n) -> Seq(S)]
        /\ \A s \in SUBSET (1 .. n) :
             h[s] = IF s = {} THEN <<>> ELSE step[<<h[s \ {Max(s)}], ss[Max(s)]>>]
    BY <2>10 DEF Q, IsFold
  <2> DEFINE f == [i \in 1 .. n |-> h[1 .. i]]
  <2>2. ASSUME NEW i \in 1 .. n PROVE h[1 .. i] = IF i = 1 THEN ss[1] ELSE f[i - 1] \o ss[i]
    <3>1. Max(1 .. i) = i /\ (1 .. i) \ {i} = 1 .. i - 1
      BY <1>0, WholePrefix
    <3>2. 1 .. i \in SUBSET (1 .. n) /\ 1 .. i # {} /\ 1 .. i - 1 \in SUBSET (1 .. n)
      <4>1. i \in Nat /\ 1 <= i /\ i <= n
        BY <1>0
      <4>2. \A j \in 1 .. i : j \in 1 .. n
        BY <1>0, <4>1
      <4>3. \A j \in 1 .. i - 1 : j \in 1 .. n
        BY <1>0, <4>1
      <4>4. i \in 1 .. i
        BY <4>1
      <4> QED
        BY <4>2, <4>3, <4>4
    <3>3. h[1 .. i - 1] \in Seq(S) /\ h[1 .. i] = step[<<h[1 .. i - 1], ss[i]>>]
      BY <2>1, <3>1, <3>2
    <3>30. h[1 .. i] = h[1 .. i - 1] \o ss[i]
      BY <1>0, <1>4, <3>3
    <3>4. CASE i = 1
      <4>1. 1 .. i - 1 = {} /\ {} \in SUBSET (1 .. n)
        BY <3>4
      <4>2. h[1 .. i - 1] = <<>>
        BY <2>1, <4>1
      <4> QED
        BY <1>0, <3>30, <3>4, <4>2
    <3>5. CASE i # 1
      <4>1. i - 1 \in 1 .. n
        BY <1>0, <3>5
      <4> QED
        BY <3>30, <3>5, <4>1
    <3> QED
      BY <3>4, <3>5
  <2>3. f = F(f)
    BY <2>2
  <2> HIDE DEF f
  <2> QED
    BY <2>3
<1>6. flatten = F(flatten)
  <2> HIDE DEF F
  <2> QED
    BY <1>5
<1> HIDE DEF flatten
<1>7. \A i \in 1 .. n : flatten[i] = IF i = 1 THEN ss[1] ELSE flatten[i - 1] \o ss[i]
  BY <1>6
<1> DEFINE Good == {i \in Nat : i + 1 <= n => flatten[i + 1] \in Seq(S)}
<1>8. 0 \in Good
  BY <1>0, <1>7
<1>9. ASSUME NEW i \in Nat, i \in Good PROVE i + 1 \in Good
  <2> SUFFICES ASSUME i + 2 <= n PROVE flatten[i + 2] \in Seq(S)
    OBVIOUS
  <2>1. i + 2 \in 1 .. n /\ (i + 2) - 1 = i + 1 /\ i + 2 # 1
    BY <1>0
  <2>2. flatten[i + 1] \in Seq(S) /\ ss[i + 2] \in Seq(S)
    BY <1>0, <1>9, <2>1
  <2>3. flatten[i + 2] = flatten[i + 1] \o ss[i + 2]
    BY <1>7, <2>1
  <2> QED
    BY <2>2, <2>3
<1>10. n # 0 => flatten[n] \in Seq(S)
  <2> HIDE DEF Good
  <2>1. Nat \subseteq Good
    BY <1>8, <1>9, NatInd
  <2>2. n # 0 => n - 1 \in Good
    BY <1>0, <2>1
  <2> QED
    BY <1>0, <2>2 DEF Good
<1> QED
  BY <1>0, <1>1, <1>2, <1>3, <1>10

\* The zones that stay are among the zones given.
LEMMA KeptApart ==
  ASSUME NEW S, NEW s \in Seq(S)
  PROVE  FoldLeft(KeepApart, <<>>, s) \in Seq(S)
<1> DEFINE n == Len(s)
           Q == Seq(S)
           step == [p \in Q \X S |-> KeepApart(p[1], p[2])]
           Next(it, X) == IF X = {} THEN <<>> ELSE KeepApart(it[X \ {Max(X)}], s[Max(X)])
           it == CHOOSE it : it = [X \in SUBSET (1 .. n) |-> Next(it, X)]
<1>1. n \in Nat /\ DOMAIN s = 1 .. n /\ \A i \in 1 .. n : s[i] \in S
  OBVIOUS
<1>2. FoldLeft(KeepApart, <<>>, s) = it[1 .. n]
  BY <1>1 DEF FoldLeft, MapThenFoldSet
<1>3. \A q \in Q, x \in S : KeepApart(q, x) \in Q
  BY DEF KeepApart
<1>4. <<>> \in Q
  OBVIOUS
<1> HIDE DEF n, Q
<1>5. step \in [Q \X S -> Q] /\ \A q \in Q, x \in S : step[<<q, x>>] = KeepApart(q, x)
  BY <1>3
<1> HIDE DEF step
<1>6. PICK h : IsFold(h, n, Q, <<>>, step, s)
  BY <1>1, <1>4, <1>5, FoldExists
<1>7. h = [X \in SUBSET (1 .. n) |-> Next(h, X)]
  <2>1. ASSUME NEW X \in SUBSET (1 .. n) PROVE h[X] = Next(h, X)
    <3>1. CASE X # {}
      <4>1. X \ {Max(X)} \in SUBSET (1 .. n) /\ Max(X) \in 1 .. n
        BY <1>1, <3>1, LastPlace
      <4>2. h[X \ {Max(X)}] \in Q /\ s[Max(X)] \in S
        BY <1>1, <1>6, <4>1 DEF IsFold
      <4> QED
        BY <1>5, <1>6, <3>1, <4>2 DEF IsFold
    <3>2. CASE X = {}
      BY <1>6, <3>2 DEF IsFold
    <3> QED
      BY <3>1, <3>2
  <2> QED
    BY <1>6, <2>1 DEF IsFold
<1>8. it = [X \in SUBSET (1 .. n) |-> Next(it, X)]
  <2> HIDE DEF Next
  <2> QED
    BY <1>7
<1> HIDE DEF it
<1>9. Iterates(it, n, Q, <<>>, step, s)
  <2>1. {} \in SUBSET (1 .. n)
    OBVIOUS
  <2>2. ASSUME NEW X \in SUBSET (1 .. n), X # {}, it[X \ {Max(X)}] \in Q
        PROVE  it[X] = step[<<it[X \ {Max(X)}], s[Max(X)]>>]
    <3>1. Max(X) \in 1 .. n
      BY <1>1, <2>2, LastPlace
    <3> QED
      BY <1>1, <1>5, <1>8, <2>2, <3>1
  <2> QED
    BY <1>8, <2>1, <2>2 DEF Iterates
<1>10. PICK r : IsRun(r, it, n, Q, <<>>, step, s)
  BY <1>1, <1>4, <1>5, <1>9, FoldPlaces
<1>11. r[n] \in Q
  BY <1>1, <1>10 DEF IsRun
<1> QED
  BY <1>2, <1>10, <1>11 DEF IsRun, Q

-----------------------------------------------------------------------------
\* What the aggregators are given and what they make.
Sides == {"long", "short"}
ZoneTypes == {"ob_fvg_overlap", "ob", "fvg"} \cup SyntheticTypes
ZoneSet == [hi : Int, lo : Int, type : ZoneTypes, dir : Sides, conf : Int]
EntrySet(triggers) ==
  [price : Int, sl : Int, tp1 : Int, tp2 : Int, rr : Int, dir : Sides, trigger : triggers,
   grade : {"A", "B", "C"}, inverted : BOOLEAN]

LEMMA Counts ==
  ASSUME NEW s, NEW n \in Nat, DOMAIN s = 1 .. n, NEW X \in SUBSET DOMAIN s
  PROVE  IsFiniteSet(X) /\ Cardinality(X) \in Nat
<1>1. IsFiniteSet(1 .. n)
  BY FS_Interval
<1> QED
  BY <1>1, FS_Subset, FS_CardinalityType

LEMMA Elements ==
  ASSUME NEW S, NEW s \in Seq(S)
  PROVE  Len(s) \in Nat /\ DOMAIN s = 1 .. Len(s) /\ \A i \in DOMAIN s : s[i] \in S
OBVIOUS

LEMMA ChartCounts ==
  ASSUME NEW view \in Charts, NEW dir
  PROVE  /\ BreakConfidence(view) \in Int /\ ObProximityBonus(view, dir) \in Int
         /\ DirectionFromBreaks(view) \in BiasDirs
<1> DEFINE n == Len(view.breaks)
           recent == Recent(view)
           latest == {i \in DOMAIN recent : recent[i].dir = Latest(view).dir}
           near == {i \in DOMAIN view.obs : view.obs[i].type = dir /\ ~view.obs[i].mitigated}
<1>1. /\ n \in Nat /\ DOMAIN view.breaks = 1 .. n
      /\ \A i \in 1 .. n : view.breaks[i].dir \in {"bullish", "bearish"}
      /\ Len(view.obs) \in Nat /\ DOMAIN view.obs = 1 .. Len(view.obs)
  <2> DEFINE K == [kind : {"bos", "choch"}, dir : {"bullish", "bearish"}, price : Int, ts : Int]
  <2>1. view.breaks \in Seq(K)
    BY DEF Charts
  <2>2. view.obs \in Seq([type : {"bullish", "bearish"}, hi : Int, lo : Int, mitigated : BOOLEAN])
    BY DEF Charts
  <2>3. \A i \in DOMAIN view.breaks : view.breaks[i].dir \in {"bullish", "bearish"}
    <3> HIDE DEF K
    <3>1. \A i \in DOMAIN view.breaks : view.breaks[i] \in K
      BY <2>1, Elements
    <3> QED
      BY <3>1 DEF K
  <2> HIDE DEF K
  <2>4. n \in Nat /\ DOMAIN view.breaks = 1 .. n
    BY <2>1, Elements
  <2>5. Len(view.obs) \in Nat /\ DOMAIN view.obs = 1 .. Len(view.obs)
    BY <2>2, Elements
  <2> QED
    BY <2>3, <2>4, <2>5
<1>2. \E m \in Nat : DOMAIN recent = 1 .. m
  <2>1. Most(1, n - 5 + 1) \in Nat /\ Most(1, n - 5 + 1) >= 1 /\ Most(1, n - 5 + 1) <= n + 1
    BY <1>1 DEF Most
  <2>2. recent = SubSeq(view.breaks, Most(1, n - 5 + 1), n)
    BY DEF Recent, LastOf
  <2> QED
    BY <1>1, <2>1, <2>2
<1>3. Cardinality(latest) \in Nat
  BY <1>2, Counts
<1>4. Cardinality(near) \in Nat
  BY <1>1, Counts
<1>5. /\ CountIf(recent, LAMBDA b : b.dir = Latest(view).dir) = Cardinality(latest)
      /\ CountIf(view.obs, LAMBDA o : o.type = dir /\ ~o.mitigated) = Cardinality(near)
  BY DEF CountIf
<1>6. n # 0 => Latest(view).dir \in {"bullish", "bearish"}
  BY <1>1 DEF Latest, Last
<1>7. view.breaks = <<>> \/ n # 0
  BY <1>1
<1> HIDE DEF latest, near, n
<1>8. BreakConfidence(view) \in Int
  BY <1>3, <1>5 DEF BreakConfidence, Least
<1>9. ObProximityBonus(view, dir) \in Int
  BY <1>4, <1>5 DEF ObProximityBonus, Least
<1>10. DirectionFromBreaks(view) \in BiasDirs
  BY <1>6, <1>7 DEF DirectionFromBreaks, BiasDirs
<1> QED
  BY <1>8, <1>9, <1>10

LEMMA BiasTyped ==
  ASSUME NEW market \in Views
  PROVE  Bias(market).dir \in BiasDirs /\ Bias(market).conf \in Int
<1> DEFINE d1 == market.d1
           h4 == market.h4
           levels == KeyLevels(d1, h4)
           B == [dir : BiasDirs, conf : Int, levels : {levels}, tier : 0 .. 4]
<1>1. d1 \in Charts /\ h4 \in Charts /\ market.slope \in SUBSET Int
  BY DEF Views
<1>2. Undecided(market.slope, levels) \in B
  <2>1. CASE Strong(market.slope) # {}
    <3>1. (CHOOSE x \in market.slope : TRUE) \in Int
      BY <1>1, <2>1 DEF Strong
    <3>2. \A x \in Int : Clamp(300 + Least(150, 3 * (Abs(x) - 50)), 300, 450) \in Int
      BY DEF Clamp, Least, Most, Abs
    <3>3. SlopeBias(market.slope, levels) \in B
      BY <3>1, <3>2 DEF SlopeBias, BiasDirs
    <3> QED
      BY <2>1, <3>3 DEF Undecided
  <2>2. CASE Strong(market.slope) = {}
    BY <2>2 DEF Undecided, BiasDirs
  <2> QED
    BY <2>1, <2>2
<1> DEFINE d1Dir == DirectionFromBreaks(d1)
           h4Dir == DirectionFromBreaks(h4)
           b1 == BreakConfidence(d1)
           b4 == BreakConfidence(h4)
           o11 == ObProximityBonus(d1, d1Dir)
           o41 == ObProximityBonus(h4, d1Dir)
           o44 == ObProximityBonus(h4, h4Dir)
<1>3. /\ d1Dir \in BiasDirs /\ h4Dir \in BiasDirs /\ b1 \in Int /\ b4 \in Int
      /\ o11 \in Int /\ o41 \in Int /\ o44 \in Int
  BY <1>1, ChartCounts
<1>4. Bias(market) =
        IF d1Dir = "neutral" /\ h4Dir = "neutral" THEN Undecided(market.slope, levels)
        ELSE IF "neutral" \notin {d1Dir, h4Dir} /\ d1Dir # h4Dir
             THEN Undecided(market.slope, levels)
        ELSE IF d1Dir = h4Dir
             THEN [dir |-> d1Dir, conf |-> Clamp((5 * b1 + 3 * b4) \div 10 + o11 + o41, 700, 1000),
                   levels |-> levels, tier |-> 1]
        ELSE IF h4Dir # "neutral"
             THEN [dir |-> h4Dir, conf |-> Clamp((6 * b4) \div 10 + o44, 400, 700),
                   levels |-> levels, tier |-> 2]
        ELSE [dir |-> d1Dir, conf |-> Clamp((b1 + o11) \div 2, 300, 500),
              levels |-> levels, tier |-> 3]
  BY DEF Bias, ComputeHtfBias
<1> HIDE DEF d1Dir, h4Dir, b1, b4, o11, o41, o44, levels
<1>5. /\ (5 * b1 + 3 * b4) \div 10 + o11 + o41 \in Int
      /\ (6 * b4) \div 10 + o44 \in Int /\ (b1 + o11) \div 2 \in Int
  BY <1>3
<1>6. /\ Clamp((5 * b1 + 3 * b4) \div 10 + o11 + o41, 700, 1000) \in Int
      /\ Clamp((6 * b4) \div 10 + o44, 400, 700) \in Int
      /\ Clamp((b1 + o11) \div 2, 300, 500) \in Int
  <2> DEFINE t1 == (5 * b1 + 3 * b4) \div 10 + o11 + o41
             t2 == (6 * b4) \div 10 + o44
             t3 == (b1 + o11) \div 2
  <2>1. t1 \in Int /\ t2 \in Int /\ t3 \in Int
    BY <1>5
  <2> HIDE DEF t1, t2, t3
  <2>2. Clamp(t1, 700, 1000) \in Int /\ Clamp(t2, 400, 700) \in Int /\ Clamp(t3, 300, 500) \in Int
    BY <2>1 DEF Clamp, Least, Most
  <2> QED
    BY <2>2 DEF t1, t2, t3
<1>7. Bias(market) \in B
  BY <1>2, <1>3, <1>4, <1>6
<1> QED
  BY <1>7

LEMMA ZoneTyped ==
  ASSUME NEW x, x.hi \in Int, x.lo \in Int, NEW type, type \in ZoneTypes,
         NEW dir, NEW conf, conf \in Int
  PROVE  Zone(x, type, dir, conf) \in ZoneSet /\ Zone(x, type, dir, conf).dir = Side(dir)
<1> DEFINE d == Side(dir)
<1>1. d \in Sides
  BY DEF Side, Sides
<1> HIDE DEF d
<1>2. Zone(x, type, dir, conf) = [hi |-> x.hi, lo |-> x.lo, type |-> type, dir |-> d, conf |-> conf]
  BY DEF Zone, d
<1> QED
  BY <1>1, <1>2 DEF ZoneSet, d

\* The zones of a chart are all on the side that is looked for.
LEMMA ZonesOnSide ==
  ASSUME NEW h1 \in Charts, NEW dir \in BiasDirs
  PROVE  /\ ScanZones(h1, dir) \in Seq({z \in ZoneSet : z.dir = Side(dir)})
         /\ ScanZonesV2(h1, dir) \in Seq({z \in ZoneSet : z.dir = Side(dir)})
<1> DEFINE Z == {z \in ZoneSet : z.dir = Side(dir)}
           B == [type : {"bullish", "bearish"}, hi : Int, lo : Int, mitigated : BOOLEAN]
           G == [type : {"bullish", "bearish"}, hi : Int, lo : Int, filled : 0 .. 100]
           obs == Only(h1.obs, {i \in DOMAIN h1.obs : h1.obs[i].type = dir /\ ~h1.obs[i].mitigated})
           gaps == Only(h1.fvgs, {i \in DOMAIN h1.fvgs : h1.fvgs[i].type = dir /\ h1.fvgs[i].filled < 100})
           crossed(x, others) == \E y \in Range(others) : Overlap(x, y)
           ob(o) == IF crossed(o, gaps) THEN Zone(o, "ob_fvg_overlap", dir, 950)
                    ELSE Zone(o, "ob", dir, 800)
           base(g) == IF g.filled = 0 THEN 600 ELSE 400
           gap(g) == IF crossed(g, obs) THEN Zone(g, "ob_fvg_overlap", dir, base(g) + 150)
                     ELSE Zone(g, "fvg", dir, base(g))
<1>1. obs \in Seq(B) /\ gaps \in Seq(G)
  <2>1. h1.obs \in Seq(B) /\ h1.fvgs \in Seq(G)
    BY DEF Charts
  <2> HIDE DEF B, G
  <2> QED
    BY <2>1, Chosen
<1>2. Candidates(h1, dir) = [i \in DOMAIN obs |-> ob(obs[i])] \o [i \in DOMAIN gaps |-> gap(gaps[i])]
  BY DEF Candidates
<1> HIDE DEF obs, gaps, crossed
<1>3. ASSUME NEW o \in B PROVE ob(o) \in Z
  <2>1. o.hi \in Int /\ o.lo \in Int
    OBVIOUS
  <2>2. 950 \in Int /\ 800 \in Int /\ "ob_fvg_overlap" \in ZoneTypes /\ "ob" \in ZoneTypes
    BY DEF ZoneTypes
  <2>3. Zone(o, "ob_fvg_overlap", dir, 950) \in Z
    BY <2>1, <2>2, ZoneTyped
  <2>4. Zone(o, "ob", dir, 800) \in Z
    BY <2>1, <2>2, ZoneTyped
  <2> QED
    BY <2>3, <2>4
<1>4. ASSUME NEW g \in G PROVE gap(g) \in Z
  <2>1. g.hi \in Int /\ g.lo \in Int /\ base(g) \in Int /\ base(g) + 150 \in Int
    OBVIOUS
  <2> HIDE DEF base
  <2>2. "ob_fvg_overlap" \in ZoneTypes /\ "fvg" \in ZoneTypes
    BY DEF ZoneTypes
  <2>3. Zone(g, "ob_fvg_overlap", dir, base(g) + 150) \in Z
    BY <2>1, <2>2, ZoneTyped
  <2>4. Zone(g, "fvg", dir, base(g)) \in Z
    BY <2>1, <2>2, ZoneTyped
  <2> QED
    BY <2>3, <2>4
<1> HIDE DEF ob, gap, B, G, Z
<1>5. [i \in DOMAIN obs |-> ob(obs[i])] \in Seq(Z) /\ [i \in DOMAIN gaps |-> gap(gaps[i])] \in Seq(Z)
  BY <1>1, <1>3, <1>4
<1>6. Candidates(h1, dir) \in Seq(Z)
  BY <1>2, <1>5
<1>7. \A z \in Z : z.conf \in Int
  BY DEF Z, ZoneSet
<1>8. Deduplicate(Candidates(h1, dir)) \in Seq(Z)
  <2>1. Descending(Candidates(h1, dir), LAMBDA x : x.conf) \in Seq(Z)
    BY <1>6, <1>7, Sorted
  <2> QED
    BY <2>1, KeptApart DEF Deduplicate
<1>9. <<>> \in Seq(Z)
  OBVIOUS
<1> QED
  BY <1>8, <1>9, Firsts DEF ScanZones, ScanZonesV2, Z

-----------------------------------------------------------------------------
\* Entries.

LEMMA Nearest ==
  ASSUME NEW S \in SUBSET Int, S # {}, NEW price \in Int
  PROVE  /\ (\A p \in S : p > price) => Min(S) \in Int
         /\ (\A p \in S : p < price) => Max(S) \in Int
<1>1. ASSUME \A p \in S : p > price PROVE Min(S) \in Int
  <2> DEFINE T == {p - price : p \in S}
  <2>0. \A p \in S : p - price \in Nat
    BY <1>1
  <2>1. T \subseteq Nat /\ T # {}
    BY <2>0
  <2>2. \A t \in T : \E p \in S : t = p - price
    OBVIOUS
  <2>3. \A p \in S : p - price \in T
    OBVIOUS
  <2> HIDE DEF T
  <2>4. PICK m \in T : \A t \in T : m <= t
    BY <2>1, SmallestNat
  <2>5. PICK q \in S : m = q - price
    BY <2>2
  <2>6. \A p \in S : q <= p
    <3> TAKE p \in S
    <3>1. m <= p - price
      BY <2>3, <2>4
    <3> QED
      BY <2>5, <3>1
  <2> QED
    BY <2>6 DEF Min
<1>2. ASSUME \A p \in S : p < price PROVE Max(S) \in Int
  <2> DEFINE T == {price - p : p \in S}
  <2>0. \A p \in S : price - p \in Nat
    BY <1>2
  <2>1. T \subseteq Nat /\ T # {}
    BY <2>0
  <2>2. \A t \in T : \E p \in S : t = price - p
    OBVIOUS
  <2>3. \A p \in S : price - p \in T
    OBVIOUS
  <2> HIDE DEF T
  <2>4. PICK m \in T : \A t \in T : m <= t
    BY <2>1, SmallestNat
  <2>5. PICK q \in S : m = price - q
    BY <2>2
  <2>6. \A p \in S : q >= p
    <3> TAKE p \in S
    <3>1. m <= price - p
      BY <2>3, <2>4
    <3> QED
      BY <2>5, <3>1
  <2> QED
    BY <2>6 DEF Max
<1> QED
  BY <1>1, <1>2

LEMMA LiquidityTyped ==
  ASSUME NEW m15 \in Charts, NEW dir, NEW price \in Int
  PROVE  NextLiquidity(m15, dir, price) \subseteq Int
<1> DEFINE op == {l.price : l \in {x \in m15.levels : ~x.swept}}
           ahead == {p \in op : IF dir = "long" THEN p > price ELSE p < price}
<1>1. \A l \in m15.levels : l.price \in Int
  BY DEF Charts
<1>2. ahead \in SUBSET Int
  BY <1>1
<1>3. dir = "long" => \A p \in ahead : p > price
  OBVIOUS
<1>4. dir # "long" => \A p \in ahead : p < price
  OBVIOUS
<1>5. NextLiquidity(m15, dir, price) =
        IF ahead = {} THEN {} ELSE {IF dir = "long" THEN Min(ahead) ELSE Max(ahead)}
  BY DEF NextLiquidity
<1> HIDE DEF ahead
<1> QED
  BY <1>2, <1>3, <1>4, <1>5, Nearest

EntriesAt(dir, price, sl, triggers) ==
  {e \in EntrySet(triggers) : e.dir = dir /\ e.price = price /\ e.sl = sl}

LEMMA EntryTyped ==
  ASSUME NEW m15 \in Charts, NEW dir \in Sides, NEW price \in Int, NEW sl \in Int,
         NEW rr \in Int, NEW rr2 \in Int, NEW triggers, NEW trigger \in triggers,
         NEW grade \in {"A", "B", "C"}, NEW inverted \in BOOLEAN,
         NEW X, X = Entry(m15, dir, price, sl, rr, rr2, trigger, grade, inverted)
  PROVE  IsFiniteSet(X) /\ X \subseteq EntriesAt(dir, price, sl, triggers)
<1> DEFINE risk == Abs(price - sl)
           liq  == NextLiquidity(m15, dir, price)
           t1 == Ahead(dir, price, (risk * rr) \div 10)
           t2 == IF liq # {} THEN CHOOSE p \in liq : TRUE ELSE Ahead(dir, price, (risk * rr2) \div 10)
           e0 == [price |-> price, sl |-> sl, tp1 |-> t1, tp2 |-> t2, rr |-> rr, dir |-> dir,
                  trigger |-> trigger, grade |-> grade, inverted |-> inverted]
<1>1. liq \subseteq Int
  BY LiquidityTyped
<1>2. risk \in Int
  BY DEF Abs
<1> HIDE DEF liq, risk
<1>3. risk * rr \in Int /\ risk * rr2 \in Int
  BY <1>2
<1>4. t1 \in Int /\ Ahead(dir, price, (risk * rr2) \div 10) \in Int
  BY <1>3 DEF Ahead
<1>5. t2 \in Int
  BY <1>1, <1>4
<1>6. X = IF risk = 0 THEN {} ELSE {e0}
  BY DEF Entry, risk, liq
<1> HIDE DEF t1, t2
<1>7. e0 \in EntrySet(triggers)
  BY <1>4, <1>5 DEF EntrySet
<1>8. IsFiniteSet({}) /\ IsFiniteSet({e0})
  BY FS_EmptySet, FS_Singleton
<1> QED
  BY <1>6, <1>7, <1>8 DEF EntriesAt

TriggersV1 == {"choch_in_zone", "fvg_fill_in_zone", "ob_test_rejection", "bos_in_zone"}
TriggersV2 == {"fvg_fill_in_zone", "bos_in_zone", "choch_in_zone", "ob_breakout",
               "choch_continuation", "fvg_sweep_continuation"}

\* Between a stop and its zone there is at least the least buffer.
LEMMA StopTyped ==
  ASSUME NEW zone \in ZoneSet, NEW atr \in Nat, NEW mult \in Int
  PROVE  /\ ComputeSl(zone, atr, mult) \in Int
         /\ IF zone.dir = "long" THEN ComputeSl(zone, atr, mult) <= zone.lo - MinBuffer
            ELSE ComputeSl(zone, atr, mult) >= zone.hi + MinBuffer
         /\ \A inverted : ComputeSlV2(zone, atr, mult, inverted) \in Int
<1>1. zone.hi \in Int /\ zone.lo \in Int
  BY DEF ZoneSet
<1>2. SlBuffer(atr, mult) \in Int /\ SlBuffer(atr, mult) >= MinBuffer
  <2>1. mult * atr \in Int
    OBVIOUS
  <2>2. (mult * atr) \div 100 \in Int /\ MinBuffer \in Int
    BY <2>1, MinBufferAssumption DEF MinBufferAssumption
  <2> QED
    BY <2>2 DEF SlBuffer, Most
<1>3. MinBuffer \in Int
  BY MinBufferAssumption DEF MinBufferAssumption
<1> QED
  BY <1>1, <1>2, <1>3 DEF ComputeSl, ComputeSlV2

\* Where a quarter of the zone is less than the least buffer, the stop is on the losing side.
StopRight(z, e) ==
  z.hi - z.lo < 4 * MinBuffer => IF e.dir = "long" THEN e.sl < e.price ELSE e.sl > e.price

LEMMA EntriesTyped ==
  ASSUME NEW m15 \in Charts, NEW zone \in ZoneSet, NEW price \in Int, NEW atr \in Nat,
         NEW obTest, NEW mult \in Int, NEW rr \in Int,
         NEW X, X = CheckEntry(m15, zone, price, atr, obTest, mult, rr)
  PROVE  /\ IsFiniteSet(X)
         /\ \A e \in X : /\ e \in EntrySet(TriggersV1) /\ e.dir = zone.dir
                         /\ StopRight(zone, e)
<1> DEFINE sl == ComputeSl(zone, atr, mult)
           at(t) == Entry(m15, zone.dir, price, sl, rr, 40, t, GradeEntry(t, zone, rr), FALSE)
           found == Trigger(m15, zone, price, obTest)
<1>1. sl \in Int /\ zone.dir \in Sides /\ 40 \in Int
  BY StopTyped DEF ZoneSet
<1>2. ASSUME NEW t \in TriggersV1
      PROVE  /\ IsFiniteSet(at(t))
             /\ \A e \in at(t) : e \in EntrySet(TriggersV1) /\ e.dir = zone.dir /\ e.sl = sl /\ e.price = price
  <2> DEFINE grade == GradeEntry(t, zone, rr)
             rr2 == 40
             inv == FALSE
             dir == zone.dir
  <2>1. grade \in {"A", "B", "C"} /\ rr2 \in Int /\ inv \in BOOLEAN /\ dir \in Sides
    BY <1>1 DEF GradeEntry, Grade
  <2>2. at(t) = Entry(m15, dir, price, sl, rr, rr2, t, grade, inv)
    OBVIOUS
  <2> HIDE DEF sl, grade, rr2, inv, dir, at
  <2>3. IsFiniteSet(at(t)) /\ at(t) \subseteq EntriesAt(dir, price, sl, TriggersV1)
    BY <1>1, <2>1, <2>2, EntryTyped
  <2> QED
    BY <2>3 DEF dir, EntriesAt
<1>3. found = {} \/ \E t \in TriggersV1 : found = {t}
  BY DEF Trigger, TriggersV1
<1>4. X = IF ~Near(zone, price, 1) THEN {} ELSE UNION {at(t) : t \in found}
  BY DEF CheckEntry
<1>5. ASSUME NEW e, e.dir = zone.dir, e.sl = sl, e.price = price, Near(zone, price, 1)
      PROVE  StopRight(zone, e)
  <2> DEFINE hi == zone.hi
             lo == zone.lo
  <2>1. hi \in Int /\ lo \in Int
    BY DEF ZoneSet
  <2>2. 4 * lo - (hi - lo) <= 4 * price /\ 4 * price <= 4 * hi + (hi - lo)
    BY <1>5, <2>1 DEF Near
  <2>3. IF zone.dir = "long" THEN sl <= lo - MinBuffer ELSE sl >= hi + MinBuffer
    BY StopTyped
  <2>4. MinBuffer \in Int
    BY MinBufferAssumption DEF MinBufferAssumption
  <2> HIDE DEF hi, lo, sl
  <2>5. hi - lo < 4 * MinBuffer => IF zone.dir = "long" THEN sl < price ELSE sl > price
    BY <1>1, <2>1, <2>2, <2>3, <2>4
  <2> QED
    BY <1>5, <2>5 DEF StopRight, hi, lo
<1> HIDE DEF at, found
<1>6. CASE ~Near(zone, price, 1) \/ found = {}
  <2>1. X = {}
    BY <1>4, <1>6
  <2> QED
    BY <2>1, FS_EmptySet
<1>7. CASE Near(zone, price, 1) /\ found # {}
  <2>1. PICK t \in TriggersV1 : X = at(t)
    BY <1>3, <1>4, <1>7
  <2> QED
    BY <1>2, <1>5, <1>7, <2>1
<1> QED
  BY <1>6, <1>7

LEMMA EntriesV2Typed ==
  ASSUME NEW m15 \in Charts, NEW zone \in ZoneSet, NEW price \in Int, NEW atr \in Nat, NEW regime,
         NEW X, X = CheckEntryV2(m15, zone, price, atr, regime)
  PROVE  /\ IsFiniteSet(X)
         /\ \A e \in X : e \in EntrySet(TriggersV2)
<1> DEFINE at(t) ==
             LET inv == Inverted(t)
                 rr  == IF inv THEN 20 ELSE 25
             IN  Entry(m15, IF inv THEN Opposite(zone.dir) ELSE zone.dir, price,
                       ComputeSlV2(zone, atr, IF inv THEN 100 ELSE 75, inv),
                       rr, IF inv THEN 30 ELSE 40, t, GradeEntryV2(t, zone, rr, inv), inv)
           found == TriggerV2(m15, zone, price, regime)
<1>1. ASSUME NEW t \in TriggersV2
      PROVE  IsFiniteSet(at(t)) /\ \A e \in at(t) : e \in EntrySet(TriggersV2)
  <2> DEFINE inv == Inverted(t)
             rr  == IF inv THEN 20 ELSE 25
             rr2 == IF inv THEN 30 ELSE 40
             mult == IF inv THEN 100 ELSE 75
             dir == IF inv THEN Opposite(zone.dir) ELSE zone.dir
             sl == ComputeSlV2(zone, atr, mult, inv)
             grade == GradeEntryV2(t, zone, rr, inv)
  <2>1. grade \in {"A", "B", "C"}
    BY DEF GradeEntryV2, Grade
  <2>2. dir \in Sides
    BY DEF ZoneSet, Opposite, Sides
  <2>3. inv \in BOOLEAN
    BY DEF Inverted
  <2>4. rr \in Int /\ rr2 \in Int /\ mult \in Int
    OBVIOUS
  <2> HIDE DEF inv, rr, rr2, mult
  <2>5. sl \in Int
    BY <2>4, StopTyped
  <2>6. at(t) = Entry(m15, dir, price, sl, rr, rr2, t, grade, inv)
    BY DEF inv, rr, rr2, mult
  <2> HIDE DEF sl, dir, grade, at
  <2> QED
    BY <2>1, <2>2, <2>3, <2>4, <2>5, <2>6, EntryTyped DEF EntriesAt
<1>2. found = {} \/ \E t \in TriggersV2 : found = {t}
  BY DEF TriggerV2, TriggersV2
<1>3. X = IF ~Near(zone, price, 4) THEN {} ELSE UNION {at(t) : t \in found}
  BY DEF CheckEntryV2
<1> HIDE DEF at, found
<1>4. CASE ~Near(zone, price, 4) \/ found = {}
  <2>1. X = {}
    BY <1>3, <1>4
  <2> QED
    BY <2>1, FS_EmptySet
<1>5. CASE Near(zone, price, 4) /\ found # {}
  <2>1. PICK t \in TriggersV2 : X = at(t)
    BY <1>2, <1>3, <1>5
  <2> QED
    BY <1>1, <2>1
<1> QED
  BY <1>4, <1>5

-----------------------------------------------------------------------------
\* Setups.
Verdicts == {"direction_regime_coherence", "sl_floor_noise_band", "sl_ceiling_signal_to_noise",
             "tp_reachability_low_vol", "ath_proximity_short_guard",
             "confluence_x_confidence_floor", "transition_quality_guard", "accept", ""}
SetupSet == [entry : EntrySet(TriggersV1 \cup TriggersV2), zone : ZoneSet, conf : Int,
             bias : BiasDirs, verdict : Verdicts]
Setups(agg) ==
  {s \in SetupSet : agg # "v2" /\ s.entry.trigger # "fvg_sweep_continuation"
                    => StopRight(s.zone, s.entry)}
SetupsV1 == {s \in Setups("v1") : s.entry.trigger \in TriggersV1}

LEMMA ScoreParts ==
  ASSUME NEW zone \in ZoneSet, NEW triggers, NEW e \in EntrySet(triggers)
  PROVE  /\ ZoneQuality(zone) \in Int /\ GradeScore(e.grade) \in Int /\ RrScore(e.rr) \in Int
         /\ ModeBonus(e) \in Int
         /\ triggers \subseteq TriggersV1 \cup {"fvg_sweep_continuation"} => TriggerScore(e) \in Int
         /\ triggers \subseteq TriggersV2 => TriggerScoreV2(e) \in Int
<1>1. zone.conf \in Int /\ e.grade \in {"A", "B", "C"} /\ e.trigger \in triggers
  BY DEF ZoneSet, EntrySet
<1>2. TypeScore(zone.type) \in Int
  BY DEF TypeScore
<1>3. ZoneQuality(zone) \in Int
  BY <1>1, <1>2 DEF ZoneQuality
<1> DEFINE g == GradeScore(e.grade)
<1>4. g \in Int /\ RrScore(e.rr) \in Int /\ ModeBonus(e) \in Int
  BY <1>1 DEF GradeScore, RrScore, ModeBonus
<1> HIDE DEF g
<1>5. \A t \in Int : (6 * t + 4 * g) \div 10 \in Int
  BY <1>4
<1>6. ASSUME triggers \subseteq TriggersV1 \cup {"fvg_sweep_continuation"} PROVE TriggerScore(e) \in Int
  <2> DEFINE t == CASE e.trigger = "choch_in_zone" -> 900
                    [] e.trigger = "fvg_fill_in_zone" -> 700
                    [] e.trigger = "bos_in_zone" -> 550
                    [] e.trigger = "ob_test_rejection" -> 500
                    [] e.trigger = "fvg_sweep_continuation" -> 600
  <2>1. t \in Int
    BY <1>1, <1>6 DEF TriggersV1
  <2>2. TriggerScore(e) = (6 * t + 4 * g) \div 10
    BY DEF TriggerScore, g
  <2> HIDE DEF t
  <2> QED
    BY <1>5, <2>1, <2>2
<1>7. ASSUME triggers \subseteq TriggersV2 PROVE TriggerScoreV2(e) \in Int
  <2> DEFINE t == CASE e.trigger = "choch_in_zone" -> 900
                    [] e.trigger = "choch_continuation" -> 750
                    [] e.trigger = "fvg_fill_in_zone" -> 700
                    [] e.trigger = "ob_breakout" -> 650
                    [] e.trigger = "fvg_sweep_continuation" -> 600
                    [] e.trigger = "bos_in_zone" -> 550
  <2>1. t \in Int
    BY <1>1, <1>7 DEF TriggersV2
  <2>2. TriggerScoreV2(e) = (6 * t + 4 * g) \div 10
    BY DEF TriggerScoreV2, g
  <2> HIDE DEF t
  <2> QED
    BY <1>5, <2>1, <2>2
<1> QED
  BY <1>3, <1>4, <1>6, <1>7 DEF g

LEMMA UnitTyped == \A x \in Int : Unit(x) \in Int
BY DEF Unit, Clamp, Least, Most

LEMMA ConfTyped ==
  ASSUME NEW bias, bias.conf \in Int, NEW zone \in ZoneSet, NEW macro \in Int,
         NEW e \in EntrySet(TriggersV1 \cup {"fvg_sweep_continuation"})
  PROVE  ScoreConfluence(bias, zone, e, macro) \in Int
<1> DEFINE b == IF bias.dir = "neutral" THEN 0 ELSE bias.conf
           q == ZoneQuality(zone)
           t == TriggerScore(e)
           r == RrScore(e.rr)
           l == LiquidityScore(bias, e)
           raw == Round(25 * b + 25 * q + 25 * t + 15 * r + 10 * l, 100)
           lean == CASE bias.dir = "bullish" -> macro [] bias.dir = "bearish" -> -macro
                     [] OTHER -> 0
<1>1. b \in Int /\ q \in Int /\ t \in Int /\ r \in Int
  BY ScoreParts
<1>2. l \in Int
  BY DEF LiquidityScore, Unit, Clamp, Least, Most
<1>3. lean \in Int
  OBVIOUS
<1>4. ScoreConfluence(bias, zone, e, macro) = Unit(raw + lean)
  BY DEF ScoreConfluence
<1> HIDE DEF b, q, t, r, l, lean
<1>5. raw \in Int
  BY <1>1, <1>2 DEF Round
<1> HIDE DEF raw
<1>6. raw + lean \in Int
  BY <1>3, <1>5
<1> QED
  BY <1>4, <1>6, UnitTyped

LEMMA ConfV2Typed ==
  ASSUME NEW aiConf \in Int, NEW zone \in ZoneSet, NEW e \in EntrySet(TriggersV2)
  PROVE  ScoreConfluenceV2(aiConf, zone, e) \in Int
<1> DEFINE a == AiScore(aiConf, e.inverted)
           q == ZoneQuality(zone)
           t == TriggerScoreV2(e)
           r == RrScore(e.rr)
           m == ModeBonus(e)
           raw == Round(30 * a + 20 * q + 25 * t + 10 * r + 15 * m, 100)
<1>1. q \in Int /\ t \in Int /\ r \in Int /\ m \in Int
  BY ScoreParts
<1>2. a \in Int
  <2>1. Unit(aiConf) \in Int /\ Abs(aiConf - 400) \in Int
    BY UnitTyped DEF Abs
  <2> QED
    BY <2>1 DEF AiScore
<1>3. ScoreConfluenceV2(aiConf, zone, e) = Unit(raw)
  BY DEF ScoreConfluenceV2
<1> HIDE DEF a, q, t, r, m
<1>4. raw \in Int
  BY <1>1, <1>2 DEF Round
<1> HIDE DEF raw
<1> QED
  BY <1>3, <1>4, UnitTyped

LEMMA JudgeTyped ==
  ASSUME NEW e, NEW regime, NEW conf
  PROVE  JudgeSlFitness(e, regime, conf) \in Verdicts
<1> DEFINE against == CASE regime.label = "TREND_DOWN" -> "long"
                        [] regime.label = "TREND_UP" -> "short"
                        [] OTHER -> "none"
           risk == Abs(e.price - e.sl)
<1> HIDE DEF against, risk
<1> QED
  BY DEF JudgeSlFitness, against, risk, Verdicts

LEMMA ZonesV1OnSide ==
  ASSUME NEW market \in Views, NEW bias, bias.dir \in BiasDirs
  PROVE  ZonesV1(market, bias) \in Seq({z \in ZoneSet : z.dir = Side(bias.dir)})
<1> DEFINE Z == {z \in ZoneSet : z.dir = Side(bias.dir)}
           Y == [hi : Int, lo : Int, type : SyntheticTypes, dir : {"long", "short"}, conf : Int]
           keep == {i \in DOMAIN market.synthetic : market.synthetic[i].dir = Side(bias.dir)}
           more == Only(market.synthetic, keep)
<1>1. market.h1 \in Charts /\ market.synthetic \in Seq(Y)
  BY DEF Views
<1>2. ScanZones(market.h1, bias.dir) \in Seq(Z)
  BY <1>1, ZonesOnSide
<1>3. more \in Seq(Y) /\ \A k \in DOMAIN more : \E i \in keep : more[k] = market.synthetic[i]
  <2>1. keep \in SUBSET DOMAIN market.synthetic
    OBVIOUS
  <2> HIDE DEF Y, keep
  <2> QED
    BY <1>1, <2>1, Chosen
<1>4. \A y \in Y : y.dir = Side(bias.dir) => y \in Z
  BY DEF ZoneSet, ZoneTypes, Sides
<1>5. more \in Seq(Z)
  <2> HIDE DEF more, Y, Z
  <2>1. \A k \in DOMAIN more : more[k] \in Y /\ more[k].dir = Side(bias.dir)
    BY <1>3, Elements
  <2>2. Len(more) \in Nat /\ DOMAIN more = 1 .. Len(more) /\ more = [k \in DOMAIN more |-> more[k]]
    BY <1>3
  <2>3. \A k \in 1 .. Len(more) : more[k] \in Z
    BY <1>4, <2>1, <2>2
  <2> QED
    BY <2>2, <2>3
<1> HIDE DEF more, Z
<1>6. ScanZones(market.h1, bias.dir) \o more \in Seq(Z)
  BY <1>2, <1>5
<1>7. ZonesV1(market, bias) \in {ScanZones(market.h1, bias.dir), ScanZones(market.h1, bias.dir) \o more}
  BY DEF ZonesV1, more
<1>8. ZonesV1(market, bias) \in Seq(Z)
  BY <1>2, <1>6, <1>7
<1> QED
  BY <1>8 DEF Z

LEMMA RouteTyped ==
  ASSUME NEW label \in Labels
  PROVE  Route(label).mult \in Int /\ Route(label).rr \in Int /\ Route(label).max \in Nat
<1>1. Route("TREND_UP").mult = 75 /\ Route("TREND_UP").rr = 30 /\ Route("TREND_UP").max = 3
  BY DEF Route
<1>2. Route("TREND_DOWN").mult = 75 /\ Route("TREND_DOWN").rr = 30 /\ Route("TREND_DOWN").max = 3
  BY DEF Route
<1>3. Route("CONSOLIDATION").mult = 60 /\ Route("CONSOLIDATION").rr = 20 /\ Route("CONSOLIDATION").max = 3
  BY DEF Route
<1>4. Route("TRANSITION").mult = 75 /\ Route("TRANSITION").rr = 25 /\ Route("TRANSITION").max = 3
  BY DEF Route
<1>5. Route("ATH_BREAKOUT").mult = 90 /\ Route("ATH_BREAKOUT").rr = 35 /\ Route("ATH_BREAKOUT").max = 3
  BY DEF Route
<1> QED
  BY <1>1, <1>2, <1>3, <1>4, <1>5 DEF Labels

\* The setups of one zone.
LEMMA ZoneTried ==
  ASSUME NEW market \in Views, NEW bias, bias = Bias(market),
         NEW price \in Int, NEW at, NEW cooling, NEW held, NEW setups \in Seq(SetupsV1),
         NEW zone \in ZoneSet, zone.dir = Side(bias.dir)
  PROVE  TryZone(market, bias, Route(market.regime.label), price, at, cooling, held, setups, zone)
         \in Seq(SetupsV1)
<1> DEFINE preset == Route(market.regime.label)
           floor == Most(EffectiveThreshold(bias.tier), preset.floor)
           all == CheckEntry(market.m15, zone, price, market.atr,
                             "ob_test_rejection" \in preset.triggers, preset.mult, preset.rr)
           entries == {e \in all : e.trigger \in preset.triggers}
           scored(e) == LET c == ScoreConfluence(bias, zone, e, MacroBias)
                        IN  Setup(e, zone, c, bias.dir, JudgeSlFitness(e, market.regime, c))
           kept == {s \in {scored(e) : e \in entries} : s.conf >= floor}
<1>1. /\ market.m15 \in Charts /\ market.atr \in Nat /\ market.regime.label \in Labels
      /\ bias.dir \in BiasDirs /\ bias.conf \in Int /\ MacroBias \in Int
  BY BiasTyped, AggregatorAssumption DEF Views, AggregatorAssumption
<1>2. preset.mult \in Int /\ preset.rr \in Int
  BY <1>1, RouteTyped
<1>3. /\ IsFiniteSet(all)
      /\ \A e \in all : e \in EntrySet(TriggersV1) /\ e.dir = zone.dir /\ StopRight(zone, e)
  <2> DEFINE mult == preset.mult
             rr == preset.rr
             obTest == "ob_test_rejection" \in preset.triggers
             m15 == market.m15
             atr == market.atr
  <2>1. mult \in Int /\ rr \in Int /\ m15 \in Charts /\ atr \in Nat
    BY <1>1, <1>2
  <2> HIDE DEF mult, rr, obTest, m15, atr
  <2>2. all = CheckEntry(m15, zone, price, atr, obTest, mult, rr)
    BY DEF mult, rr, obTest, m15, atr
  <2> HIDE DEF all
  <2> QED
    BY <2>1, <2>2, EntriesTyped
<1>4. TryZone(market, bias, preset, price, at, cooling, held, setups, zone)
      \in {setups, setups \o SetToSeq(kept)}
  BY DEF TryZone
<1>5. ASSUME NEW e \in all PROVE scored(e) \in SetupsV1
  <2> DEFINE c == ScoreConfluence(bias, zone, e, MacroBias)
             v == JudgeSlFitness(e, market.regime, c)
  <2>1. e \in EntrySet(TriggersV1) /\ e.dir = zone.dir /\ StopRight(zone, e)
    BY <1>3, <1>5
  <2>2. /\ e \in EntrySet(TriggersV1 \cup {"fvg_sweep_continuation"})
        /\ e \in EntrySet(TriggersV1 \cup TriggersV2) /\ e.trigger \in TriggersV1
    BY <2>1 DEF EntrySet
  <2>3. c \in Int
    BY <1>1, <2>2, ConfTyped
  <2>4. v \in Verdicts
    BY JudgeTyped
  <2>5. scored(e) = [entry |-> e, zone |-> zone, conf |-> c, bias |-> bias.dir, verdict |-> v]
    BY DEF Setup
  <2> HIDE DEF c, v
  <2> QED
    BY <1>1, <2>1, <2>2, <2>3, <2>4, <2>5 DEF SetupsV1, Setups, SetupSet
<1> HIDE DEF scored, all, floor
<1>6. IsFiniteSet(entries) /\ entries \subseteq all
  BY <1>3, FS_Subset
<1> HIDE DEF entries
<1>7. IsFiniteSet({scored(e) : e \in entries})
  <2> DEFINE f == [e \in entries |-> scored(e)]
  <2>1. f \in Surjection(entries, {scored(e) : e \in entries})
    BY DEF Surjection
  <2> HIDE DEF f
  <2> QED
    BY <1>6, <2>1, FS_Surjection
<1>8. kept \in SUBSET SetupsV1 /\ IsFiniteSet(kept)
  BY <1>5, <1>6, <1>7, FS_Subset
<1> HIDE DEF kept
<1>9. SetToSeq(kept) \in Seq(SetupsV1)
  BY <1>8, SomeOrder
<1>10. setups \o SetToSeq(kept) \in Seq(SetupsV1)
  BY <1>9
<1> QED
  BY <1>4, <1>10

\* Version 1: every setup has its stop on the losing side.
LEMMA MadeV1 ==
  ASSUME NEW market \in Views, NEW price \in Int, NEW at, NEW cooling, NEW held,
         NEW bias, bias = Bias(market), NEW zones, zones = ZonesV1(market, bias),
         NEW preset, preset = Route(market.regime.label)
  PROVE  GenerateSetups(market, bias, zones, preset, price, at, cooling, held) \in Seq(SetupsV1)
<1>0. CASE StageReject(market, bias, zones) # "none"
  BY <1>0 DEF GenerateSetups
<1> SUFFICES ASSUME StageReject(market, bias, zones) = "none"
             PROVE  GenerateSetups(market, bias, zones, preset, price, at, cooling, held) \in Seq(SetupsV1)
  BY <1>0
<1> DEFINE n == Len(zones)
           Z == {z \in ZoneSet : z.dir = Side(bias.dir)}
           Q == Seq(SetupsV1)
           try(acc, z) == TryZone(market, bias, preset, price, at, cooling, held, acc, z)
           step == [p \in Q \X Z |-> try(p[1], p[2])]
           Next(it, X) == IF X = {} THEN <<>> ELSE try(it[X \ {Max(X)}], zones[Max(X)])
           it == CHOOSE it : it = [X \in SUBSET (1 .. n) |-> Next(it, X)]
<1>1. n \in Nat /\ DOMAIN zones = 1 .. n /\ \A i \in 1 .. n : zones[i] \in Z
  <2>1. zones \in Seq(Z)
    BY BiasTyped, ZonesV1OnSide
  <2> HIDE DEF Z
  <2> QED
    BY <2>1, Elements
<1>2. FoldLeft(try, <<>>, zones) = it[1 .. n]
  BY <1>1 DEF FoldLeft, MapThenFoldSet
<1>3. \A q \in Q, z \in Z : try(q, z) \in Q
  BY ZoneTried
<1>4. <<>> \in Q
  OBVIOUS
<1> HIDE DEF n, Q, Z, try
<1>5. step \in [Q \X Z -> Q] /\ \A q \in Q, z \in Z : step[<<q, z>>] = try(q, z)
  BY <1>3
<1> HIDE DEF step
<1>6. PICK h : IsFold(h, n, Q, <<>>, step, zones)
  BY <1>1, <1>4, <1>5, FoldExists
<1>7. h = [X \in SUBSET (1 .. n) |-> Next(h, X)]
  <2>1. ASSUME NEW X \in SUBSET (1 .. n) PROVE h[X] = Next(h, X)
    <3>1. CASE X # {}
      <4>1. X \ {Max(X)} \in SUBSET (1 .. n) /\ Max(X) \in 1 .. n
        BY <1>1, <3>1, LastPlace
      <4>2. h[X \ {Max(X)}] \in Q /\ zones[Max(X)] \in Z
        BY <1>1, <1>6, <4>1 DEF IsFold
      <4> QED
        BY <1>5, <1>6, <3>1, <4>2 DEF IsFold
    <3>2. CASE X = {}
      BY <1>6, <3>2 DEF IsFold
    <3> QED
      BY <3>1, <3>2
  <2> QED
    BY <1>6, <2>1 DEF IsFold
<1>8. it = [X \in SUBSET (1 .. n) |-> Next(it, X)]
  <2> HIDE DEF Next
  <2> QED
    BY <1>7
<1> HIDE DEF it
<1>9. Iterates(it, n, Q, <<>>, step, zones)
  <2>1. {} \in SUBSET (1 .. n)
    OBVIOUS
  <2>2. ASSUME NEW X \in SUBSET (1 .. n), X # {}, it[X \ {Max(X)}] \in Q
        PROVE  it[X] = step[<<it[X \ {Max(X)}], zones[Max(X)]>>]
    <3>1. Max(X) \in 1 .. n
      BY <1>1, <2>2, LastPlace
    <3> QED
      BY <1>1, <1>5, <1>8, <2>2, <3>1
  <2> QED
    BY <1>8, <2>1, <2>2 DEF Iterates
<1>10. PICK r : IsRun(r, it, n, Q, <<>>, step, zones)
  BY <1>1, <1>4, <1>5, <1>9, FoldPlaces
<1>11. FoldLeft(try, <<>>, zones) \in Seq(SetupsV1)
  BY <1>1, <1>2, <1>10 DEF IsRun, Q
<1>12. GenerateSetups(market, bias, zones, preset, price, at, cooling, held)
       = FirstOf(ByConfluence(FoldLeft(try, <<>>, zones)), preset.max)
  BY DEF GenerateSetups, try
<1> HIDE DEF try
<1>13. ByConfluence(FoldLeft(try, <<>>, zones)) \in Seq(SetupsV1)
  <2>1. \A s \in SetupsV1 : s.conf \in Int
    BY DEF SetupsV1, Setups, SetupSet
  <2> QED
    BY <1>11, <2>1, Sorted DEF ByConfluence
<1>14. preset.max \in Nat
  BY RouteTyped DEF Views
<1> QED
  BY <1>12, <1>13, <1>14, Firsts

\* Version 1.1: a setup turned round keeps its distance from the stop.
LEMMA Flipped ==
  ASSUME NEW s \in SetupsV1, s.entry.dir = "short"
  PROVE  FlipSetup(s) \in SetupsV1
<1> DEFINE e == s.entry
           z == s.zone
           far == Abs(e.sl - e.price)
           a == e.price - far
           b == e.price + Abs(e.price - e.tp1)
           c == e.price + Abs(e.price - e.tp2)
           e1 == [e EXCEPT !.dir = "long", !.sl = a, !.tp1 = b, !.tp2 = c]
           z1 == [hi |-> z.hi, lo |-> z.lo, type |-> z.type, dir |-> "long", conf |-> z.conf]
           s1 == [entry |-> e1, zone |-> z1, conf |-> s.conf, bias |-> s.bias, verdict |-> s.verdict]
<1>1. /\ s = [entry |-> e, zone |-> z, conf |-> s.conf, bias |-> s.bias, verdict |-> s.verdict]
      /\ e \in EntrySet(TriggersV1 \cup TriggersV2) /\ z \in ZoneSet /\ s.conf \in Int
      /\ s.bias \in BiasDirs /\ s.verdict \in Verdicts
      /\ e.trigger \in TriggersV1 /\ StopRight(z, e)
  BY DEF SetupsV1, Setups, SetupSet, TriggersV1
<1>3. z = [hi |-> z.hi, lo |-> z.lo, type |-> z.type, dir |-> z.dir, conf |-> z.conf]
  BY <1>1 DEF ZoneSet
<1>4. /\ e.price \in Int /\ e.sl \in Int /\ e.tp1 \in Int /\ e.tp2 \in Int
      /\ far \in Int /\ far >= 0 /\ (e.sl # e.price => far > 0)
  BY <1>1 DEF EntrySet, Abs
<1>5. FlipSetup(s) = s1
  <2>2. [z EXCEPT !.dir = "long"] = z1
    <3> HIDE DEF z
    <3> QED
      BY <1>3
  <2>3. FlipSetup(s) = [s EXCEPT !.zone = [z EXCEPT !.dir = "long"], !.entry = e1]
    BY DEF FlipSetup
  <2> HIDE DEF e, z, e1, z1
  <2> QED
    BY <1>1, <2>2, <2>3
<1>6. /\ e1 \in EntrySet(TriggersV1 \cup TriggersV2)
      /\ e1.sl = a /\ e1.dir = "long" /\ e1.price = e.price /\ e1.trigger = e.trigger
  <2>1. Abs(e.price - e.tp1) \in Int /\ Abs(e.price - e.tp2) \in Int
    BY <1>4 DEF Abs
  <2> HIDE DEF far
  <2> DEFINE d == "long"
  <2>2. a \in Int /\ b \in Int /\ c \in Int /\ d \in Sides
    BY <1>4, <2>1 DEF Sides
  <2>3. e1 = [e EXCEPT !.dir = d, !.sl = a, !.tp1 = b, !.tp2 = c]
    OBVIOUS
  <2> HIDE DEF a, b, c, d, e, e1
  <2> DEFINE T == TriggersV1 \cup TriggersV2
  <2>4. e \in EntrySet(T)
    BY <1>1
  <2> HIDE DEF T
  <2>5. e1 \in EntrySet(T)
    BY <2>2, <2>3, <2>4 DEF EntrySet
  <2>6. e1.sl = a /\ e1.dir = d /\ e1.price = e.price /\ e1.trigger = e.trigger
    BY <2>3, <2>4 DEF EntrySet
  <2> QED
    BY <2>5, <2>6 DEF d, T
<1>7. z1 \in ZoneSet
  BY <1>1 DEF ZoneSet, Sides
<1>8. StopRight(z1, e1)
  <2>1. z.hi - z.lo < 4 * MinBuffer => e.sl > e.price
    BY <1>1 DEF StopRight
  <2>2. z1.hi = z.hi /\ z1.lo = z.lo
    OBVIOUS
  <2>3. e.sl > e.price => a < e.price
    BY <1>4
  <2> HIDE DEF a, z, z1, e1, e
  <2> QED
    BY <1>6, <2>1, <2>2, <2>3 DEF StopRight
<1>9. e1.trigger \in TriggersV1
  BY <1>1, <1>6
<1> HIDE DEF e1, z1
<1> QED
  BY <1>1, <1>5, <1>6, <1>7, <1>8, <1>9 DEF SetupsV1, Setups, SetupSet

LEMMA MadeV11 ==
  ASSUME NEW market, NEW v1 \in Seq(SetupsV1)
  PROVE  GenerateSetupsV11(market, v1) \in Seq(SetupsV1)
<1> DEFINE flips(s) == /\ market.volatility # "trending"
                       /\ s.entry.trigger = "fvg_fill_in_zone" /\ s.entry.dir = "short"
<1>1. GenerateSetupsV11(market, v1) = [i \in DOMAIN v1 |-> IF flips(v1[i]) THEN FlipSetup(v1[i]) ELSE v1[i]]
  BY DEF GenerateSetupsV11
<1>2. \A i \in DOMAIN v1 : (IF flips(v1[i]) THEN FlipSetup(v1[i]) ELSE v1[i]) \in SetupsV1
  <2> TAKE i \in DOMAIN v1
  <2>1. v1[i] \in SetupsV1
    OBVIOUS
  <2>2. flips(v1[i]) => FlipSetup(v1[i]) \in SetupsV1
    BY <2>1, Flipped
  <2> QED
    BY <2>1, <2>2
<1> HIDE DEF flips
<1>3. DOMAIN v1 = 1 .. Len(v1) /\ Len(v1) \in Nat
  OBVIOUS
<1> QED
  BY <1>1, <1>2, <1>3

\* Version 3: what it adds are sweeps, which neither the judge nor the direction filter sees.
LEMMA MadeV3 ==
  ASSUME NEW market \in Views, NEW price \in Int, NEW at, NEW cooling, NEW held,
         NEW bias, bias = Bias(market), NEW preset, preset = Route(market.regime.label),
         NEW v1 \in Seq(SetupsV1)
  PROVE  GenerateSetupsV3(preset, v1, CheckFvgSweeps(market, bias, preset, price, at, cooling, held, v1))
         \in Seq(Setups("v3"))
<1> DEFINE S == Setups("v3")
           dir == bias.dir
           floor == Most(EffectiveThreshold(bias.tier), preset.floor)
           free(z) == /\ KeyOf(z) \notin {KeyOf(s.zone) : s \in Range(v1)} \cup DOMAIN held
                      /\ ~Cooling(cooling, KeyOf(z), at)
                      /\ FvgSweep(market.m15, z, price)
           found(z) == SweepEntry(market, preset, z, price)
           scored(z) == {Setup(e, z, ScoreConfluence(bias, z, e, 0), bias.dir, "") : e \in found(z)}
           kept(z) == {s \in scored(z) : s.conf >= floor}
           zones == ScanZones(market.h1, dir)
           parts == [i \in DOMAIN zones |-> IF free(zones[i]) THEN SetToSeq(kept(zones[i])) ELSE <<>>]
           sweeps == CheckFvgSweeps(market, bias, preset, price, at, cooling, held, v1)
<1>1. /\ market.m15 \in Charts /\ market.h1 \in Charts /\ market.atr \in Nat
      /\ market.regime.label \in Labels /\ dir \in BiasDirs /\ bias.conf \in Int
  BY BiasTyped DEF Views
<1>2. preset.rr \in Int /\ preset.max \in Nat
  BY <1>1, RouteTyped
<1>3. zones \in Seq(ZoneSet)
  <2> DEFINE Z == {z \in ZoneSet : z.dir = Side(dir)}
  <2>1. zones \in Seq(Z) /\ Z \subseteq ZoneSet
    BY <1>1, ZonesOnSide
  <2> HIDE DEF Z, zones
  <2> QED
    BY <2>1
<1>4. sweeps \in {<<>>, FlattenSeq(parts)}
  BY DEF CheckFvgSweeps
<1>5. ASSUME NEW z \in ZoneSet PROVE IsFiniteSet(kept(z)) /\ kept(z) \subseteq S
  <2> DEFINE sl == ComputeSl(z, market.atr, 75)
             rr2 == 40
             t == "fvg_sweep_continuation"
             grade == GradeEntry(t, z, preset.rr)
             inv == FALSE
             T == {t}
             side == z.dir
             rr == preset.rr
  <2>1. /\ grade \in {"A", "B", "C"} /\ rr2 \in Int /\ inv \in BOOLEAN /\ t \in T /\ side \in Sides
        /\ rr \in Int
    BY <1>2 DEF GradeEntry, Grade, ZoneSet
  <2>2. sl \in Int
    <3> DEFINE m == 75
    <3>1. m \in Int
      OBVIOUS
    <3> HIDE DEF m
    <3>2. ComputeSl(z, market.atr, m) \in Int
      BY <1>1, <3>1, StopTyped
    <3> QED
      BY <3>2 DEF m
  <2>3. found(z) = Entry(market.m15, side, price, sl, rr, rr2, t, grade, inv)
    BY DEF SweepEntry
  <2> HIDE DEF sl, rr2, t, grade, inv, T, side, rr, found
  <2>4. IsFiniteSet(found(z)) /\ found(z) \subseteq EntriesAt(side, price, sl, T)
    BY <1>1, <2>1, <2>2, <2>3, EntryTyped
  <2>5. ASSUME NEW e \in found(z) PROVE Setup(e, z, ScoreConfluence(bias, z, e, 0), bias.dir, "") \in S
    <3> DEFINE c == ScoreConfluence(bias, z, e, 0)
    <3>1. /\ e \in EntrySet(TriggersV1 \cup {"fvg_sweep_continuation"})
          /\ e \in EntrySet(TriggersV1 \cup TriggersV2) /\ e.trigger = "fvg_sweep_continuation"
      BY <2>4, <2>5 DEF EntriesAt, EntrySet, T, t, TriggersV2
    <3>2. c \in Int
      <4> DEFINE macro == 0
      <4>1. macro \in Int
        OBVIOUS
      <4> HIDE DEF macro
      <4>2. ScoreConfluence(bias, z, e, macro) \in Int
        BY <1>1, <3>1, <4>1, ConfTyped
      <4> QED
        BY <4>2 DEF macro
    <3>3. "" \in Verdicts
      BY DEF Verdicts
    <3> HIDE DEF c
    <3>4. [entry |-> e, zone |-> z, conf |-> c, bias |-> bias.dir, verdict |-> ""] \in S
      BY <1>1, <3>1, <3>2, <3>3 DEF Setups, SetupSet
    <3> QED
      BY <3>4 DEF Setup, c
  <2>6. IsFiniteSet(scored(z))
    <3> DEFINE f == [e \in found(z) |-> Setup(e, z, ScoreConfluence(bias, z, e, 0), bias.dir, "")]
    <3>1. f \in Surjection(found(z), scored(z))
      BY DEF Surjection
    <3> HIDE DEF f, scored
    <3> QED
      BY <2>4, <3>1, FS_Surjection
  <2>7. scored(z) \subseteq S
    <3> HIDE DEF S
    <3> QED
      BY <2>5
  <2> HIDE DEF scored, S, floor
  <2> QED
    BY <2>6, <2>7, FS_Subset
<1> HIDE DEF kept, free, S, zones
<1>6. \A i \in DOMAIN zones : (IF free(zones[i]) THEN SetToSeq(kept(zones[i])) ELSE <<>>) \in Seq(S)
  <2> TAKE i \in DOMAIN zones
  <2>1. zones[i] \in ZoneSet
    BY <1>3
  <2>2. SetToSeq(kept(zones[i])) \in Seq(S)
    BY <1>5, <2>1, SomeOrder
  <2> QED
    BY <2>2
<1>7. parts \in Seq(Seq(S))
  <2>1. DOMAIN zones = 1 .. Len(zones) /\ Len(zones) \in Nat
    BY <1>3
  <2> QED
    BY <1>6, <2>1
<1> HIDE DEF parts, sweeps
<1>8. sweeps \in Seq(S)
  <2>1. FlattenSeq(parts) \in Seq(S)
    BY <1>7, Flattened
  <2>2. <<>> \in Seq(S)
    OBVIOUS
  <2> QED
    BY <1>4, <2>1, <2>2
<1>9. v1 \in Seq(S) /\ \A s \in S : s.conf \in Int
  <2>1. SetupsV1 \subseteq S
    BY DEF S, SetupsV1, Setups
  <2>2. \A s \in S : s.conf \in Int
    BY DEF S, Setups, SetupSet
  <2> QED
    BY <2>1, <2>2
<1>10. v1 \o sweeps \in Seq(S)
  BY <1>8, <1>9
<1>11. FirstOf(ByConfluence(v1 \o sweeps), preset.max) \in Seq(S)
  <2>1. ByConfluence(v1 \o sweeps) \in Seq(S)
    BY <1>9, <1>10, Sorted DEF ByConfluence
  <2> QED
    BY <1>2, <2>1, Firsts
<1>12. GenerateSetupsV3(preset, v1, sweeps) \in Seq(S)
  BY <1>9, <1>11 DEF GenerateSetupsV3
<1> QED
  BY <1>12 DEF S, sweeps

\* Version 2, which has no judge.
LEMMA ZonesProcessed ==
  ASSUME NEW market \in Views, NEW price \in Int, NEW at, NEW cooling, NEW held,
         NEW dir \in BiasDirs, NEW allowNormal
  PROVE  ProcessZones(market, price, at, cooling, held, ScanZonesV2(market.h1, dir), allowNormal)
         \in Seq(Setups("v2"))
<1> DEFINE S == Setups("v2")
           zones == ScanZonesV2(market.h1, dir)
           free(z) == ~Cooling(cooling, KeyOf(z), at) /\ ActiveCount(held, KeyOf(z)) < 2
           all(z) == CheckEntryV2(market.m15, z, price, market.atr, market.volatility)
           entries(z) == {e \in all(z) : allowNormal \/ e.inverted}
           made(z, e) == Setup(e, z, ScoreConfluenceV2(market.direction.conf, z, e),
                               market.direction.dir, "")
           scored(z) == {made(z, e) : e \in entries(z)}
           kept(z) == {s \in scored(z) : s.conf >= 400}
           parts == [i \in DOMAIN zones |-> IF free(zones[i]) THEN SetToSeq(kept(zones[i])) ELSE <<>>]
<1>1. /\ market.m15 \in Charts /\ market.h1 \in Charts /\ market.atr \in Nat
      /\ market.direction.conf \in Int /\ market.direction.dir \in BiasDirs
  BY DEF Views
<1>2. zones \in Seq(ZoneSet)
  <2> DEFINE Z == {z \in ZoneSet : z.dir = Side(dir)}
  <2>1. zones \in Seq(Z) /\ Z \subseteq ZoneSet
    BY <1>1, ZonesOnSide
  <2> HIDE DEF Z, zones
  <2> QED
    BY <2>1
<1>3. ProcessZones(market, price, at, cooling, held, zones, allowNormal) = FlattenSeq(parts)
  BY DEF ProcessZones
<1>4. ASSUME NEW z \in ZoneSet PROVE IsFiniteSet(kept(z)) /\ kept(z) \subseteq S
  <2>1. IsFiniteSet(all(z)) /\ \A e \in all(z) : e \in EntrySet(TriggersV2)
    <3> HIDE DEF all
    <3> QED
      BY <1>1, EntriesV2Typed DEF all
  <2> HIDE DEF all
  <2>2. IsFiniteSet(entries(z)) /\ entries(z) \subseteq all(z)
    BY <2>1, FS_Subset
  <2> HIDE DEF entries
  <2>3. ASSUME NEW e \in entries(z) PROVE made(z, e) \in S
    <3> DEFINE c == ScoreConfluenceV2(market.direction.conf, z, e)
    <3>1. e \in EntrySet(TriggersV2) /\ e \in EntrySet(TriggersV1 \cup TriggersV2)
      BY <2>1, <2>2, <2>3 DEF EntrySet
    <3>2. c \in Int
      BY <1>1, <3>1, ConfV2Typed
    <3>3. "" \in Verdicts
      BY DEF Verdicts
    <3> HIDE DEF c
    <3>4. [entry |-> e, zone |-> z, conf |-> c, bias |-> market.direction.dir, verdict |-> ""] \in S
      BY <1>1, <3>1, <3>2, <3>3 DEF Setups, SetupSet
    <3> QED
      BY <3>4 DEF Setup, c
  <2>4. IsFiniteSet(scored(z))
    <3> DEFINE f == [e \in entries(z) |-> made(z, e)]
    <3> HIDE DEF made
    <3>1. f \in Surjection(entries(z), scored(z))
      BY DEF Surjection
    <3> HIDE DEF f, scored
    <3> QED
      BY <2>2, <3>1, FS_Surjection
  <2>5. scored(z) \subseteq S
    <3> HIDE DEF S, made
    <3> QED
      BY <2>3
  <2> HIDE DEF scored, S
  <2> QED
    BY <2>4, <2>5, FS_Subset
<1> HIDE DEF kept, free, S, zones
<1>5. \A i \in DOMAIN zones : (IF free(zones[i]) THEN SetToSeq(kept(zones[i])) ELSE <<>>) \in Seq(S)
  <2> TAKE i \in DOMAIN zones
  <2>1. zones[i] \in ZoneSet
    BY <1>2
  <2>2. SetToSeq(kept(zones[i])) \in Seq(S)
    BY <1>4, <2>1, SomeOrder
  <2> QED
    BY <2>2
<1>6. parts \in Seq(Seq(S))
  <2>1. DOMAIN zones = 1 .. Len(zones) /\ Len(zones) \in Nat
    BY <1>2
  <2> QED
    BY <1>5, <2>1
<1> HIDE DEF parts
<1>7. FlattenSeq(parts) \in Seq(S)
  BY <1>6, Flattened
<1> QED
  BY <1>3, <1>7 DEF S, zones

LEMMA MadeV2 ==
  ASSUME NEW market \in Views, NEW price \in Int, NEW at, NEW cooling, NEW held
  PROVE  GenerateSetupsV2(market, price, at, cooling, held) \in Seq(Setups("v2"))
<1> DEFINE S == Setups("v2")
           dir == market.direction.dir
           scan(d, normal) == ProcessZones(market, price, at, cooling, held,
                                           ScanZonesV2(market.h1, d), normal)
           found == IF dir = "neutral" THEN scan("bullish", FALSE) \o scan("bearish", FALSE)
                    ELSE scan(dir, TRUE)
<1>1. dir \in BiasDirs /\ "bullish" \in BiasDirs /\ "bearish" \in BiasDirs
  BY DEF Views, BiasDirs
<1>2. \A d \in BiasDirs : \A normal : scan(d, normal) \in Seq(S)
  BY ZonesProcessed
<1>3. GenerateSetupsV2(market, price, at, cooling, held) \in {<<>>, FirstOf(ByConfluence(found), 5)}
  BY DEF GenerateSetupsV2
<1> HIDE DEF scan, S
<1>4. found \in Seq(S)
  <2>1. scan("bullish", FALSE) \in Seq(S) /\ scan("bearish", FALSE) \in Seq(S)
    BY <1>1, <1>2
  <2>2. scan(dir, TRUE) \in Seq(S)
    BY <1>1, <1>2
  <2>3. found \in {scan("bullish", FALSE) \o scan("bearish", FALSE), scan(dir, TRUE)}
    OBVIOUS
  <2> HIDE DEF found
  <2>4. scan("bullish", FALSE) \o scan("bearish", FALSE) \in Seq(S)
    <3> DEFINE x == scan("bullish", FALSE)
               y == scan("bearish", FALSE)
    <3>1. x \in Seq(S) /\ y \in Seq(S)
      BY <2>1
    <3> HIDE DEF x, y
    <3>2. x \o y \in Seq(S)
      BY <3>1
    <3> QED
      BY <3>2 DEF x, y
  <2> QED
    BY <2>2, <2>3, <2>4
<1> HIDE DEF found
<1>5. \A s \in S : s.conf \in Int
  BY DEF S, Setups, SetupSet
<1>6. ByConfluence(found) \in Seq(S)
  BY <1>4, <1>5, Sorted DEF ByConfluence
<1>7. FirstOf(ByConfluence(found), 5) \in Seq(S)
  <2> DEFINE m == 5
  <2>1. m \in Nat
    OBVIOUS
  <2> HIDE DEF m
  <2>2. FirstOf(ByConfluence(found), m) \in Seq(S)
    BY <1>6, <2>1, Firsts
  <2> QED
    BY <2>2 DEF m
<1>8. <<>> \in Seq(S)
  OBVIOUS
<1> QED
  BY <1>3, <1>7, <1>8 DEF S

\* What a script's aggregator makes of a market.
LEMMA Made ==
  ASSUME NEW version \in {"v1", "v11", "v2", "v3"}, NEW market \in Views, NEW price \in Int,
         NEW at, NEW cooling, NEW held
  PROVE  Generate(version, market, price, at, cooling, held) \in Seq(Setups(version))
<1> DEFINE bias == Bias(market)
           preset == Route(market.regime.label)
           zones == ZonesV1(market, bias)
           v1 == GenerateSetups(market, bias, zones, preset, price, at, cooling, held)
<1>1. v1 \in Seq(SetupsV1)
  BY MadeV1
<1>2. Generate(version, market, price, at, cooling, held)
      = GenerateFrom(version, market, bias, preset, v1, price, at, cooling, held)
  BY DEF Generate, GenerateWith
<1> HIDE DEF v1
<1>3. SetupsV1 \subseteq Setups("v1") /\ SetupsV1 \subseteq Setups("v11")
  BY DEF SetupsV1, Setups
<1>4. v1 \in Seq(Setups("v1"))
  BY <1>1, <1>3
<1>5. GenerateSetupsV11(market, v1) \in Seq(Setups("v11"))
  <2>1. GenerateSetupsV11(market, v1) \in Seq(SetupsV1)
    BY <1>1, MadeV11
  <2> QED
    BY <1>3, <2>1
<1>6. GenerateSetupsV3(preset, v1, CheckFvgSweeps(market, bias, preset, price, at, cooling, held, v1))
      \in Seq(Setups("v3"))
  BY <1>1, MadeV3
<1>7. GenerateSetupsV2(market, price, at, cooling, held) \in Seq(Setups("v2"))
  BY MadeV2
<1> HIDE DEF bias, preset
<1> QED
  BY <1>2, <1>4, <1>5, <1>6, <1>7 DEF GenerateFrom

-----------------------------------------------------------------------------
\* The books of the engine.
PosSet == [dir : Sides, fill : Int, sl : Int, tp1 : Int, tp2 : Int, hi : Int, lo : Int, at : 1 .. N,
           signal : Int, trigger : TriggersV1 \cup TriggersV2]
TradeSet == [pos : PosSet, at : 1 .. N, price : Int, reason : {"sl", "tp1", "tp2"}]
Keys == Int \X Int \X Sides
Tables == UNION {[D -> Int] : D \in SUBSET Keys}
BookSet == [open : Seq(PosSet), closed : Seq(TradeSet), balance : Int, cool : Tables, active : Tables]
BarSet == [open : Int, high : Int, low : Int, close : Int]
KeyAtPos(p) == <<p.hi, p.lo, p.dir>>

Profit(trades) == SumOver(trades, LAMBDA t : Pnl(t.pos, t.price))
CountKey(s, key) == CountIf(s, LAMBDA p : <<p.hi, p.lo, p.dir>> = key)

LEMMA PnlTyped == \A p \in PosSet, x \in Int : Pnl(p, x) \in Int
BY DEF PosSet, Pnl

\* The profit of trades, from the first to the last.
LEMMA ProfitRun ==
  ASSUME NEW s \in Seq(TradeSet)
  PROVE  \E r \in [0 .. Len(s) -> Int] :
           /\ r[0] = 0 /\ Profit(s) = r[Len(s)]
           /\ \A k \in 1 .. Len(s) : r[k] = r[k - 1] + Pnl(s[k].pos, s[k].price)
<1> DEFINE n == Len(s)
           T == TradeSet
           Q == Int
           add(x, t) == x + Pnl(t.pos, t.price)
           step == [p \in Q \X T |-> add(p[1], p[2])]
           Next(it, X) == IF X = {} THEN 0 ELSE add(it[X \ {Max(X)}], s[Max(X)])
           it == CHOOSE it : it = [X \in SUBSET (1 .. n) |-> Next(it, X)]
<1>1. n \in Nat /\ DOMAIN s = 1 .. n /\ \A i \in 1 .. n : s[i] \in T
  <2> HIDE DEF T
  <2>1. s \in Seq(T)
    BY DEF T
  <2> QED
    BY <2>1, Elements
<1>2. Profit(s) = it[1 .. n]
  BY <1>1 DEF Profit, SumOver, FoldLeft, MapThenFoldSet
<1>3. \A q \in Q, t \in T : add(q, t) \in Q
  <2>1. \A t \in T : Pnl(t.pos, t.price) \in Int
    BY PnlTyped DEF TradeSet
  <2> QED
    BY <2>1
<1> DEFINE zero == 0
<1>4. zero \in Q
  OBVIOUS
<1> HIDE DEF n, Q, T, add
<1>5. step \in [Q \X T -> Q] /\ \A q \in Q, t \in T : step[<<q, t>>] = add(q, t)
  BY <1>3
<1> HIDE DEF step, zero
<1>6. PICK h : IsFold(h, n, Q, zero, step, s)
  BY <1>1, <1>4, <1>5, FoldExists
<1>7. h = [X \in SUBSET (1 .. n) |-> Next(h, X)]
  <2>1. ASSUME NEW X \in SUBSET (1 .. n) PROVE h[X] = Next(h, X)
    <3>1. CASE X # {}
      <4>1. X \ {Max(X)} \in SUBSET (1 .. n) /\ Max(X) \in 1 .. n
        BY <1>1, <3>1, LastPlace
      <4>2. h[X \ {Max(X)}] \in Q /\ s[Max(X)] \in T
        BY <1>1, <1>6, <4>1 DEF IsFold
      <4> QED
        BY <1>5, <1>6, <3>1, <4>2 DEF IsFold
    <3>2. CASE X = {}
      BY <1>6, <3>2 DEF IsFold, zero
    <3> QED
      BY <3>1, <3>2
  <2> QED
    BY <1>6, <2>1 DEF IsFold
<1>8. it = [X \in SUBSET (1 .. n) |-> Next(it, X)]
  <2> HIDE DEF Next
  <2> QED
    BY <1>7
<1> HIDE DEF it
<1>9. Iterates(it, n, Q, zero, step, s)
  <2>1. {} \in SUBSET (1 .. n)
    OBVIOUS
  <2>2. ASSUME NEW X \in SUBSET (1 .. n), X # {}, it[X \ {Max(X)}] \in Q
        PROVE  it[X] = step[<<it[X \ {Max(X)}], s[Max(X)]>>]
    <3>1. Max(X) \in 1 .. n
      BY <1>1, <2>2, LastPlace
    <3> QED
      BY <1>1, <1>5, <1>8, <2>2, <3>1
  <2>3. it[{}] = zero
    BY <1>8, <2>1 DEF zero
  <2> QED
    BY <2>2, <2>3 DEF Iterates
<1>10. PICK r : IsRun(r, it, n, Q, zero, step, s)
  BY <1>1, <1>4, <1>5, <1>9, FoldPlaces
<1>11. ASSUME NEW k \in 1 .. n PROVE r[k] = r[k - 1] + Pnl(s[k].pos, s[k].price)
  <2>1. r[k - 1] \in Q /\ s[k] \in T /\ r[k] = step[<<r[k - 1], s[k]>>]
    BY <1>1, <1>10 DEF IsRun
  <2>2. r[k] = add(r[k - 1], s[k])
    BY <1>5, <2>1
  <2> QED
    BY <2>2 DEF add
<1> QED
  BY <1>2, <1>10, <1>11 DEF IsRun, Q, n, zero

LEMMA ProfitTyped == \A s \in Seq(TradeSet) : Profit(s) \in Int
<1> TAKE s \in Seq(TradeSet)
<1>1. PICK r \in [0 .. Len(s) -> Int] : Profit(s) = r[Len(s)]
  BY ProfitRun
<1> QED
  BY <1>1

LEMMA ProfitOfNone == Profit(<<>>) = 0
<1>1. <<>> \in Seq(TradeSet) /\ Len(<<>>) = 0
  OBVIOUS
<1>2. PICK r \in [0 .. Len(<<>>) -> Int] : r[0] = 0 /\ Profit(<<>>) = r[Len(<<>>)]
  BY <1>1, ProfitRun
<1> QED
  BY <1>1, <1>2

LEMMA ProfitOfMore ==
  ASSUME NEW s \in Seq(TradeSet), NEW t \in TradeSet
  PROVE  Profit(Append(s, t)) = Profit(s) + Pnl(t.pos, t.price)
<1> DEFINE n == Len(s)
           s2 == Append(s, t)
<1>1. n \in Nat /\ s2 \in Seq(TradeSet) /\ Len(s2) = n + 1 /\ s2[n + 1] = t /\ \A k \in 1 .. n : s2[k] = s[k]
  OBVIOUS
<1> HIDE DEF s2
<1>2. PICK r \in [0 .. n -> Int] :
        /\ r[0] = 0 /\ Profit(s) = r[n]
        /\ \A k \in 1 .. n : r[k] = r[k - 1] + Pnl(s[k].pos, s[k].price)
  BY ProfitRun
<1>3. PICK r2 \in [0 .. Len(s2) -> Int] :
        /\ r2[0] = 0 /\ Profit(s2) = r2[Len(s2)]
        /\ \A k \in 1 .. Len(s2) : r2[k] = r2[k - 1] + Pnl(s2[k].pos, s2[k].price)
  BY <1>1, ProfitRun
<1> HIDE DEF n
<1> DEFINE Same == {k \in Nat : k <= n => r2[k] = r[k]}
<1>4. 0 \in Same
  BY <1>2, <1>3
<1>5. ASSUME NEW k \in Nat, k \in Same PROVE k + 1 \in Same
  <2> SUFFICES ASSUME k + 1 <= n PROVE r2[k + 1] = r[k + 1]
    OBVIOUS
  <2> DEFINE j == k + 1
  <2>1. n \in Nat /\ Len(s2) = n + 1
    BY <1>1
  <2>2. j \in 1 .. n /\ j \in 1 .. Len(s2) /\ j - 1 = k /\ k <= n
    BY <2>1
  <2> HIDE DEF j
  <2>3. /\ r[j] = r[j - 1] + Pnl(s[j].pos, s[j].price)
        /\ r2[j] = r2[j - 1] + Pnl(s2[j].pos, s2[j].price)
    BY <1>2, <1>3, <2>2
  <2>4. s2[j] = s[j] /\ r2[k] = r[k]
    BY <1>1, <1>5, <2>2
  <2>5. r2[j] = r[j]
    BY <2>2, <2>3, <2>4
  <2> QED
    BY <2>5 DEF j
<1>6. r2[n] = r[n]
  <2> HIDE DEF Same
  <2>1. Nat \subseteq Same
    BY <1>4, <1>5, NatInd
  <2> QED
    BY <1>1, <2>1 DEF Same
<1>7. n + 1 \in 1 .. Len(s2) /\ (n + 1) - 1 = n
  BY <1>1
<1>8. r2[n + 1] = r2[n] + Pnl(s2[n + 1].pos, s2[n + 1].price)
  BY <1>3, <1>7
<1> QED
  BY <1>1, <1>2, <1>3, <1>6, <1>8 DEF s2

\* The trades of one zone and side among the first k of s.
Upto(s, k, key) == Cardinality({i \in 1 .. k : KeyAtPos(s[i]) = key})

LEMMA UptoMore ==
  ASSUME NEW s, NEW k \in Nat, NEW key
  PROVE  /\ Upto(s, k, key) \in Nat /\ Upto(s, 0, key) = 0
         /\ Upto(s, k + 1, key) = Upto(s, k, key) + IF KeyAtPos(s[k + 1]) = key THEN 1 ELSE 0
<1> DEFINE A == {i \in 1 .. k : KeyAtPos(s[i]) = key}
           B == {i \in 1 .. k + 1 : KeyAtPos(s[i]) = key}
<1>1. IsFiniteSet(A)
  <2>1. A \subseteq 1 .. k /\ IsFiniteSet(1 .. k)
    BY FS_Interval
  <2> HIDE DEF A
  <2> QED
    BY <2>1, FS_Subset
<1>2. Cardinality(A) \in Nat /\ k + 1 \notin A
  BY <1>1, FS_CardinalityType
<1>3. B = IF KeyAtPos(s[k + 1]) = key THEN A \cup {k + 1} ELSE A
  <2>1. \A i : i \in 1 .. k + 1 <=> i \in 1 .. k \/ i = k + 1
    OBVIOUS
  <2> QED
    BY <2>1
<1>4. {i \in 1 .. 0 : KeyAtPos(s[i]) = key} = {}
  OBVIOUS
<1> HIDE DEF A, B
<1>5. Cardinality(A \cup {k + 1}) = Cardinality(A) + 1
  BY <1>1, <1>2, FS_AddElement
<1> QED
  BY <1>2, <1>3, <1>4, <1>5, FS_EmptySet DEF Upto, A, B

LEMMA UptoGrows ==
  ASSUME NEW s, NEW n \in Nat, NEW k \in 0 .. n, NEW key
  PROVE  Upto(s, k, key) <= Upto(s, n, key)
<1> DEFINE A == {i \in 1 .. k : KeyAtPos(s[i]) = key}
           B == {i \in 1 .. n : KeyAtPos(s[i]) = key}
<1>1. A \subseteq B
  OBVIOUS
<1>2. IsFiniteSet(B)
  <2>1. B \subseteq 1 .. n /\ IsFiniteSet(1 .. n)
    BY FS_Interval
  <2> HIDE DEF B
  <2> QED
    BY <2>1, FS_Subset
<1> HIDE DEF A, B
<1>3. Cardinality(A) <= Cardinality(B)
  BY <1>1, <1>2, FS_Subset
<1> QED
  BY <1>3 DEF Upto, A, B

LEMMA KeysCounted ==
  ASSUME NEW s \in Seq(PosSet), NEW key
  PROVE  CountKey(s, key) = Upto(s, Len(s), key) /\ CountKey(s, key) \in Nat
<1>1. CountKey(s, key) = Upto(s, Len(s), key)
  <2>1. DOMAIN s = 1 .. Len(s)
    BY Elements
  <2>2. {i \in DOMAIN s : <<s[i].hi, s[i].lo, s[i].dir>> = key} = {i \in 1 .. Len(s) : KeyAtPos(s[i]) = key}
    BY <2>1 DEF KeyAtPos
  <2> QED
    BY <2>2, Zenon DEF CountKey, CountIf, Upto
<1> QED
  BY <1>1, UptoMore

LEMMA KeysOfMore ==
  ASSUME NEW s \in Seq(PosSet), NEW p \in PosSet, NEW key
  PROVE  CountKey(Append(s, p), key) = CountKey(s, key) + IF KeyAtPos(p) = key THEN 1 ELSE 0
<1> DEFINE n == Len(s)
           s2 == Append(s, p)
<1>1. n \in Nat /\ s2 \in Seq(PosSet) /\ Len(s2) = n + 1 /\ s2[n + 1] = p /\ \A k \in 1 .. n : s2[k] = s[k]
  OBVIOUS
<1> HIDE DEF s2
<1>2. CountKey(s2, key) = Upto(s2, n + 1, key) /\ CountKey(s, key) = Upto(s, n, key)
  BY <1>1, KeysCounted
<1>3. Upto(s2, n, key) = Upto(s, n, key)
  <2>1. {i \in 1 .. n : KeyAtPos(s2[i]) = key} = {i \in 1 .. n : KeyAtPos(s[i]) = key}
    BY <1>1
  <2> QED
    BY <2>1 DEF Upto
<1>4. Upto(s2, n + 1, key) = Upto(s2, n, key) + IF KeyAtPos(s2[n + 1]) = key THEN 1 ELSE 0
  <2>1. n \in Nat
    BY <1>1 DEF n
  <2> QED
    BY <2>1, UptoMore
<1> QED
  BY <1>1, <1>2, <1>3, <1>4 DEF s2

-----------------------------------------------------------------------------
\* Zones that hold trades.

LEMMA TablesGrow ==
  ASSUME NEW held \in Tables, NEW key \in Keys, NEW i \in Int, NEW d \in Int
  PROVE  /\ RecordZoneLoss(held, key, i, d) \in Tables
         /\ Mark(key, held) \in Tables /\ Clear(key, held) \in Tables
<1>1. PICK D \in SUBSET Keys : held \in [D -> Int]
  BY DEF Tables
<1>2. D \cup {key} \in SUBSET Keys /\ D \ {key} \in SUBSET Keys /\ DOMAIN held = D
  BY <1>1
<1>3. RecordZoneLoss(held, key, i, d) \in [D \cup {key} -> Int]
  BY <1>1 DEF RecordZoneLoss
<1>4. MarkZoneActive(held, key) \in [D \cup {key} -> Int] /\ MarkZoneActiveV1(held, key) \in [D \cup {key} -> Int]
  BY <1>1 DEF MarkZoneActive, MarkZoneActiveV1
<1>5. Restrict(held, DOMAIN held \ {key}) \in [D \ {key} -> Int]
  BY <1>1 DEF Restrict
<1>6. [held EXCEPT ![key] = @ - 1] \in [D -> Int] \/ key \notin D
  BY <1>1
<1>7. \A E \in SUBSET Keys : \A f \in [E -> Int] : f \in Tables
  BY DEF Tables
<1>8. ClearZoneActive(held, key) \in Tables /\ ClearZoneActiveV1(held, key) \in Tables
  BY <1>1, <1>2, <1>5, <1>6, <1>7 DEF ClearZoneActive, ClearZoneActiveV1
<1>9. MarkZoneActive(held, key) \in Tables /\ MarkZoneActiveV1(held, key) \in Tables
      /\ RecordZoneLoss(held, key, i, d) \in Tables
  BY <1>2, <1>3, <1>4, <1>7
<1> QED
  BY <1>8, <1>9 DEF Mark, Clear

\* Version 2 counts the trades of a zone: one more when one opens, one less when one closes.
LEMMA ZoneCounts ==
  ASSUME NEW held \in Tables, NEW key \in Keys, NEW k \in Keys, wiring = RunV8V2
  PROVE  /\ ActiveCount(held, k) \in Int
         /\ ActiveCount(Mark(key, held), k)
              = ActiveCount(held, k) + IF k = key THEN 1 ELSE 0
         /\ ActiveCount(held, key) >= 1 =>
              ActiveCount(Clear(key, held), k)
                = ActiveCount(held, k) - IF k = key THEN 1 ELSE 0
<1>1. PICK D \in SUBSET Keys : held \in [D -> Int]
  BY DEF Tables
<1>2. wiring.agg = "v2" /\ "open" \in wiring.calls /\ "close" \in wiring.calls
  BY DEF RunV8V2, Wiring, AllCalls
<1>3. Mark(key, held) = MarkZoneActive(held, key) /\ Clear(key, held) = ClearZoneActive(held, key)
  BY <1>2 DEF Mark, Clear
<1>4. ActiveCount(held, k) \in Int
  BY <1>1 DEF ActiveCount
<1>5. ActiveCount(MarkZoneActive(held, key), k) = ActiveCount(held, k) + IF k = key THEN 1 ELSE 0
  BY <1>1 DEF ActiveCount, MarkZoneActive
<1>6. ASSUME ActiveCount(held, key) >= 1
      PROVE  ActiveCount(ClearZoneActive(held, key), k) = ActiveCount(held, k) - IF k = key THEN 1 ELSE 0
  <2>1. key \in D
    BY <1>1, <1>6 DEF ActiveCount
  <2>2. CASE held[key] > 1
    BY <1>1, <2>1, <2>2 DEF ActiveCount, ClearZoneActive
  <2>3. CASE ~(held[key] > 1)
    <3>1. held[key] = 1
      BY <1>1, <1>6, <2>1, <2>3 DEF ActiveCount
    <3>2. ClearZoneActive(held, key) = [x \in D \ {key} |-> held[x]]
      BY <1>1, <2>3 DEF ClearZoneActive, Restrict
    <3> QED
      BY <1>1, <2>1, <3>1, <3>2 DEF ActiveCount
  <2> QED
    BY <2>2, <2>3
<1> QED
  BY <1>3, <1>4, <1>5, <1>6

-----------------------------------------------------------------------------
\* A bar of the engine.

StaysOpen(b, pos, x) ==
  x.open = Append(b.open, pos) /\ x.closed = b.closed /\ x.balance = b.balance /\ x.active = b.active
IsClosed(b, pos, t, x) ==
  /\ t.pos = pos /\ x.open = b.open /\ x.closed = Append(b.closed, t)
  /\ x.balance = b.balance + Pnl(pos, t.price) /\ x.active = Clear(KeyAtPos(pos), b.active)

\* A position is kept, or closed at one of its levels.
LEMMA ExitTyped ==
  ASSUME NEW b \in BookSet, NEW pos \in PosSet, NEW i \in 1 .. N
  PROVE  /\ ExitOrKeep(b, pos, i) \in BookSet
         /\ \/ StaysOpen(b, pos, ExitOrKeep(b, pos, i))
            \/ \E t \in TradeSet : IsClosed(b, pos, t, ExitOrKeep(b, pos, i))
<1> DEFINE x == ExitOrKeep(b, pos, i)
           exits == CheckExit(pos, bars[i])
           exit == CHOOSE e \in exits : TRUE
           t == [pos |-> pos, at |-> i, price |-> exit.price, reason |-> exit.reason]
           key == <<pos.hi, pos.lo, pos.dir>>
           rest == IF wiring.agg = "v2" THEN CooldownBarsV2 ELSE CooldownBars
           cooled == IF exit.reason = "sl" /\ "sl" \in wiring.calls
                     THEN RecordZoneLoss(b.cool, key, i, rest) ELSE b.cool
<1>1. CASE exits = {}
  <2>1. x = [b EXCEPT !.open = Append(@, pos)]
    BY <1>1 DEF ExitOrKeep
  <2>2. Append(b.open, pos) \in Seq(PosSet)
    BY DEF BookSet
  <2>3. x \in BookSet /\ x.open = Append(b.open, pos) /\ x.closed = b.closed
        /\ x.balance = b.balance /\ x.active = b.active
    BY <2>1, <2>2 DEF BookSet
  <2> QED
    BY <2>3 DEF StaysOpen
<1>2. CASE exits # {}
  <2>1. exit \in exits
    BY <1>2
  <2>2. exit.price \in {pos.sl, pos.tp1, pos.tp2} /\ exit.reason \in {"sl", "tp1", "tp2"}
    <3>1. exits \subseteq {[price |-> pos.sl, reason |-> "sl"], [price |-> pos.tp2, reason |-> "tp2"],
                           [price |-> pos.tp1, reason |-> "tp1"]}
      BY DEF CheckExit
    <3> HIDE DEF exits
    <3> QED
      BY <2>1, <3>1
  <2>3. pos.sl \in Int /\ pos.tp1 \in Int /\ pos.tp2 \in Int
    BY DEF PosSet
  <2>4. x = ClosePosition(b, pos, i, exit)
    BY <1>2 DEF ExitOrKeep
  <2> HIDE DEF exit
  <2>5. t \in TradeSet
    BY <2>2, <2>3 DEF TradeSet
  <2>6. Pnl(pos, exit.price) \in Int
    BY <2>2, <2>3, PnlTyped
  <2>7. key \in Keys /\ key = KeyAtPos(pos)
    BY DEF PosSet, Keys, KeyAtPos
  <2>8. x = [b EXCEPT !.balance = @ + Pnl(pos, exit.price), !.closed = Append(@, t),
                      !.active = Clear(key, @), !.cool = cooled]
    BY <2>4 DEF ClosePosition
  <2>9. b.closed \in Seq(TradeSet) /\ b.active \in Tables /\ b.cool \in Tables /\ b.balance \in Int
    BY DEF BookSet
  <2>10. rest \in Int
    BY AggregatorAssumption
  <2> HIDE DEF rest, t, key
  <2>11. cooled \in Tables
    <3>1. i \in Int
      BY BacktestAssumption
    <3> QED
      BY <2>7, <2>9, <2>10, <3>1, TablesGrow
  <2>12. Clear(key, b.active) \in Tables
    <3>1. 0 \in Int
      OBVIOUS
    <3> QED
      BY <2>7, <2>9, <3>1, TablesGrow
  <2> HIDE DEF cooled
  <2>13. Append(b.closed, t) \in Seq(TradeSet)
    BY <2>5, <2>9
  <2> DEFINE money == b.balance + Pnl(pos, exit.price)
             trades == Append(b.closed, t)
             held == Clear(key, b.active)
  <2>14. /\ x \in BookSet /\ x.open = b.open /\ x.closed = trades
         /\ x.balance = money /\ x.active = held
    <3>1. x = [b EXCEPT !.balance = money, !.closed = trades, !.active = held, !.cool = cooled]
      BY <2>8
    <3>2. money \in Int /\ trades \in Seq(TradeSet) /\ held \in Tables /\ cooled \in Tables
      BY <2>6, <2>9, <2>11, <2>12, <2>13
    <3> HIDE DEF x, money, trades, held
    <3> QED
      BY <3>1, <3>2 DEF BookSet
  <2>15. /\ x.open = b.open /\ x.closed = Append(b.closed, t)
         /\ x.balance = b.balance + Pnl(pos, exit.price) /\ x.active = Clear(key, b.active)
    BY <2>14
  <2>16. t.pos = pos /\ t.price = exit.price
    BY DEF t
  <2> HIDE DEF x
  <2>17. IsClosed(b, pos, t, x)
    BY <2>7, <2>15, <2>16 DEF IsClosed
  <2> QED
    BY <2>5, <2>14, <2>17 DEF x
<1> QED
  BY <1>1, <1>2

\* What the walk over the open positions has done after k of them.
ExitedSoFar(b, k, x) ==
  /\ x \in BookSet
  /\ Len(x.open) + Len(x.closed) = Len(b.closed) + k /\ Len(x.open) <= k
  /\ x.balance - Profit(x.closed) = b.balance - Profit(b.closed)
  /\ wiring = RunV8V2 => \A key \in Keys :
       ActiveCount(x.active, key) + Upto(b.open, k, key)
         = Upto(b.open, Len(b.open), key) + CountKey(x.open, key)

LEMMA ExitStep ==
  ASSUME NEW b \in BookSet, NEW k \in Nat, k + 1 <= Len(b.open), NEW i \in 1 .. N,
         NEW x, ExitedSoFar(b, k, x)
  PROVE  ExitedSoFar(b, k + 1, ExitOrKeep(x, b.open[k + 1], i))
<1> DEFINE s == b.open
           pos == s[k + 1]
           y == ExitOrKeep(x, pos, i)
           key == KeyAtPos(pos)
           n == Len(s)
           one(q) == IF q = key THEN 1 ELSE 0
<1>1. s \in Seq(PosSet) /\ n \in Nat /\ pos \in PosSet /\ x \in BookSet
  <2>1. s \in Seq(PosSet)
    BY DEF BookSet
  <2> QED
    BY <2>1, Elements DEF ExitedSoFar
<1>2. y \in BookSet
  BY <1>1, ExitTyped
<1>3. key \in Keys
  BY <1>1 DEF KeyAtPos, Keys, PosSet
<1>4. /\ x.open \in Seq(PosSet) /\ x.closed \in Seq(TradeSet) /\ x.active \in Tables /\ x.balance \in Int
      /\ b.closed \in Seq(TradeSet) /\ b.balance \in Int
  BY <1>1 DEF BookSet
<1>5. \A q : /\ Upto(s, k + 1, q) = Upto(s, k, q) + one(q)
             /\ Upto(s, k, q) \in Int /\ Upto(s, n, q) \in Int /\ Upto(s, k + 1, q) <= Upto(s, n, q)
  <2> TAKE q
  <2>1. Upto(s, k + 1, q) = Upto(s, k, q) + one(q)
    <3>1. one(q) = IF KeyAtPos(s[k + 1]) = q THEN 1 ELSE 0
      OBVIOUS
    <3> HIDE DEF s, one
    <3>2. Upto(s, k + 1, q) = Upto(s, k, q) + IF KeyAtPos(s[k + 1]) = q THEN 1 ELSE 0
      BY UptoMore
    <3> QED
      BY <3>1, <3>2
  <2>2. Upto(s, k, q) \in Int /\ Upto(s, n, q) \in Int
    BY <1>1, UptoMore
  <2>3. k + 1 \in 0 .. n
    BY <1>1
  <2>4. Upto(s, k + 1, q) <= Upto(s, n, q)
    BY <1>1, <2>3, UptoGrows
  <2> QED
    BY <2>1, <2>2, <2>4
<1>6. \A q : CountKey(x.open, q) \in Nat
  BY <1>4, KeysCounted
<1>7. Profit(x.closed) \in Int /\ Profit(b.closed) \in Int
  BY <1>4, ProfitTyped
<1>8. /\ Len(x.open) + Len(x.closed) = Len(b.closed) + k /\ Len(x.open) <= k
      /\ x.balance - Profit(x.closed) = b.balance - Profit(b.closed)
      /\ wiring = RunV8V2 => \A q \in Keys :
           ActiveCount(x.active, q) + Upto(s, k, q) = Upto(s, n, q) + CountKey(x.open, q)
  BY DEF ExitedSoFar
<1>9. Len(x.open) \in Nat /\ Len(x.closed) \in Nat /\ Len(b.closed) \in Nat
  BY <1>4
<1>10. StaysOpen(x, pos, y) \/ \E t \in TradeSet : IsClosed(x, pos, t, y)
  BY <1>1, ExitTyped
<1> HIDE DEF y
<1>11. CASE StaysOpen(x, pos, y)
  <2>1. y.open = Append(x.open, pos) /\ y.closed = x.closed /\ y.balance = x.balance /\ y.active = x.active
    BY <1>11 DEF StaysOpen
  <2>2. \A q : CountKey(y.open, q) = CountKey(x.open, q) + one(q)
    BY <1>1, <1>4, <2>1, KeysOfMore
  <2>3. Len(y.open) = Len(x.open) + 1
    BY <1>4, <2>1
  <2>4. ASSUME wiring = RunV8V2, NEW q \in Keys
        PROVE  ActiveCount(y.active, q) + Upto(s, k + 1, q) = Upto(s, n, q) + CountKey(y.open, q)
    <3>1. ActiveCount(x.active, q) \in Int
      BY <1>3, <1>4, <2>4, ZoneCounts
    <3>2. ActiveCount(x.active, q) + Upto(s, k, q) = Upto(s, n, q) + CountKey(x.open, q)
      BY <1>8, <2>4
    <3>3. one(q) \in Int /\ Upto(s, k + 1, q) = Upto(s, k, q) + one(q) /\ Upto(s, k, q) \in Int
          /\ Upto(s, n, q) \in Int
      BY <1>5
    <3>4. CountKey(y.open, q) = CountKey(x.open, q) + one(q) /\ CountKey(x.open, q) \in Int
      BY <1>6, <2>2
    <3>5. ActiveCount(y.active, q) = ActiveCount(x.active, q)
      BY <2>1
    <3> DEFINE held == ActiveCount(x.active, q)
               past == Upto(s, k, q)
               total == Upto(s, n, q)
               count == CountKey(x.open, q)
               more == one(q)
    <3>6. /\ held \in Int /\ past \in Int /\ total \in Int /\ count \in Int /\ more \in Int
          /\ held + past = total + count
      BY <3>1, <3>2, <3>3, <3>4
    <3>7. /\ ActiveCount(y.active, q) = held /\ Upto(s, k + 1, q) = past + more
          /\ CountKey(y.open, q) = count + more
      BY <3>3, <3>4, <3>5
    <3> HIDE DEF held, past, total, count, more
    <3>8. held + (past + more) = total + (count + more)
      BY <3>6
    <3> QED
      BY <3>7, <3>8 DEF total
  <2>5. Len(y.open) + Len(y.closed) = Len(b.closed) + (k + 1) /\ Len(y.open) <= k + 1
    <3> DEFINE a == Len(x.open)
               c == Len(x.closed)
               d == Len(b.closed)
               e == Len(y.open)
               f == Len(y.closed)
    <3>1. a + c = d + k /\ a <= k /\ a \in Nat /\ c \in Nat /\ d \in Nat
      BY <1>8, <1>9
    <3>2. e = a + 1 /\ f = c
      BY <1>9, <2>1, <2>3
    <3> HIDE DEF a, c, d, e, f
    <3>3. e + f = d + (k + 1) /\ e <= k + 1
      BY <3>1, <3>2
    <3> QED
      BY <3>3 DEF d, e, f
  <2>6. y.balance - Profit(y.closed) = b.balance - Profit(b.closed)
    BY <1>8, <2>1
  <2> QED
    BY <1>2, <2>4, <2>5, <2>6, Zenon DEF ExitedSoFar, s, n, y
<1>12. ASSUME NEW t \in TradeSet, IsClosed(x, pos, t, y) PROVE ExitedSoFar(b, k + 1, y)
  <2>1. /\ t.pos = pos /\ y.open = x.open /\ y.closed = Append(x.closed, t)
        /\ y.balance = x.balance + Pnl(pos, t.price) /\ y.active = Clear(key, x.active)
    BY <1>12 DEF IsClosed
  <2>2. Profit(y.closed) = Profit(x.closed) + Pnl(pos, t.price) /\ Pnl(pos, t.price) \in Int
    <3>1. t.price \in Int
      BY DEF TradeSet
    <3> QED
      BY <1>1, <1>4, <2>1, <3>1, ProfitOfMore, PnlTyped
  <2>3. Len(y.closed) = Len(x.closed) + 1
    BY <1>4, <2>1
  <2>4. y.balance - Profit(y.closed) = b.balance - Profit(b.closed)
    BY <1>4, <1>7, <1>8, <2>1, <2>2
  <2>5. ASSUME wiring = RunV8V2, NEW q \in Keys
        PROVE  ActiveCount(y.active, q) + Upto(s, k + 1, q) = Upto(s, n, q) + CountKey(y.open, q)
    <3>1. ActiveCount(x.active, q) \in Int /\ ActiveCount(x.active, key) \in Int
      BY <1>3, <1>4, <2>5, ZoneCounts
    <3>2. ActiveCount(x.active, q) + Upto(s, k, q) = Upto(s, n, q) + CountKey(x.open, q)
      BY <1>8, <2>5
    <3>3. ActiveCount(x.active, key) + Upto(s, k, key) = Upto(s, n, key) + CountKey(x.open, key)
      BY <1>3, <1>8, <2>5
    <3>4. one(key) = 1 /\ Upto(s, k + 1, key) = Upto(s, k, key) + one(key)
      BY <1>5
    <3> HIDE DEF s, n, one, key
    <3>5. ActiveCount(x.active, key) >= 1
      BY <1>5, <1>6, <3>1, <3>3, <3>4
    <3>6. ActiveCount(Clear(key, x.active), q) = ActiveCount(x.active, q) - one(q)
      BY <1>3, <1>4, <2>5, <3>5, ZoneCounts DEF one
    <3>7. one(q) \in Int /\ Upto(s, k + 1, q) = Upto(s, k, q) + one(q) /\ Upto(s, k, q) \in Int
          /\ Upto(s, n, q) \in Int
      BY <1>5 DEF one
    <3> QED
      BY <1>6, <2>1, <3>1, <3>2, <3>6, <3>7
  <2>6. Len(y.open) + Len(y.closed) = Len(b.closed) + (k + 1) /\ Len(y.open) <= k + 1
    <3> DEFINE a == Len(x.open)
               c == Len(x.closed)
               d == Len(b.closed)
               e == Len(y.open)
               f == Len(y.closed)
    <3>1. a + c = d + k /\ a <= k /\ a \in Nat /\ c \in Nat /\ d \in Nat
      BY <1>8, <1>9
    <3>2. e = a /\ f = c + 1
      BY <1>9, <2>1, <2>3
    <3> HIDE DEF a, c, d, e, f
    <3>3. e + f = d + (k + 1) /\ e <= k + 1
      BY <3>1, <3>2
    <3> QED
      BY <3>3 DEF d, e, f
  <2> QED
    BY <1>2, <2>4, <2>5, <2>6, Zenon DEF ExitedSoFar, s, n
<1> QED
  BY <1>10, <1>11, <1>12 DEF y

\* What holds of the books between two steps of the engine.
Balanced(b) ==
  /\ b.balance = InitialBalance + Profit(b.closed) - Commission * (Len(b.open) + Len(b.closed))
  /\ Len(b.open) <= MaxConcurrent
  /\ wiring = RunV8V2 => \A key \in Keys : ActiveCount(b.active, key) = CountKey(b.open, key)
Books == {b \in BookSet : Balanced(b)}

\* A fold over positions is a run of books, from place to place.
LEMMA ExitRun ==
  ASSUME NEW s \in Seq(PosSet), NEW base \in BookSet, NEW i \in 1 .. N
  PROVE  \E r \in [0 .. Len(s) -> BookSet] :
           /\ r[0] = base
           /\ FoldLeft(LAMBDA acc, pos : ExitOrKeep(acc, pos, i), base, s) = r[Len(s)]
           /\ \A k \in 1 .. Len(s) : r[k] = ExitOrKeep(r[k - 1], s[k], i)
<1> DEFINE n == Len(s)
           T == PosSet
           Q == BookSet
           add(x, p) == ExitOrKeep(x, p, i)
           step == [p \in Q \X T |-> add(p[1], p[2])]
           Next(it, X) == IF X = {} THEN base ELSE add(it[X \ {Max(X)}], s[Max(X)])
           it == CHOOSE it : it = [X \in SUBSET (1 .. n) |-> Next(it, X)]
           all == FoldLeft(LAMBDA acc, pos : ExitOrKeep(acc, pos, i), base, s)
<1>1. n \in Nat /\ DOMAIN s = 1 .. n /\ \A k \in 1 .. n : s[k] \in T
  <2> HIDE DEF T
  <2>1. s \in Seq(T)
    BY DEF T
  <2> QED
    BY <2>1, Elements
<1>2. all = it[1 .. n]
  BY <1>1 DEF FoldLeft, MapThenFoldSet
<1>3. \A q \in Q, t \in T : add(q, t) \in Q
  BY ExitTyped
<1>4. base \in Q
  OBVIOUS
<1> HIDE DEF n, Q, T, add, all
<1>5. step \in [Q \X T -> Q] /\ \A q \in Q, t \in T : step[<<q, t>>] = add(q, t)
  BY <1>3
<1> HIDE DEF step
<1>6. PICK h : IsFold(h, n, Q, base, step, s)
  BY <1>1, <1>4, <1>5, FoldExists
<1>7. h = [X \in SUBSET (1 .. n) |-> Next(h, X)]
  <2>1. ASSUME NEW X \in SUBSET (1 .. n) PROVE h[X] = Next(h, X)
    <3>1. CASE X # {}
      <4>1. X \ {Max(X)} \in SUBSET (1 .. n) /\ Max(X) \in 1 .. n
        BY <1>1, <3>1, LastPlace
      <4>2. h[X \ {Max(X)}] \in Q /\ s[Max(X)] \in T
        BY <1>1, <1>6, <4>1 DEF IsFold
      <4> QED
        BY <1>5, <1>6, <3>1, <4>2 DEF IsFold
    <3>2. CASE X = {}
      BY <1>6, <3>2 DEF IsFold
    <3> QED
      BY <3>1, <3>2
  <2> QED
    BY <1>6, <2>1 DEF IsFold
<1>8. it = [X \in SUBSET (1 .. n) |-> Next(it, X)]
  <2> HIDE DEF Next
  <2> QED
    BY <1>7
<1> HIDE DEF it
<1>9. Iterates(it, n, Q, base, step, s)
  <2>1. {} \in SUBSET (1 .. n)
    OBVIOUS
  <2>2. ASSUME NEW X \in SUBSET (1 .. n), X # {}, it[X \ {Max(X)}] \in Q
        PROVE  it[X] = step[<<it[X \ {Max(X)}], s[Max(X)]>>]
    <3>1. Max(X) \in 1 .. n
      BY <1>1, <2>2, LastPlace
    <3> QED
      BY <1>1, <1>5, <1>8, <2>2, <3>1
  <2>3. it[{}] = base
    BY <1>8, <2>1
  <2> QED
    BY <2>2, <2>3 DEF Iterates
<1>10. PICK r : IsRun(r, it, n, Q, base, step, s)
  BY <1>1, <1>4, <1>5, <1>9, FoldPlaces
<1>11. ASSUME NEW k \in 1 .. n PROVE r[k] = add(r[k - 1], s[k])
  <2>1. r[k - 1] \in Q /\ s[k] \in T /\ r[k] = step[<<r[k - 1], s[k]>>]
    BY <1>1, <1>10 DEF IsRun
  <2> QED
    BY <1>5, <2>1
<1>12. r \in [0 .. n -> Q] /\ r[0] = base /\ all = r[n]
  BY <1>2, <1>10 DEF IsRun
<1> QED
  BY <1>11, <1>12 DEF Q, n, add, all

\* Exits leave the books balanced.
LEMMA ExitsBalance ==
  ASSUME NEW b \in Books, NEW i \in 1 .. N
  PROVE  Exits(b, i) \in Books
<1> DEFINE s == b.open
           n == Len(s)
           base == [b EXCEPT !.open = <<>>]
<1>1. b \in BookSet /\ Balanced(b)
  BY DEF Books
<1>2. s \in Seq(PosSet) /\ n \in Nat
  <2>1. s \in Seq(PosSet)
    BY <1>1 DEF BookSet
  <2> QED
    BY <2>1
<1>3. base \in BookSet /\ base.open = <<>> /\ base.closed = b.closed /\ base.balance = b.balance
      /\ base.active = b.active
  <2> DEFINE none == <<>>
  <2>1. none \in Seq(PosSet) /\ base = [b EXCEPT !.open = none]
    OBVIOUS
  <2> HIDE DEF none, base
  <2>2. base \in BookSet /\ base.open = none /\ base.closed = b.closed /\ base.balance = b.balance
        /\ base.active = b.active
    BY <1>1, <2>1 DEF BookSet
  <2> QED
    BY <2>2 DEF none
<1>4. Exits(b, i) = FoldLeft(LAMBDA acc, pos : ExitOrKeep(acc, pos, i), base, s)
  BY DEF Exits
<1> HIDE DEF base
<1>5. PICK r \in [0 .. n -> BookSet] :
        /\ r[0] = base
        /\ FoldLeft(LAMBDA acc, pos : ExitOrKeep(acc, pos, i), base, s) = r[n]
        /\ \A k \in 1 .. n : r[k] = ExitOrKeep(r[k - 1], s[k], i)
  <2> HIDE DEF s
  <2> QED
    BY <1>2, <1>3, ExitRun DEF n
<1>6. Exits(b, i) = r[n]
  BY <1>4, <1>5
<1> DEFINE Good == {k \in Nat : k <= n => ExitedSoFar(b, k, r[k])}
<1>7. 0 \in Good
  <2>1. r[0] = base
    BY <1>5
  <2>2. <<>> \in Seq(PosSet) /\ Len(<<>>) = 0
    OBVIOUS
  <2>3. \A key : CountKey(<<>>, key) = 0 /\ Upto(s, 0, key) = 0
    <3> TAKE key
    <3>1. CountKey(<<>>, key) = Upto(<<>>, 0, key)
      BY <2>2, KeysCounted
    <3> QED
      BY <3>1, UptoMore
  <2>4. b.closed \in Seq(TradeSet) /\ Len(b.closed) \in Nat
    BY <1>1 DEF BookSet
  <2>5. Len(base.open) + Len(base.closed) = Len(b.closed) + 0 /\ Len(base.open) <= 0
    BY <1>3, <2>2, <2>4
  <2>6. ASSUME wiring = RunV8V2, NEW key \in Keys
        PROVE  ActiveCount(base.active, key) + Upto(s, 0, key) = Upto(s, n, key) + CountKey(base.open, key)
    <3>1. ActiveCount(b.active, key) = CountKey(s, key)
      BY <1>1, <2>6 DEF Balanced
    <3>2. CountKey(s, key) = Upto(s, n, key) /\ CountKey(s, key) \in Nat
      BY <1>2, KeysCounted
    <3>3. Upto(s, 0, key) = 0 /\ CountKey(base.open, key) = 0
      BY <1>3, <2>3
    <3>4. ActiveCount(base.active, key) = ActiveCount(b.active, key)
      BY <1>3
    <3> HIDE DEF s, n
    <3> QED
      BY <3>1, <3>2, <3>3, <3>4
  <2>7. base.balance - Profit(base.closed) = b.balance - Profit(b.closed)
    BY <1>3
  <2>8. ExitedSoFar(b, 0, base)
    BY <1>3, <2>5, <2>6, <2>7, Zenon DEF ExitedSoFar, s, n
  <2> QED
    BY <2>1, <2>8
<1>8. ASSUME NEW k \in Nat, k \in Good PROVE k + 1 \in Good
  <2> SUFFICES ASSUME k + 1 <= n PROVE ExitedSoFar(b, k + 1, r[k + 1])
    OBVIOUS
  <2>1. k + 1 \in 1 .. n /\ (k + 1) - 1 = k /\ k <= n
    BY <1>2
  <2>2. ExitedSoFar(b, k, r[k])
    BY <1>8, <2>1
  <2>3. r[k + 1] = ExitOrKeep(r[k], s[k + 1], i)
    BY <1>5, <2>1
  <2>4. k + 1 <= Len(b.open)
    BY DEF n, s
  <2>5. ExitedSoFar(b, k + 1, ExitOrKeep(r[k], b.open[k + 1], i))
    BY <1>1, <2>2, <2>4, ExitStep
  <2> QED
    BY <2>3, <2>5 DEF s
<1>9. ExitedSoFar(b, n, r[n])
  <2> HIDE DEF Good
  <2>1. Nat \subseteq Good
    BY <1>7, <1>8, NatInd
  <2> QED
    BY <1>2, <2>1 DEF Good
<1> DEFINE x == r[n]
<1>10. /\ x \in BookSet
       /\ Len(x.open) + Len(x.closed) = Len(b.closed) + n /\ Len(x.open) <= n
       /\ x.balance - Profit(x.closed) = b.balance - Profit(b.closed)
       /\ wiring = RunV8V2 => \A key \in Keys :
            ActiveCount(x.active, key) + Upto(s, n, key) = Upto(s, n, key) + CountKey(x.open, key)
  BY <1>9 DEF ExitedSoFar
<1>11. /\ x.open \in Seq(PosSet) /\ x.closed \in Seq(TradeSet) /\ x.active \in Tables /\ x.balance \in Int
       /\ b.closed \in Seq(TradeSet) /\ b.balance \in Int
  BY <1>1, <1>10 DEF BookSet
<1> HIDE DEF x
<1>12. Len(x.open) \in Nat /\ Len(x.closed) \in Nat /\ Len(b.closed) \in Nat
       /\ Profit(x.closed) \in Int /\ Profit(b.closed) \in Int
  BY <1>11, ProfitTyped
<1>13. Len(x.open) <= MaxConcurrent
  <2>1. n <= MaxConcurrent /\ MaxConcurrent \in Int
    BY <1>1, BacktestAssumption DEF Balanced
  <2> HIDE DEF n
  <2> QED
    BY <1>2, <1>10, <1>12, <2>1
<1>14. x.balance = InitialBalance + Profit(x.closed) - Commission * (Len(x.open) + Len(x.closed))
  <2> DEFINE many == Len(x.open) + Len(x.closed)
  <2>1. many = n + Len(b.closed)
    <3> DEFINE d == Len(b.closed)
    <3>1. many = d + n
      BY <1>10, Zenon
    <3>2. d \in Int
      BY <1>12
    <3>3. n \in Int
      BY <1>2
    <3> HIDE DEF many, d, n
    <3>4. many = n + d
      BY <3>1, <3>2, <3>3
    <3> QED
      BY <3>4 DEF d
  <2>2. b.balance = InitialBalance + Profit(b.closed) - Commission * many
    BY <1>1, <2>1 DEF Balanced
  <2>3. Commission * many \in Int
    <3>1. many \in Int /\ Commission \in Int
      BY <1>12, BacktestAssumption
    <3> HIDE DEF many
    <3> QED
      BY <3>1
  <2>4. InitialBalance \in Int
    BY BacktestAssumption
  <2> DEFINE fees == Commission * many
  <2> HIDE DEF fees
  <2>5. b.balance = InitialBalance + Profit(b.closed) - fees /\ fees \in Int
    BY <2>2, <2>3 DEF fees
  <2>6. x.balance = InitialBalance + Profit(x.closed) - fees
    <3> DEFINE xb == x.balance
               bb == b.balance
               xp == Profit(x.closed)
               bp == Profit(b.closed)
    <3>1. xb - xp = bb - bp /\ bb = InitialBalance + bp - fees /\ xb \in Int /\ bb \in Int /\ xp \in Int /\ bp \in Int
      BY <1>10, <1>11, <1>12, <2>5
    <3> HIDE DEF xb, bb, xp, bp
    <3>2. xb = InitialBalance + xp - fees
      BY <2>4, <2>5, <3>1
    <3> QED
      BY <3>2 DEF xb, xp
  <2> QED
    BY <2>6 DEF fees
<1>15. ASSUME wiring = RunV8V2, NEW key \in Keys
       PROVE  ActiveCount(x.active, key) = CountKey(x.open, key)
  <2>1. ActiveCount(x.active, key) \in Int
    BY <1>11, <1>15, ZoneCounts
  <2>2. CountKey(x.open, key) \in Int
    BY <1>11, KeysCounted
  <2>3. Upto(s, n, key) \in Int
    BY <1>2, UptoMore
  <2>4. ActiveCount(x.active, key) + Upto(s, n, key) = Upto(s, n, key) + CountKey(x.open, key)
    BY <1>10, <1>15
  <2> HIDE DEF s, n
  <2> QED
    BY <2>1, <2>2, <2>3, <2>4
<1>16. Balanced(x)
  BY <1>13, <1>14, <1>15, Zenon DEF Balanced
<1> QED
  BY <1>6, <1>10, <1>16 DEF Books, x

\* A signal is passed over, or opens a trade that its commission is paid for.
LEMMA EntryStep ==
  ASSUME NEW b \in Books, NEW agg, NEW s \in Setups(agg), NEW i \in 1 .. N,
         bars \in [1 .. N -> BarSet]
  PROVE  EnterOrPass(b, s, i) \in Books
<1> DEFINE x == EnterOrPass(b, s, i)
           fills == SimulateFill(s.entry.dir, bars[i])
           fill == CHOOSE f \in fills : TRUE
           e == s.entry
           pos == [dir |-> e.dir, fill |-> fill, sl |-> e.sl, tp1 |-> e.tp1, tp2 |-> e.tp2,
                   hi |-> s.zone.hi, lo |-> s.zone.lo, at |-> i, signal |-> e.price,
                   trigger |-> e.trigger]
           key == KeyAtPos(pos)
           one(q) == IF q = key THEN 1 ELSE 0
<1>1. CASE Len(b.open) >= MaxConcurrent \/ fills = {}
  <2>1. x = b
    BY <1>1 DEF EnterOrPass
  <2> QED
    BY <2>1
<1>2. CASE ~(Len(b.open) >= MaxConcurrent \/ fills = {})
  <2>1. fill \in fills /\ ~(Len(b.open) >= MaxConcurrent)
    BY <1>2
  <2>2. fill \in Int
    <3>1. bars[i] \in BarSet /\ Spread \in Int /\ Slippage \in Int
      BY BacktestAssumption
    <3>2. fills \subseteq Int
      BY <3>1 DEF SimulateFill, BarSet
    <3> HIDE DEF fills
    <3> QED
      BY <2>1, <3>2
  <2>3. x = OpenPosition(b, s, i, fill)
    BY <1>2 DEF EnterOrPass
  <2> HIDE DEF fill
  <2>4. pos \in PosSet
    <3>1. s \in SetupSet
      BY DEF Setups
    <3>2. e \in EntrySet(TriggersV1 \cup TriggersV2) /\ s.zone \in ZoneSet
      BY <3>1 DEF SetupSet
    <3>3. /\ e.dir \in Sides /\ e.sl \in Int /\ e.tp1 \in Int /\ e.tp2 \in Int /\ e.price \in Int
          /\ e.trigger \in TriggersV1 \cup TriggersV2 /\ s.zone.hi \in Int /\ s.zone.lo \in Int
      BY <3>2 DEF EntrySet, ZoneSet
    <3> HIDE DEF e
    <3> QED
      BY <2>2, <3>3 DEF PosSet
  <2>5. key = <<pos.hi, pos.lo, pos.dir>> /\ key \in Keys
    BY <2>4 DEF KeyAtPos, Keys, PosSet
  <2>6. x = [b EXCEPT !.balance = @ - Commission, !.open = Append(@, pos), !.active = Mark(key, @)]
    BY <2>3, <2>5 DEF OpenPosition
  <2> HIDE DEF pos, key
  <2>7. b \in BookSet /\ Balanced(b)
    BY DEF Books
  <2>8. /\ b.open \in Seq(PosSet) /\ b.closed \in Seq(TradeSet) /\ b.active \in Tables /\ b.balance \in Int
    BY <2>7 DEF BookSet
  <2>9. Commission \in Int /\ InitialBalance \in Int /\ MaxConcurrent \in Int
    BY BacktestAssumption
  <2> DEFINE money == b.balance - Commission
             more == Append(b.open, pos)
             held == Mark(key, b.active)
  <2>10. money \in Int /\ more \in Seq(PosSet) /\ held \in Tables
    <3>1. held \in Tables
      <4>1. 0 \in Int
        OBVIOUS
      <4> QED
        BY <2>5, <2>8, <4>1, TablesGrow
    <3> QED
      BY <2>4, <2>8, <2>9, <3>1
  <2>11. /\ x \in BookSet /\ x.open = more /\ x.closed = b.closed
         /\ x.balance = money /\ x.active = held
    <3>1. x = [b EXCEPT !.balance = money, !.open = more, !.active = held]
      BY <2>6
    <3> HIDE DEF x, money, more, held
    <3> QED
      BY <2>7, <2>10, <3>1 DEF BookSet
  <2>12. Len(more) = Len(b.open) + 1 /\ Len(b.open) \in Nat /\ Len(b.closed) \in Nat
    BY <2>4, <2>8
  <2>13. Len(more) <= MaxConcurrent
    <3> DEFINE m == Len(b.open)
    <3>1. ~(m >= MaxConcurrent) /\ m \in Int /\ Len(more) = m + 1
      BY <2>1, <2>12
    <3> HIDE DEF m, more
    <3> QED
      BY <2>9, <3>1
  <2>14. money = InitialBalance + Profit(b.closed) - Commission * (Len(more) + Len(b.closed))
    <3> DEFINE many == Len(b.open) + Len(b.closed)
               more2 == Len(more) + Len(b.closed)
               made == Profit(b.closed)
               bb == b.balance
    <3>1. many \in Int /\ more2 = many + 1 /\ made \in Int /\ bb \in Int
      <4>1. made \in Int
        BY <2>8, ProfitTyped
      <4>2. more2 = many + 1
        <5> DEFINE a == Len(b.open)
                   c == Len(b.closed)
                   d == Len(more)
        <5>1. a \in Int /\ c \in Int /\ d = a + 1
          BY <2>12
        <5> HIDE DEF a, c, d
        <5>2. d + c = a + c + 1
          BY <5>1
        <5> QED
          BY <5>2 DEF a, c, d
      <4>3. many \in Int
        BY <2>12
      <4> QED
        BY <2>8, <4>1, <4>2, <4>3
    <3>2. bb = InitialBalance + made - Commission * many
      BY <2>7 DEF Balanced
    <3>3. money = bb - Commission
      OBVIOUS
    <3> HIDE DEF many, more2, made, bb, money
    <3>4. Commission * more2 = Commission * many + Commission /\ Commission * many \in Int
      BY <2>9, <3>1
    <3>5. money = InitialBalance + made - Commission * more2
      <4> DEFINE fees == Commission * many
                 fees2 == Commission * more2
      <4>1. fees2 = fees + Commission /\ fees \in Int /\ bb = InitialBalance + made - fees
        BY <3>2, <3>4
      <4> HIDE DEF fees, fees2
      <4>2. money = InitialBalance + made - fees2
        BY <2>9, <3>1, <3>3, <4>1
      <4> QED
        BY <4>2 DEF fees2
    <3> QED
      BY <3>5 DEF more2, made
  <2>15. ASSUME wiring = RunV8V2, NEW q \in Keys
         PROVE  ActiveCount(held, q) = CountKey(more, q)
    <3>1. ActiveCount(held, q) = ActiveCount(b.active, q) + one(q)
      BY <2>5, <2>8, <2>15, ZoneCounts
    <3>2. CountKey(more, q) = CountKey(b.open, q) + one(q)
      BY <2>4, <2>8, KeysOfMore DEF key
    <3>3. ActiveCount(b.active, q) = CountKey(b.open, q)
      BY <2>7, <2>15 DEF Balanced
    <3> HIDE DEF one, more, held
    <3> QED
      BY <3>1, <3>2, <3>3
  <2> HIDE DEF x, money, more, held
  <2>16. Balanced(x)
    <3>1. /\ x.balance = InitialBalance + Profit(x.closed) - Commission * (Len(x.open) + Len(x.closed))
          /\ Len(x.open) <= MaxConcurrent
      BY <2>11, <2>13, <2>14
    <3>2. wiring = RunV8V2 => \A q \in Keys : ActiveCount(x.active, q) = CountKey(x.open, q)
      BY <2>11, <2>15
    <3> QED
      BY <3>1, <3>2, Zenon DEF Balanced
  <2> QED
    BY <2>11, <2>16 DEF Books, x
<1> QED
  BY <1>1, <1>2

\* Entries leave the books balanced.
LEMMA EntriesBalance ==
  ASSUME NEW b \in Books, NEW agg, NEW i \in 1 .. N, setupsByBar[i] \in Seq(Setups(agg)),
         bars \in [1 .. N -> BarSet]
  PROVE  Entries(b, i) \in Books
<1> DEFINE s == setupsByBar[i]
           n == Len(s)
           T == Setups(agg)
           Q == Books
           add(x, p) == EnterOrPass(x, p, i)
           step == [p \in Q \X T |-> add(p[1], p[2])]
           Next(it, X) == IF X = {} THEN b ELSE add(it[X \ {Max(X)}], s[Max(X)])
           it == CHOOSE it : it = [X \in SUBSET (1 .. n) |-> Next(it, X)]
           all == FoldLeft(LAMBDA acc, p : EnterOrPass(acc, p, i), b, s)
<1>1. n \in Nat /\ DOMAIN s = 1 .. n /\ \A k \in 1 .. n : s[k] \in T
  <2> HIDE DEF T, s
  <2>1. s \in Seq(T)
    BY DEF T, s
  <2> QED
    BY <2>1, Elements
<1>2. all = it[1 .. n] /\ Entries(b, i) = all
  BY <1>1 DEF FoldLeft, MapThenFoldSet, Entries
<1>3. \A q \in Q, t \in T : add(q, t) \in Q
  BY EntryStep
<1>4. b \in Q
  OBVIOUS
<1> HIDE DEF n, Q, T, add, all, s
<1>5. step \in [Q \X T -> Q] /\ \A q \in Q, t \in T : step[<<q, t>>] = add(q, t)
  BY <1>3
<1> HIDE DEF step
<1>6. PICK h : IsFold(h, n, Q, b, step, s)
  BY <1>1, <1>4, <1>5, FoldExists
<1>7. h = [X \in SUBSET (1 .. n) |-> Next(h, X)]
  <2>1. ASSUME NEW X \in SUBSET (1 .. n) PROVE h[X] = Next(h, X)
    <3>1. CASE X # {}
      <4>1. X \ {Max(X)} \in SUBSET (1 .. n) /\ Max(X) \in 1 .. n
        BY <1>1, <3>1, LastPlace
      <4>2. h[X \ {Max(X)}] \in Q /\ s[Max(X)] \in T
        BY <1>1, <1>6, <4>1 DEF IsFold
      <4> QED
        BY <1>5, <1>6, <3>1, <4>2 DEF IsFold
    <3>2. CASE X = {}
      BY <1>6, <3>2 DEF IsFold
    <3> QED
      BY <3>1, <3>2
  <2> QED
    BY <1>6, <2>1 DEF IsFold
<1>8. it = [X \in SUBSET (1 .. n) |-> Next(it, X)]
  <2> HIDE DEF Next
  <2> QED
    BY <1>7
<1> HIDE DEF it
<1>9. Iterates(it, n, Q, b, step, s)
  <2>1. {} \in SUBSET (1 .. n)
    OBVIOUS
  <2>2. ASSUME NEW X \in SUBSET (1 .. n), X # {}, it[X \ {Max(X)}] \in Q
        PROVE  it[X] = step[<<it[X \ {Max(X)}], s[Max(X)]>>]
    <3>1. Max(X) \in 1 .. n
      BY <1>1, <2>2, LastPlace
    <3> QED
      BY <1>1, <1>5, <1>8, <2>2, <3>1
  <2>3. it[{}] = b
    BY <1>8, <2>1
  <2> QED
    BY <2>2, <2>3 DEF Iterates
<1>10. PICK r : IsRun(r, it, n, Q, b, step, s)
  BY <1>1, <1>4, <1>5, <1>9, FoldPlaces
<1> QED
  BY <1>1, <1>2, <1>10 DEF IsRun, Q

-----------------------------------------------------------------------------
\* The inductive invariant of a backtest.

BackInv ==
  /\ wiring \in AllRuns /\ bars \in [1 .. N -> BarSet] /\ next \in Nat \ {0}
  /\ setupsByBar \in [1 .. N -> Seq(Setups(wiring.agg))]
  /\ Book \in Books

LEMMA WiringTyped ==
  \A w \in AllRuns : /\ w.agg \in {"v1", "v11", "v2", "v3"} /\ w.legacy \in BOOLEAN
                     /\ w.agg = "v2" => w = RunV8V2
<1>1. \A agg, legacy, calls : Wiring(agg, legacy, calls).agg = agg /\ Wiring(agg, legacy, calls).legacy = legacy
  BY DEF Wiring
<1>2. \A w \in AllRuns :
        \/ \E legacy \in BOOLEAN : \E calls : w = Wiring("v1", legacy, calls)
        \/ w = RunV8V2
        \/ \E legacy \in BOOLEAN : \E calls :
             w = Wiring("v11", legacy, calls) \/ w = Wiring("v3", legacy, calls)
  BY Zenon DEF AllRuns, GateV1, GateV2, GateV3, GateV4, CmdBacktest, RunV3, RunV4, RunV5, RunV6, RunV7,
     RunV8V1, RunV9V1, RunV9V3, RunV10V1, RunV10V11
<1>3. RunV8V2.agg = "v2" /\ RunV8V2.legacy = FALSE
  BY <1>1 DEF RunV8V2
<1> TAKE w \in AllRuns
<1>4. CASE \E legacy \in BOOLEAN : \E calls : w = Wiring("v1", legacy, calls)
  BY <1>1, <1>4
<1>5. CASE \E legacy \in BOOLEAN : \E calls :
             w = Wiring("v11", legacy, calls) \/ w = Wiring("v3", legacy, calls)
  <2>1. w.agg \in {"v11", "v3"} /\ w.legacy \in BOOLEAN
    BY <1>1, <1>5
  <2> QED
    BY <2>1
<1> QED
  BY <1>2, <1>3, <1>4, <1>5

LEMMA BackStart ==
  ASSUME BacktestInit PROVE BackInv
<1>1. wiring \in AllRuns /\ bars \in [1 .. N -> BarSet] /\ next \in Nat \ {0}
  BY BacktestAssumption DEF BacktestInit, BarSet
<1>2. setupsByBar \in [1 .. N -> Seq(Setups(wiring.agg))]
  <2> DEFINE S == Setups(wiring.agg)
  <2> HIDE DEF S
  <2>1. <<>> \in Seq(S)
    OBVIOUS
  <2>2. setupsByBar \in [1 .. N -> Seq(S)]
    BY <2>1 DEF BacktestInit
  <2> QED
    BY <2>2 DEF S
<1>3. <<>> \in Tables /\ \A key : ActiveCount(<<>>, key) = 0
  <2>1. <<>> \in [{} -> Int] /\ DOMAIN <<>> = {}
    OBVIOUS
  <2>2. {} \in SUBSET Keys
    OBVIOUS
  <2> QED
    BY <2>1, <2>2 DEF Tables, ActiveCount
<1>4. Book \in BookSet
  <2>1. open \in Seq(PosSet) /\ closed \in Seq(TradeSet) /\ balance \in Int /\ cool \in Tables /\ active \in Tables
    <3>1. InitialBalance \in Int
      BY BacktestAssumption
    <3> QED
      BY <1>3, <3>1 DEF BacktestInit
  <2> QED
    BY <2>1 DEF Book, BookSet
<1>5. Book.open = <<>> /\ Book.closed = <<>> /\ Book.balance = InitialBalance /\ Book.active = <<>>
  BY DEF Book, BacktestInit
<1>6. \A key : CountKey(<<>>, key) = 0
  <2> TAKE key
  <2>1. <<>> \in Seq(PosSet) /\ Len(<<>>) = 0
    OBVIOUS
  <2>2. CountKey(<<>>, key) = Upto(<<>>, 0, key)
    BY <2>1, KeysCounted
  <2> QED
    BY <2>2, UptoMore
<1>7. Balanced(Book)
  <2>1. Len(Book.open) = 0 /\ Len(Book.closed) = 0
    BY <1>5
  <2>2. InitialBalance \in Int /\ Commission \in Int /\ MaxConcurrent \in Nat
    BY BacktestAssumption
  <2>3. Book.balance = InitialBalance + Profit(Book.closed) - Commission * (Len(Book.open) + Len(Book.closed))
    <3>1. Profit(Book.closed) = 0
      BY <1>5, ProfitOfNone
    <3>2. Commission * (0 + 0) = 0
      BY <2>2
    <3> QED
      BY <1>5, <2>1, <2>2, <3>1, <3>2
  <2>4. Len(Book.open) <= MaxConcurrent
    BY <2>1, <2>2
  <2>5. \A key \in Keys : ActiveCount(Book.active, key) = CountKey(Book.open, key)
    BY <1>3, <1>5, <1>6
  <2> QED
    BY <2>3, <2>4, <2>5, Zenon DEF Balanced
<1> QED
  BY <1>1, <1>2, <1>4, <1>7 DEF BackInv, Books

\* The setups of the end of a chunk.
LEMMA ChunkMade ==
  ASSUME BackInv, GenerateAt
  PROVE  setupsByBar' \in [1 .. N -> Seq(Setups(wiring.agg))]
<1>1. PICK market \in Markets :
        setupsByBar' = [setupsByBar EXCEPT ![next] =
          Generate(wiring.agg, [market EXCEPT !.legacy = wiring.legacy],
                   bars[next].close, WallClock, cool, active)]
  BY DEF GenerateAt
<1> DEFINE view == [market EXCEPT !.legacy = wiring.legacy]
           price == bars[next].close
           agg == wiring.agg
           made == Generate(agg, view, price, WallClock, cool, active)
<1>2. agg \in {"v1", "v11", "v2", "v3"} /\ wiring.legacy \in BOOLEAN
  BY WiringTyped DEF BackInv
<1>3. view \in Views
  <2>1. market \in Views
    BY BacktestAssumption
  <2> QED
    BY <1>2, <2>1 DEF Views
<1>4. price \in Int
  <2>1. next \in 1 .. N
    BY BacktestAssumption DEF BackInv, GenerateAt
  <2>2. bars[next] \in BarSet
    BY <2>1 DEF BackInv
  <2> QED
    BY <2>2 DEF BarSet
<1> HIDE DEF view, price, agg
<1>5. made \in Seq(Setups(agg))
  BY <1>2, <1>3, <1>4, Made
<1>6. setupsByBar' = [setupsByBar EXCEPT ![next] = made]
  BY <1>1 DEF view, price, agg
<1> HIDE DEF made
<1>7. setupsByBar \in [1 .. N -> Seq(Setups(agg))]
  BY DEF BackInv, agg
<1> QED
  BY <1>5, <1>6, <1>7 DEF agg

LEMMA BackStep ==
  ASSUME BackInv, [BacktestNext]_backtestVars PROVE BackInv'
<1> USE DEF BackInv
<1>1. ASSUME UNCHANGED dataVars PROVE Books' = Books
  BY <1>1 DEF Books, Balanced, dataVars
<1>2. ASSUME UNCHANGED dataVars, next' \in Nat \ {0}, UNCHANGED <<bookVars, zoneVars>>,
             setupsByBar' \in [1 .. N -> Seq(Setups(wiring.agg))]
      PROVE  BackInv'
  <2>1. Book' = Book
    BY <1>2 DEF Book, bookVars, zoneVars
  <2>2. wiring' = wiring /\ bars' = bars
    BY <1>2 DEF dataVars
  <2>3. setupsByBar' \in [1 .. N -> Seq(Setups(wiring'.agg))]
    BY <1>2, <2>2
  <2> QED
    BY <1>1, <1>2, <2>1, <2>2, <2>3
<1>3. CASE GenerateAt
  <2>1. setupsByBar' \in [1 .. N -> Seq(Setups(wiring.agg))]
    BY <1>3, ChunkMade
  <2> QED
    BY <1>2, <1>3, <2>1 DEF GenerateAt
<1>4. CASE SkipBar
  BY <1>2, <1>4 DEF SkipBar
<1>5. CASE StartEngine
  BY <1>2, <1>5 DEF StartEngine
<1>6. CASE Bar
  <2> DEFINE after == Walked(Book, next)
  <2>1. next \in 1 .. N /\ next' \in Nat \ {0}
    BY <1>6, BacktestAssumption DEF Bar
  <2>2. after \in Books
    <3> DEFINE left == Exits(Book, next)
    <3>1. left \in Books
      BY <2>1, ExitsBalance
    <3> HIDE DEF left
    <3>2. setupsByBar[next] \in Seq(Setups(wiring.agg))
      BY <2>1
    <3>3. Entries(left, next) \in Books
      BY <2>1, <3>1, <3>2, EntriesBalance
    <3> QED
      BY <3>3 DEF Walked, left
  <2> HIDE DEF after
  <2>3. /\ open' = after.open /\ closed' = after.closed /\ balance' = after.balance
        /\ cool' = after.cool /\ active' = after.active
    BY <1>6 DEF Bar, after
  <2>4. after \in BookSet
    BY <2>2 DEF Books
  <2>5. Book' = after
    BY <2>3, <2>4 DEF Book, BookSet
  <2>6. UNCHANGED dataVars /\ setupsByBar' = setupsByBar
    BY <1>6 DEF Bar
  <2>7. wiring' = wiring /\ bars' = bars
    BY <2>6 DEF dataVars
  <2>8. setupsByBar' \in [1 .. N -> Seq(Setups(wiring'.agg))]
    BY <2>6, <2>7
  <2> QED
    BY <1>1, <2>1, <2>2, <2>5, <2>6, <2>7, <2>8
<1>7. CASE Finish
  BY <1>2, <1>7 DEF Finish
<1>8. CASE UNCHANGED backtestVars
  BY <1>2, <1>8 DEF backtestVars
<1> QED
  BY <1>3, <1>4, <1>5, <1>6, <1>7, <1>8 DEF BacktestNext

BacktestSpec == BacktestInit /\ [][BacktestNext]_backtestVars

LEMMA BackAlways == BacktestSpec => []BackInv
<1>1. BacktestInit => BackInv
  BY BackStart
<1>2. BackInv /\ [BacktestNext]_backtestVars => BackInv'
  BY BackStep
<1> QED
  BY <1>1, <1>2, PTL DEF BacktestSpec

\* BarBacktestEngine.run: whatever the bars and the signals, in whatever order trades are
\* filled and closed, the balance is the initial one, plus what the closed trades made,
\* minus one commission per trade ever opened, and the positions stay within the limit.
THEOREM BooksAreBalanced == BacktestSpec => []BooksBalance
<1>1. BackInv => BooksBalance
  <2> SUFFICES ASSUME BackInv PROVE BooksBalance
    OBVIOUS
  <2>1. Balanced(Book)
    BY DEF BackInv, Books
  <2>2. Book.open = open /\ Book.closed = closed /\ Book.balance = balance
    BY DEF Book
  <2>3. balance = InitialBalance + Profit(closed) - Commission * (Len(open) + Len(closed))
        /\ Len(open) <= MaxConcurrent
    BY <2>1, <2>2 DEF Balanced
  <2> QED
    BY <2>3 DEF BooksBalance, Profit
<1> QED
  BY <1>1, BackAlways, PTL

\* BarBacktestEngine.run with AggregatorV2: the aggregator's counts of active zones are
\* the trades that are open in them, after any sequence of trades in the same zone.
THEOREM ActiveZonesAreExact == BacktestSpec => []ActiveZonesAreOpenTrades
<1>1. BackInv => ActiveZonesAreOpenTrades
  <2> SUFFICES ASSUME BackInv, wiring.agg = "v2",
                      NEW key \in DOMAIN active \cup {<<p.hi, p.lo, p.dir>> : p \in Range(open)}
               PROVE  ActiveCount(active, key) = CountKey(open, key)
    BY DEF ActiveZonesAreOpenTrades, CountKey
  <2>1. wiring = RunV8V2
    BY WiringTyped DEF BackInv
  <2>2. Book \in BookSet /\ Balanced(Book)
    BY DEF BackInv, Books
  <2>3. Book.open = open /\ Book.active = active
    BY DEF Book
  <2>4. open \in Seq(PosSet) /\ active \in Tables
    BY <2>2, <2>3 DEF BookSet
  <2>5. DOMAIN active \subseteq Keys
    BY <2>4 DEF Tables
  <2>6. \A p \in Range(open) : <<p.hi, p.lo, p.dir>> \in Keys
    <3>1. \A p \in Range(open) : p \in PosSet
      <4>1. \A i \in DOMAIN open : open[i] \in PosSet
        BY <2>4, Elements
      <4> QED
        BY <4>1 DEF Range
    <3> QED
      BY <3>1 DEF PosSet, Keys
  <2>7. key \in Keys
    BY <2>5, <2>6
  <2> QED
    BY <2>1, <2>2, <2>3, <2>7 DEF Balanced
<1> QED
  BY <1>1, BackAlways, PTL

\* Every setup that a backtest was given.
LEMMA SetupsOffered ==
  ASSUME BackInv, NEW s \in AllSetups PROVE s \in Setups(wiring.agg)
<1>1. PICK i \in 1 .. N : s \in Range(setupsByBar[i])
  BY DEF AllSetups
<1>2. setupsByBar[i] \in Seq(Setups(wiring.agg))
  BY DEF BackInv
<1>3. \A k \in DOMAIN setupsByBar[i] : setupsByBar[i][k] \in Setups(wiring.agg)
  BY <1>2, Elements
<1> QED
  BY <1>1, <1>3 DEF Range

\* entry_trigger and the setups that version 1.1 turns round: whatever the charts, where a
\* quarter of the zone is less than the least buffer of a stop, the stop is on the side
\* where the setup loses.  (Not so the sweeps of version 3, which look at no distance.)
THEOREM StopsLose == BacktestSpec => []StopOnLossSide
<1>1. BackInv => StopOnLossSide
  <2> SUFFICES ASSUME BackInv, NEW s \in AllSetups, wiring.agg # "v2",
                      s.entry.trigger # "fvg_sweep_continuation",
                      s.zone.hi - s.zone.lo < 4 * MinBuffer
               PROVE  IF s.entry.dir = "long" THEN s.entry.sl < s.entry.price
                      ELSE s.entry.sl > s.entry.price
    BY DEF StopOnLossSide
  <2>1. s \in Setups(wiring.agg)
    BY SetupsOffered
  <2>2. StopRight(s.zone, s.entry)
    BY <2>1 DEF Setups
  <2> QED
    BY <2>2 DEF StopRight
<1> QED
  BY <1>1, BackAlways, PTL

-----------------------------------------------------------------------------
\* What the engine reports.

\* The last of the places kept comes last.
LEMMA OnlyLast ==
  ASSUME NEW s, NEW j \in Nat \ {0}, NEW A \in SUBSET (1 .. j - 1)
  PROVE  Only(s, A \cup {j}) = Append(Only(s, A), s[j])
<1> DEFINE K == A \cup {j}
           c == Cardinality(A)
           atA(m) == CHOOSE i \in A : Rank(A, i) = m
           atK(m) == CHOOSE i \in K : Rank(K, i) = m
<1>1. /\ A \in SUBSET Nat /\ K \in SUBSET Nat /\ IsFiniteSet(A) /\ IsFiniteSet(K)
      /\ c \in Nat /\ Cardinality(K) = c + 1
  <2>1. IsFiniteSet(1 .. j - 1)
    BY FS_Interval
  <2>20. IsFiniteSet(A)
    BY <2>1, FS_Subset
  <2>21. j \notin 1 .. j - 1
    OBVIOUS
  <2>2. IsFiniteSet(A) /\ j \notin A
    BY <2>20, <2>21
  <2>3. IsFiniteSet(K) /\ Cardinality(K) = c + 1 /\ c \in Nat
    BY <2>2, FS_AddElement, FS_CardinalityType
  <2> QED
    BY <2>2, <2>3
<1>2. \A i \in A : Rank(K, i) = Rank(A, i)
  <2> TAKE i \in A
  <2>1. ~(j <= i)
    OBVIOUS
  <2>2. {y \in K : y <= i} = {y \in A : y <= i}
    BY <2>1
  <2> QED
    BY <2>2 DEF Rank
<1>3. Rank(K, j) = c + 1
  <2>0. \A y \in 1 .. j - 1 : y <= j
    OBVIOUS
  <2>00. \A y \in K : y <= j
    <3>1. j <= j
      OBVIOUS
    <3> QED
      BY <2>0, <3>1
  <2> HIDE DEF K
  <2>1. {y \in K : y <= j} = K
    BY <2>00
  <2> QED
    BY <1>1, <2>1 DEF Rank
<1>4. Only(s, A) = [m \in 1 .. c |-> s[atA(m)]] /\ Only(s, K) = [m \in 1 .. c + 1 |-> s[atK(m)]]
  BY <1>1 DEF Only, Rank
<1>5. \A x \in A : Rank(A, x) \in 1 .. c
  BY <1>1, Ranks
<1>6. \A x, y \in K : Rank(K, x) = Rank(K, y) => x = y
  <2> TAKE x, y \in K
  <2>1. (x < y => Rank(K, x) < Rank(K, y)) /\ (y < x => Rank(K, y) < Rank(K, x))
    BY <1>1, Ranks
  <2>2. Rank(K, x) \in Nat /\ Rank(K, y) \in Nat /\ x \in Nat /\ y \in Nat
    BY <1>1, Ranks
  <2> QED
    BY <2>1, <2>2
<1>7. \A m \in 1 .. c : \E i \in A : Rank(A, i) = m
  <2> TAKE m \in 1 .. c
  <2>1. DOMAIN InOrder(A) = 1 .. c /\ InOrder(A) \in [1 .. c -> A]
        /\ \A i \in DOMAIN InOrder(A) : Rank(A, InOrder(A)[i]) = i
    BY <1>1, OrderedBars
  <2>2. InOrder(A)[m] \in A /\ Rank(A, InOrder(A)[m]) = m
    BY <2>1
  <2> QED
    BY <2>2
<1>8. \A m \in 1 .. c : atK(m) = atA(m)
  <2> TAKE m \in 1 .. c
  <2>1. atA(m) \in A /\ Rank(A, atA(m)) = m
    BY <1>7
  <2> HIDE DEF atA
  <2>2. atA(m) \in K /\ Rank(K, atA(m)) = m
    BY <1>2, <2>1
  <2>3. atK(m) \in K /\ Rank(K, atK(m)) = m
    BY <2>2
  <2> HIDE DEF atK
  <2> QED
    BY <1>6, <2>2, <2>3
<1>9. atK(c + 1) = j
  <2>1. j \in K
    OBVIOUS
  <2>2. atK(c + 1) \in K /\ Rank(K, atK(c + 1)) = c + 1
    BY <1>3, <2>1
  <2> HIDE DEF atK
  <2> QED
    BY <1>3, <1>6, <2>1, <2>2
<1> HIDE DEF atA, atK, K, c
<1> DEFINE few == Only(s, A)
           all == Only(s, K)
<1>10. /\ few = [m \in 1 .. c |-> s[atA(m)]] /\ all = [m \in 1 .. c + 1 |-> s[atK(m)]]
  BY <1>4
<1> HIDE DEF few, all
<1>11. DOMAIN few = 1 .. c /\ Len(few) = c
  BY <1>1, <1>10
<1>12. all = Append(few, s[j])
  <2>1. Append(few, s[j]) = [m \in 1 .. c + 1 |-> IF m <= c THEN few[m] ELSE s[j]]
    BY <1>1, <1>11
  <2>2. \A m \in 1 .. c + 1 : s[atK(m)] = IF m <= c THEN few[m] ELSE s[j]
    <3> TAKE m \in 1 .. c + 1
    <3>1. CASE m \in 1 .. c
      BY <1>1, <1>8, <1>10, <3>1
    <3>2. CASE m = c + 1
      BY <1>1, <1>9, <3>2
    <3> QED
      BY <1>1, <3>1, <3>2
  <2> QED
    BY <1>10, <2>1, <2>2
<1> QED
  BY <1>12 DEF few, all, K

LEMMA OnlyNone == ASSUME NEW s PROVE Only(s, {}) = <<>>
<1>1. Cardinality({}) = 0
  BY FS_EmptySet
<1> QED
  BY <1>1 DEF Only

\* What two parts of the trades made, together, is what the trades made.
LEMMA PartsAdd ==
  ASSUME NEW s \in Seq(TradeSet), NEW K \in SUBSET DOMAIN s
  PROVE  Profit(Only(s, K)) + Profit(Only(s, DOMAIN s \ K)) = Profit(s)
<1> DEFINE n == Len(s)
           L == DOMAIN s \ K
           made(X, k) == Profit(Only(s, X \cap (1 .. k)))
<1>1. n \in Nat /\ DOMAIN s = 1 .. n /\ L \in SUBSET DOMAIN s /\ \A k \in 1 .. n : s[k] \in TradeSet
  <2>1. DOMAIN s = 1 .. n /\ n \in Nat
    OBVIOUS
  <2> QED
    BY <2>1, Elements
<1>2. PICK r \in [0 .. n -> Int] :
        /\ r[0] = 0 /\ Profit(s) = r[n]
        /\ \A k \in 1 .. n : r[k] = r[k - 1] + Pnl(s[k].pos, s[k].price)
  BY ProfitRun
<1>3. ASSUME NEW X \in SUBSET DOMAIN s, NEW k \in Nat, k <= n
      PROVE  Only(s, X \cap (1 .. k)) \in Seq(TradeSet) /\ made(X, k) \in Int
  <2>1. X \cap (1 .. k) \in SUBSET DOMAIN s
    OBVIOUS
  <2> DEFINE Y == X \cap (1 .. k)
  <2> HIDE DEF Y
  <2>2. Only(s, Y) \in Seq(TradeSet)
    BY <2>1, Chosen DEF Y
  <2>3. Profit(Only(s, Y)) \in Int
    BY <2>2, ProfitTyped
  <2> QED
    BY <2>2, <2>3 DEF Y
<1>4. ASSUME NEW X \in SUBSET DOMAIN s, NEW j \in 1 .. n
      PROVE  made(X, j) = made(X, j - 1) + IF j \in X THEN Pnl(s[j].pos, s[j].price) ELSE 0
  <2> DEFINE A == X \cap (1 .. j - 1)
             q == Only(s, A)
  <2>1. j \in Nat \ {0} /\ j - 1 \in Nat /\ j - 1 <= n /\ j <= n
    BY <1>1
  <2>2. q \in Seq(TradeSet) /\ Profit(q) \in Int
    BY <1>3, <2>1
  <2>3. CASE j \in X
    <3>1. X \cap (1 .. j) = A \cup {j}
      BY <2>1, <2>3
    <3>2. A \in SUBSET (1 .. j - 1)
      OBVIOUS
    <3> HIDE DEF A
    <3>3. Only(s, A \cup {j}) = Append(Only(s, A), s[j])
      BY <2>1, <3>2, OnlyLast
    <3>4. Only(s, X \cap (1 .. j)) = Append(q, s[j])
      BY <3>1, <3>3
    <3> HIDE DEF q
    <3>5. s[j] \in TradeSet
      BY <1>1
    <3>6. Profit(Append(q, s[j])) = Profit(q) + Pnl(s[j].pos, s[j].price)
      BY <2>2, <3>5, ProfitOfMore
    <3> QED
      BY <2>3, <3>4, <3>6 DEF q, A
  <2>4. CASE j \notin X
    <3>1. X \cap (1 .. j) = A
      BY <2>1, <2>4
    <3>2. made(X, j) = Profit(q) /\ made(X, j - 1) = Profit(q)
      BY <3>1
    <3> HIDE DEF made, q
    <3> QED
      BY <2>2, <2>4, <3>2
  <2> QED
    BY <2>3, <2>4
<1> DEFINE Same == {k \in Nat : k <= n => made(K, k) + made(L, k) = r[k]}
<1>5. 0 \in Same
  <2>1. 1 .. 0 = {} /\ \A X : X \cap {} = {}
    OBVIOUS
  <2>2. made(K, 0) = 0 /\ made(L, 0) = 0
    BY <2>1, OnlyNone, ProfitOfNone
  <2> HIDE DEF made
  <2> QED
    BY <1>2, <2>2
<1>6. ASSUME NEW k \in Nat, k \in Same PROVE k + 1 \in Same
  <2> SUFFICES ASSUME k + 1 <= n PROVE made(K, k + 1) + made(L, k + 1) = r[k + 1]
    OBVIOUS
  <2> DEFINE j == k + 1
             gain == Pnl(s[j].pos, s[j].price)
  <2>1. j \in 1 .. n /\ j - 1 = k /\ k \in Nat /\ k <= n
    BY <1>1
  <2> HIDE DEF j, made
  <2>2. made(K, k) \in Int /\ made(L, k) \in Int /\ made(K, k) + made(L, k) = r[k]
    BY <1>1, <1>3, <1>6, <2>1
  <2>3. made(K, j) = made(K, k) + (IF j \in K THEN gain ELSE 0)
    BY <1>4, <2>1
  <2>4. made(L, j) = made(L, k) + (IF j \in L THEN gain ELSE 0)
    BY <1>1, <1>4, <2>1
  <2>5. (j \in L) <=> (j \notin K)
    BY <1>1, <2>1
  <2>6. gain \in Int
    <3>1. s[j] \in TradeSet
      BY <1>1, <2>1
    <3> QED
      BY <3>1, PnlTyped DEF TradeSet
  <2>7. r[j] = r[k] + gain
    BY <1>2, <2>1
  <2> HIDE DEF gain
  <2>8. made(K, j) + made(L, j) = r[j]
    <3>1. CASE j \in K
      BY <2>2, <2>3, <2>4, <2>5, <2>6, <2>7, <3>1
    <3>2. CASE j \notin K
      BY <2>2, <2>3, <2>4, <2>5, <2>6, <2>7, <3>2
    <3> QED
      BY <3>1, <3>2
  <2> QED
    BY <2>8 DEF j
<1>7. made(K, n) + made(L, n) = r[n]
  <2> HIDE DEF Same
  <2>1. Nat \subseteq Same
    BY <1>5, <1>6, NatInd
  <2> QED
    BY <1>1, <2>1 DEF Same
<1>8. K \cap (1 .. n) = K /\ L \cap (1 .. n) = L
  BY <1>1
<1> QED
  BY <1>2, <1>7, <1>8

-----------------------------------------------------------------------------
\* What open positions are worth at a price.
Worth(s, x) == SumOver(s, LAMBDA p : Pnl(p, x))

LEMMA WorthRun ==
  ASSUME NEW s \in Seq(PosSet), NEW x \in Int
  PROVE  \E r \in [0 .. Len(s) -> Int] :
           /\ r[0] = 0 /\ Worth(s, x) = r[Len(s)]
           /\ \A k \in 1 .. Len(s) : r[k] = r[k - 1] + Pnl(s[k], x)
<1> DEFINE n == Len(s)
           T == PosSet
           Q == Int
           add(v, p) == v + Pnl(p, x)
           step == [p \in Q \X T |-> add(p[1], p[2])]
           base == 0
           Next(it, X) == IF X = {} THEN base ELSE add(it[X \ {Max(X)}], s[Max(X)])
           it == CHOOSE it : it = [X \in SUBSET (1 .. n) |-> Next(it, X)]
           all == Worth(s, x)
<1>1. n \in Nat /\ DOMAIN s = 1 .. n /\ \A k \in 1 .. n : s[k] \in T
  <2> HIDE DEF T
  <2>1. s \in Seq(T)
    BY DEF T
  <2> QED
    BY <2>1, Elements
<1>2. all = it[1 .. n]
  BY <1>1 DEF Worth, SumOver, FoldLeft, MapThenFoldSet
<1>3. \A q \in Q, t \in T : add(q, t) \in Q
  <2>1. \A t \in T : Pnl(t, x) \in Int
    BY PnlTyped
  <2> QED
    BY <2>1
<1>4. base \in Q
  OBVIOUS
<1> HIDE DEF n, Q, T, add, all, base
<1>5. step \in [Q \X T -> Q] /\ \A q \in Q, t \in T : step[<<q, t>>] = add(q, t)
  BY <1>3
<1> HIDE DEF step
<1>6. PICK h : IsFold(h, n, Q, base, step, s)
  BY <1>1, <1>4, <1>5, FoldExists
<1>7. h = [X \in SUBSET (1 .. n) |-> Next(h, X)]
  <2>1. ASSUME NEW X \in SUBSET (1 .. n) PROVE h[X] = Next(h, X)
    <3>1. CASE X # {}
      <4>1. X \ {Max(X)} \in SUBSET (1 .. n) /\ Max(X) \in 1 .. n
        BY <1>1, <3>1, LastPlace
      <4>2. h[X \ {Max(X)}] \in Q /\ s[Max(X)] \in T
        BY <1>1, <1>6, <4>1 DEF IsFold
      <4> QED
        BY <1>5, <1>6, <3>1, <4>2 DEF IsFold
    <3>2. CASE X = {}
      BY <1>6, <3>2 DEF IsFold
    <3> QED
      BY <3>1, <3>2
  <2> QED
    BY <1>6, <2>1 DEF IsFold
<1>8. it = [X \in SUBSET (1 .. n) |-> Next(it, X)]
  <2> HIDE DEF Next
  <2> QED
    BY <1>7
<1> HIDE DEF it
<1>9. Iterates(it, n, Q, base, step, s)
  <2>1. {} \in SUBSET (1 .. n)
    OBVIOUS
  <2>2. ASSUME NEW X \in SUBSET (1 .. n), X # {}, it[X \ {Max(X)}] \in Q
        PROVE  it[X] = step[<<it[X \ {Max(X)}], s[Max(X)]>>]
    <3>1. Max(X) \in 1 .. n
      BY <1>1, <2>2, LastPlace
    <3> QED
      BY <1>1, <1>5, <1>8, <2>2, <3>1
  <2>3. it[{}] = base
    BY <1>8, <2>1
  <2> QED
    BY <2>2, <2>3 DEF Iterates
<1>10. PICK r : IsRun(r, it, n, Q, base, step, s)
  BY <1>1, <1>4, <1>5, <1>9, FoldPlaces
<1>11. ASSUME NEW k \in 1 .. n PROVE r[k] = add(r[k - 1], s[k])
  <2>1. r[k - 1] \in Q /\ s[k] \in T /\ r[k] = step[<<r[k - 1], s[k]>>]
    BY <1>1, <1>10 DEF IsRun
  <2> QED
    BY <1>5, <2>1
<1>12. r \in [0 .. n -> Q] /\ r[0] = base /\ all = r[n]
  BY <1>2, <1>10 DEF IsRun
<1> QED
  BY <1>11, <1>12 DEF Q, n, add, all, base

LEMMA WorthTyped ==
  ASSUME NEW s \in Seq(PosSet), NEW x \in Int
  PROVE  Worth(s, x) \in Int /\ (s = <<>> => Worth(s, x) = 0)
<1>1. PICK r \in [0 .. Len(s) -> Int] : r[0] = 0 /\ Worth(s, x) = r[Len(s)]
  BY WorthRun
<1>2. Len(s) \in Nat /\ (s = <<>> => Len(s) = 0)
  OBVIOUS
<1> QED
  BY <1>1, <1>2

\* The peak and the largest drawdown along a curve.
DrawSet == [top : Int, worst : [down : Int, peak : Int]]
Lower(acc, v) ==
  LET top == Most(acc.top, v)
      d   == [down |-> top - v, peak |-> top]
  IN  [top |-> top, worst |-> IF Deeper(d, acc.worst) THEN d ELSE acc.worst]
Flat(v) == [top |-> v, worst |-> [down |-> 0, peak |-> v]]
Drawn(curve) ==
  FoldLeft(LAMBDA acc, v :
             LET top == Most(acc.top, v)
                 d   == [down |-> top - v, peak |-> top]
             IN  [top |-> top, worst |-> IF Deeper(d, acc.worst) THEN d ELSE acc.worst],
           [top |-> curve[1], worst |-> [down |-> 0, peak |-> curve[1]]], curve)

LEMMA LowerTyped == \A q \in DrawSet, v \in Int : Lower(q, v) \in DrawSet
<1> TAKE q \in DrawSet, v \in Int
<1> DEFINE top == Most(q.top, v)
           d == [down |-> top - v, peak |-> top]
           w == IF Deeper(d, q.worst) THEN d ELSE q.worst
<1>1. q.top \in Int /\ q.worst \in [down : Int, peak : Int]
  BY DEF DrawSet
<1>2. top \in Int
  BY <1>1 DEF Most
<1> HIDE DEF top
<1>3. d \in [down : Int, peak : Int]
  BY <1>2
<1> HIDE DEF d
<1>4. w \in [down : Int, peak : Int]
  BY <1>1, <1>3
<1>5. Lower(q, v) = [top |-> top, worst |-> w]
  BY DEF Lower, top, d
<1> HIDE DEF w
<1> QED
  BY <1>2, <1>4, <1>5 DEF DrawSet

LEMMA DrawRun ==
  ASSUME NEW s \in Seq(Int), s # <<>>
  PROVE  \E r \in [0 .. Len(s) -> DrawSet] :
           /\ r[0] = Flat(s[1]) /\ Drawn(s) = r[Len(s)]
           /\ \A k \in 1 .. Len(s) : r[k] = Lower(r[k - 1], s[k])
<1> DEFINE n == Len(s)
           T == Int
           Q == DrawSet
           add(acc, v) == Lower(acc, v)
           step == [p \in Q \X T |-> add(p[1], p[2])]
           base == Flat(s[1])
           Next(it, X) == IF X = {} THEN base ELSE add(it[X \ {Max(X)}], s[Max(X)])
           it == CHOOSE it : it = [X \in SUBSET (1 .. n) |-> Next(it, X)]
           all == Drawn(s)
<1>1. n \in Nat /\ DOMAIN s = 1 .. n /\ \A k \in 1 .. n : s[k] \in T
  <2> HIDE DEF T
  <2>1. s \in Seq(T)
    BY DEF T
  <2> QED
    BY <2>1, Elements
<1>2. all = it[1 .. n]
  BY <1>1 DEF Drawn, FoldLeft, MapThenFoldSet, Lower, Flat
<1>3. \A q \in Q, t \in T : add(q, t) \in Q
  BY LowerTyped
<1>4. base \in Q
  <2>1. s[1] \in Int
    OBVIOUS
  <2> QED
    BY <2>1 DEF Flat, DrawSet
<1> HIDE DEF n, Q, T, add, all, base
<1>5. step \in [Q \X T -> Q] /\ \A q \in Q, t \in T : step[<<q, t>>] = add(q, t)
  BY <1>3
<1> HIDE DEF step
<1>6. PICK h : IsFold(h, n, Q, base, step, s)
  BY <1>1, <1>4, <1>5, FoldExists
<1>7. h = [X \in SUBSET (1 .. n) |-> Next(h, X)]
  <2>1. ASSUME NEW X \in SUBSET (1 .. n) PROVE h[X] = Next(h, X)
    <3>1. CASE X # {}
      <4>1. X \ {Max(X)} \in SUBSET (1 .. n) /\ Max(X) \in 1 .. n
        BY <1>1, <3>1, LastPlace
      <4>2. h[X \ {Max(X)}] \in Q /\ s[Max(X)] \in T
        BY <1>1, <1>6, <4>1 DEF IsFold
      <4> QED
        BY <1>5, <1>6, <3>1, <4>2 DEF IsFold
    <3>2. CASE X = {}
      BY <1>6, <3>2 DEF IsFold
    <3> QED
      BY <3>1, <3>2
  <2> QED
    BY <1>6, <2>1 DEF IsFold
<1>8. it = [X \in SUBSET (1 .. n) |-> Next(it, X)]
  <2> HIDE DEF Next
  <2> QED
    BY <1>7
<1> HIDE DEF it
<1>9. Iterates(it, n, Q, base, step, s)
  <2>1. {} \in SUBSET (1 .. n)
    OBVIOUS
  <2>2. ASSUME NEW X \in SUBSET (1 .. n), X # {}, it[X \ {Max(X)}] \in Q
        PROVE  it[X] = step[<<it[X \ {Max(X)}], s[Max(X)]>>]
    <3>1. Max(X) \in 1 .. n
      BY <1>1, <2>2, LastPlace
    <3> QED
      BY <1>1, <1>5, <1>8, <2>2, <3>1
  <2>3. it[{}] = base
    BY <1>8, <2>1
  <2> QED
    BY <2>2, <2>3 DEF Iterates
<1>10. PICK r : IsRun(r, it, n, Q, base, step, s)
  BY <1>1, <1>4, <1>5, <1>9, FoldPlaces
<1>11. ASSUME NEW k \in 1 .. n PROVE r[k] = add(r[k - 1], s[k])
  <2>1. r[k - 1] \in Q /\ s[k] \in T /\ r[k] = step[<<r[k - 1], s[k]>>]
    BY <1>1, <1>10 DEF IsRun
  <2> QED
    BY <1>5, <2>1
<1>12. r \in [0 .. n -> Q] /\ r[0] = base /\ all = r[n]
  BY <1>2, <1>10 DEF IsRun
<1> QED
  BY <1>11, <1>12 DEF Q, n, add, all, base

\* One more value on the curve.
LEMMA DrawMore ==
  ASSUME NEW s \in Seq(Int), s # <<>>, NEW v \in Int
  PROVE  Drawn(s) \in DrawSet /\ Drawn(Append(s, v)) = Lower(Drawn(s), v)
<1> DEFINE n == Len(s)
           s2 == Append(s, v)
<1>1. /\ n \in Nat \ {0} /\ s2 \in Seq(Int) /\ Len(s2) = n + 1 /\ s2[n + 1] = v /\ s2 # <<>>
      /\ \A k \in 1 .. n : s2[k] = s[k]
  OBVIOUS
<1> HIDE DEF s2
<1>2. PICK r \in [0 .. n -> DrawSet] :
        /\ r[0] = Flat(s[1]) /\ Drawn(s) = r[n]
        /\ \A k \in 1 .. n : r[k] = Lower(r[k - 1], s[k])
  BY DrawRun
<1>3. PICK r2 \in [0 .. Len(s2) -> DrawSet] :
        /\ r2[0] = Flat(s2[1]) /\ Drawn(s2) = r2[Len(s2)]
        /\ \A k \in 1 .. Len(s2) : r2[k] = Lower(r2[k - 1], s2[k])
  BY <1>1, DrawRun
<1> HIDE DEF n
<1> DEFINE Same == {k \in Nat : k <= n => r2[k] = r[k]}
<1>4. 0 \in Same
  <2>1. s2[1] = s[1]
    BY <1>1
  <2> QED
    BY <1>2, <1>3, <2>1
<1>5. ASSUME NEW k \in Nat, k \in Same PROVE k + 1 \in Same
  <2> SUFFICES ASSUME k + 1 <= n PROVE r2[k + 1] = r[k + 1]
    OBVIOUS
  <2> DEFINE j == k + 1
  <2>1. n \in Nat /\ Len(s2) = n + 1
    BY <1>1
  <2>2. j \in 1 .. n /\ j \in 1 .. Len(s2) /\ j - 1 = k /\ k <= n
    BY <2>1
  <2> HIDE DEF j
  <2>3. r[j] = Lower(r[j - 1], s[j]) /\ r2[j] = Lower(r2[j - 1], s2[j])
    BY <1>2, <1>3, <2>2
  <2>4. s2[j] = s[j] /\ r2[k] = r[k]
    BY <1>1, <1>5, <2>2
  <2>5. r2[j] = r[j]
    BY <2>2, <2>3, <2>4
  <2> QED
    BY <2>5 DEF j
<1>6. r2[n] = r[n]
  <2> HIDE DEF Same
  <2>1. Nat \subseteq Same
    BY <1>4, <1>5, NatInd
  <2> QED
    BY <1>1, <2>1 DEF Same
<1>7. n + 1 \in 1 .. Len(s2) /\ (n + 1) - 1 = n /\ n \in 0 .. n
  BY <1>1
<1>8. r2[n + 1] = Lower(r2[n], s2[n + 1])
  BY <1>3, <1>7
<1>9. r[n] \in DrawSet
  BY <1>2, <1>7
<1> QED
  BY <1>1, <1>2, <1>3, <1>6, <1>8, <1>9 DEF s2

LEMMA DrawFirst ==
  ASSUME NEW v \in Int PROVE Drawn(<<v>>) = Flat(v)
<1> DEFINE s == <<v>>
<1>1. s \in Seq(Int) /\ s # <<>> /\ Len(s) = 1 /\ s[1] = v
  OBVIOUS
<1> HIDE DEF s
<1>2. PICK r \in [0 .. Len(s) -> DrawSet] :
        /\ r[0] = Flat(s[1]) /\ Drawn(s) = r[Len(s)]
        /\ \A k \in 1 .. Len(s) : r[k] = Lower(r[k - 1], s[k])
  BY <1>1, DrawRun
<1>3. 1 \in 1 .. Len(s) /\ 1 - 1 = 0
  BY <1>1
<1>4. r[1] = Lower(Flat(v), v)
  BY <1>1, <1>2, <1>3
<1>5. Lower(Flat(v), v) = Flat(v)
  <2>1. Most(v, v) = v /\ v - v = 0
    BY DEF Most
  <2> QED
    BY <2>1 DEF Lower, Flat
<1> QED
  BY <1>1, <1>2, <1>4, <1>5 DEF s

-----------------------------------------------------------------------------
\* The curve, where more than one bar goes into a chunk: the first bar has no setup,
\* so that the curve starts with the initial balance.

Untouched ==
  /\ open = <<>> /\ closed = <<>> /\ equity = <<>>
  /\ balance = InitialBalance /\ peak = InitialBalance
  /\ worst = [down |-> 0, peak |-> InitialBalance]

\* The curve ends with what the books are worth, and tells what the engine keeps of it.
OnCurve ==
  /\ equity \in Seq(Int) /\ Len(equity) = next - 1 /\ equity[1] = InitialBalance
  /\ equity[Len(equity)] = balance + Worth(open, bars[next - 1].close)
  /\ Drawn(equity) = [top |-> peak, worst |-> worst]

CurveInv ==
  /\ BackInv
  /\ setupsByBar[1] = <<>> /\ next <= N + 1
  /\ phase \in {"generate", "run", "done"}
  /\ phase = "generate" \/ next = 1 => Untouched
  /\ phase # "generate" /\ next > 1 => OnCurve
  /\ phase = "done" => next = N + 1

LEMMA NothingYet ==
  /\ \A b : b.open = <<>> => \A i : Exits(b, i) = [b EXCEPT !.open = <<>>]
  /\ \A b, i : setupsByBar[i] = <<>> => Entries(b, i) = b
<1>1. ASSUME NEW b, NEW i, b.open = <<>> PROVE Exits(b, i) = [b EXCEPT !.open = <<>>]
  <2> DEFINE base == [b EXCEPT !.open = <<>>]
             s == b.open
             Next(it, X) == IF X = {} THEN base ELSE ExitOrKeep(it[X \ {Max(X)}], s[Max(X)], i)
             it == CHOOSE it : it = [X \in SUBSET DOMAIN s |-> Next(it, X)]
  <2>1. DOMAIN s = {}
    BY <1>1
  <2>2. Exits(b, i) = it[DOMAIN s]
    BY DEF Exits, FoldLeft, MapThenFoldSet
  <2> DEFINE h == [X \in SUBSET DOMAIN s |-> base]
  <2>3. h = [X \in SUBSET DOMAIN s |-> Next(h, X)]
    BY <2>1
  <2> HIDE DEF h, base
  <2>4. it = [X \in SUBSET DOMAIN s |-> Next(it, X)]
    <3> HIDE DEF Next
    <3> QED
      BY <2>3
  <2> HIDE DEF it
  <2>5. it[{}] = base
    BY <2>1, <2>4
  <2> QED
    BY <2>1, <2>2, <2>5 DEF base
<1>2. ASSUME NEW b, NEW i, setupsByBar[i] = <<>> PROVE Entries(b, i) = b
  <2> DEFINE s == setupsByBar[i]
             Next(it, X) == IF X = {} THEN b ELSE EnterOrPass(it[X \ {Max(X)}], s[Max(X)], i)
             it == CHOOSE it : it = [X \in SUBSET DOMAIN s |-> Next(it, X)]
  <2>1. DOMAIN s = {}
    BY <1>2
  <2>2. Entries(b, i) = it[DOMAIN s]
    BY DEF Entries, FoldLeft, MapThenFoldSet
  <2> DEFINE h == [X \in SUBSET DOMAIN s |-> b]
  <2>3. h = [X \in SUBSET DOMAIN s |-> Next(h, X)]
    BY <2>1
  <2> HIDE DEF h
  <2>4. it = [X \in SUBSET DOMAIN s |-> Next(it, X)]
    <3> HIDE DEF Next
    <3> QED
      BY <2>3
  <2> HIDE DEF it
  <2>5. it[{}] = b
    BY <2>1, <2>4
  <2> QED
    BY <2>1, <2>2, <2>5
<1> QED
  BY <1>1, <1>2

LEMMA FirstBarMade ==
  ASSUME Chunk > 1 PROVE 1 \notin ChunkEnds
<1>1. Chunk \in Nat /\ N \in Nat \ {0}
  BY BacktestAssumption
<1>2. 1 % Chunk = 1
  BY <1>1
<1>3. N > Chunk => N # 1
  BY <1>1
<1> QED
  BY <1>2, <1>3 DEF ChunkEnds

\* One bar of the engine: the new value of the curve.
LEMMA BarOnCurve ==
  ASSUME CurveInv, Bar PROVE OnCurve'
<1> DEFINE after == Walked(Book, next)
           price == bars[next].close
           value == after.balance + Worth(after.open, price)
           top == Most(peak, value)
           d == [down |-> top - value, peak |-> top]
           w == IF Deeper(d, worst) THEN d ELSE worst
<1>1. next \in 1 .. N /\ next \in Nat \ {0} /\ phase = "run"
  BY BacktestAssumption DEF Bar, CurveInv, BackInv
<1>2. BackInv'
  BY BackStep DEF CurveInv, BacktestNext
<1>3. open' = after.open /\ balance' = after.balance /\ next' = next + 1 /\ bars' = bars
  BY DEF Bar, dataVars
<1>4. equity' = Append(equity, value) /\ peak' = top /\ worst' = w
  BY DEF Bar, Worth
<1>5. open' \in Seq(PosSet) /\ balance' \in Int /\ price \in Int
  <2>1. Book' \in BookSet
    BY <1>2 DEF BackInv, Books
  <2>2. Book'.open = open' /\ Book'.balance = balance'
    BY DEF Book
  <2>3. bars[next] \in BarSet
    BY <1>1 DEF CurveInv, BackInv
  <2> QED
    BY <2>1, <2>2, <2>3 DEF BookSet, BarSet
<1>6. value \in Int /\ value = balance' + Worth(open', price)
  <2>1. Worth(open', price) \in Int
    BY <1>5, WorthTyped
  <2> HIDE DEF after, price
  <2> QED
    BY <1>3, <1>5, <2>1
<1>7. bars'[next' - 1].close = price
  <2>1. next' - 1 = next
    BY <1>1, <1>3
  <2>2. bars'[next' - 1] = bars[next]
    BY <1>3, <2>1
  <2> QED
    BY <2>2
<1>8. CASE next = 1
  <2>1. Untouched /\ setupsByBar[1] = <<>>
    BY <1>8 DEF CurveInv
  <2>2. Book.open = <<>> /\ Book.balance = InitialBalance /\ Book \in BookSet
    BY <2>1 DEF Untouched, Book, CurveInv, BackInv, Books
  <2>3. after = [Book EXCEPT !.open = <<>>]
    BY <1>8, <2>1, <2>2, NothingYet DEF Walked
  <2>4. after.open = <<>> /\ after.balance = InitialBalance
    BY <2>2, <2>3 DEF BookSet
  <2> HIDE DEF after, price
  <2>5. Worth(after.open, price) = 0 /\ InitialBalance \in Int
    BY <1>3, <1>5, <2>4, WorthTyped, BacktestAssumption
  <2>6. value = InitialBalance
    BY <2>4, <2>5
  <2> HIDE DEF value
  <2>7. equity' = <<InitialBalance>>
    BY <1>4, <2>1, <2>6 DEF Untouched
  <2>8. Drawn(equity') = Flat(InitialBalance)
    BY <2>5, <2>7, DrawFirst
  <2>9. peak' = InitialBalance /\ worst' = [down |-> 0, peak |-> InitialBalance]
    <3>1. Most(InitialBalance, InitialBalance) = InitialBalance /\ InitialBalance - InitialBalance = 0
      BY <2>5 DEF Most
    <3>2. top = InitialBalance
      BY <2>1, <2>6, <3>1 DEF Untouched
    <3>3. d = [down |-> 0, peak |-> InitialBalance]
      BY <2>6, <3>1, <3>2
    <3> HIDE DEF top, d
    <3> QED
      BY <1>4, <2>1, <3>2, <3>3 DEF Untouched
  <2>10. equity' \in Seq(Int) /\ Len(equity') = 1 /\ equity'[1] = InitialBalance
    BY <2>5, <2>7
  <2>11. next' - 1 = 1
    BY <1>3, <1>8
  <2>12. equity'[Len(equity')] = balance' + Worth(open', bars'[next' - 1].close)
    BY <1>6, <1>7, <2>6, <2>10
  <2> QED
    BY <2>8, <2>9, <2>10, <2>11, <2>12 DEF OnCurve, Flat
<1>9. CASE next # 1
  <2>1. OnCurve /\ next > 1
    BY <1>1, <1>9 DEF CurveInv
  <2>2. equity \in Seq(Int) /\ Len(equity) = next - 1 /\ equity # <<>> /\ next - 1 \in Nat \ {0}
    <3>1. equity \in Seq(Int) /\ Len(equity) = next - 1
      BY <2>1 DEF OnCurve
    <3>2. next - 1 > 0
      BY <1>1, <2>1
    <3> QED
      BY <1>1, <3>1, <3>2
  <2> HIDE DEF value
  <2>3. /\ equity' \in Seq(Int) /\ Len(equity') = next /\ equity'[1] = equity[1]
        /\ equity'[next] = value
    BY <1>1, <1>4, <1>6, <2>2
  <2>4. next' - 1 = next
    BY <1>1, <1>3
  <2>5. Drawn(equity') = Lower(Drawn(equity), value)
    BY <1>4, <1>6, <2>2, DrawMore
  <2>6. Drawn(equity).top = peak /\ Drawn(equity).worst = worst
    BY <2>1 DEF OnCurve
  <2>7. Drawn(equity') = [top |-> peak', worst |-> worst']
    BY <1>4, <2>5, <2>6 DEF Lower
  <2>8. equity'[1] = InitialBalance
    BY <2>1, <2>3 DEF OnCurve
  <2>9. equity'[Len(equity')] = balance' + Worth(open', bars'[next' - 1].close)
    BY <1>6, <1>7, <2>3
  <2> QED
    BY <2>3, <2>4, <2>7, <2>8, <2>9 DEF OnCurve
<1> QED
  BY <1>8, <1>9

LEMMA CurveStep ==
  ASSUME Chunk > 1, CurveInv, [BacktestNext]_backtestVars PROVE CurveInv'
<1>0. BackInv' /\ BackInv
  BY BackStep DEF CurveInv
<1>1. N \in Nat \ {0} /\ next \in Nat \ {0}
  BY <1>0, BacktestAssumption DEF BackInv
<1>2. CASE GenerateAt \/ SkipBar
  <2>1. /\ phase = "generate" /\ phase' = phase /\ next' = next + 1 /\ next <= N
        /\ UNCHANGED bookVars
    BY <1>2 DEF GenerateAt, SkipBar
  <2>2. setupsByBar'[1] = <<>>
    <3>1. CASE SkipBar
      BY <3>1 DEF SkipBar, CurveInv
    <3>2. CASE GenerateAt
      <4>1. next # 1
        BY <3>2, FirstBarMade DEF GenerateAt
      <4>2. \E made : setupsByBar' = [setupsByBar EXCEPT ![next] = made]
        BY <3>2 DEF GenerateAt
      <4>3. DOMAIN setupsByBar = 1 .. N /\ 1 \in 1 .. N
        BY <1>0, <1>1 DEF BackInv
      <4> QED
        BY <4>1, <4>2, <4>3 DEF CurveInv
    <3> QED
      BY <1>2, <3>1, <3>2
  <2>3. Untouched'
    <3>1. Untouched
      BY <2>1 DEF CurveInv
    <3> QED
      BY <2>1, <3>1 DEF Untouched, bookVars
  <2>4. next' <= N + 1
    BY <1>1, <2>1
  <2> QED
    BY <1>0, <2>1, <2>2, <2>3, <2>4 DEF CurveInv
<1>3. CASE StartEngine
  <2>1. phase = "generate" /\ phase' = "run" /\ next' = 1 /\ setupsByBar' = setupsByBar /\ UNCHANGED bookVars
    BY <1>3 DEF StartEngine
  <2>2. Untouched'
    <3>1. Untouched
      BY <2>1 DEF CurveInv
    <3> QED
      BY <2>1, <3>1 DEF Untouched, bookVars
  <2>3. next' <= N + 1 /\ ~(next' > 1)
    BY <1>1, <2>1
  <2> QED
    BY <1>0, <2>1, <2>2, <2>3 DEF CurveInv
<1>4. CASE Bar
  <2>1. OnCurve'
    BY <1>4, BarOnCurve DEF CurveInv
  <2>2. phase = "run" /\ phase' = phase /\ next <= N /\ next' = next + 1 /\ setupsByBar' = setupsByBar
    BY <1>4 DEF Bar
  <2>3. next' <= N + 1 /\ next' # 1
    BY <1>1, <2>2
  <2> QED
    BY <1>0, <2>1, <2>2, <2>3 DEF CurveInv
<1>5. ASSUME UNCHANGED <<dataVars, next, setupsByBar, bookVars>>,
             phase' = phase \/ (phase = "run" /\ phase' = "done" /\ next > N)
      PROVE  CurveInv'
  <2>1. Untouched' = Untouched /\ OnCurve' = OnCurve
    BY <1>5 DEF Untouched, OnCurve, dataVars, bookVars
  <2>2. next' = next /\ setupsByBar' = setupsByBar
    BY <1>5
  <2>3. next > N => next = N + 1
    BY <1>1 DEF CurveInv
  <2> QED
    BY <1>0, <1>5, <2>1, <2>2, <2>3 DEF CurveInv
<1>6. CASE Finish
  BY <1>5, <1>6 DEF Finish
<1>7. CASE UNCHANGED backtestVars
  BY <1>5, <1>7 DEF backtestVars
<1> QED
  BY <1>2, <1>3, <1>4, <1>6, <1>7 DEF BacktestNext

\* What a version's report says of its two kinds of trades adds up.
LEMMA SharesAdd ==
  ASSUME NEW K \in SUBSET DOMAIN closed, closed \in Seq(TradeSet)
  PROVE  /\ Share(Only(closed, K)).pnl + Share(Only(closed, DOMAIN closed \ K)).pnl = Profit(closed)
         /\ Share(Only(closed, K)).pnl \in Int /\ Share(Only(closed, DOMAIN closed \ K)).pnl \in Int
<1>1. \A trades : Share(trades).pnl = Profit(trades)
  BY DEF Share, Profit
<1> DEFINE L == DOMAIN closed \ K
<1>2. K \in SUBSET DOMAIN closed /\ L \in SUBSET DOMAIN closed
  OBVIOUS
<1> HIDE DEF L
<1>3. Only(closed, K) \in Seq(TradeSet) /\ Only(closed, L) \in Seq(TradeSet)
  BY <1>2, Chosen
<1> QED
  BY <1>1, <1>3, PartsAdd, ProfitTyped DEF L

\* The chunked adapters, BarBacktestEngine.run, max_drawdown and the reports of the
\* single-window scripts, in chunks of more than one bar: what is reported from the curve is what happened to the trades, in
\* every version's breakdown, and the drawdown is the engine's.
THEOREM ReportsAgree ==
  ASSUME Chunk > 1 PROVE BacktestSpec => []ReportAgrees
<1>1. BacktestInit => CurveInv
  <2> SUFFICES ASSUME BacktestInit PROVE CurveInv
    OBVIOUS
  <2>1. BackInv /\ N \in Nat \ {0}
    BY BackStart, BacktestAssumption
  <2>2. setupsByBar[1] = <<>> /\ next <= N + 1 /\ phase = "generate" /\ Untouched
    BY <2>1 DEF BacktestInit, Untouched
  <2> QED
    BY <2>1, <2>2 DEF CurveInv
<1>2. CurveInv /\ [BacktestNext]_backtestVars => CurveInv'
  BY CurveStep
<1>3. CurveInv => ReportAgrees
  <2> SUFFICES ASSUME CurveInv, phase = "done" PROVE ReportAgrees
    BY DEF ReportAgrees
  <2> DEFINE worth == Worth(open, bars[N].close)
             cost == Commission * (Len(closed) + Len(open))
  <2>1. N \in Nat \ {0} /\ InitialBalance \in Int /\ Commission \in Int
    BY BacktestAssumption
  <2>2. next = N + 1 /\ next - 1 = N /\ OnCurve
    <3>1. next = N + 1
      BY DEF CurveInv
    <3>2. next > 1 /\ next - 1 = N
      BY <2>1, <3>1
    <3> QED
      BY <3>1, <3>2 DEF CurveInv
  <2>3. /\ equity \in Seq(Int) /\ Len(equity) = N /\ equity # <<>> /\ equity[1] = InitialBalance
        /\ equity[Len(equity)] = balance + worth
    BY <2>1, <2>2 DEF OnCurve
  <2>4. MaxDrawdown(equity) = worst
    <3>1. MaxDrawdown(equity) = Drawn(equity).worst
      BY Zenon DEF Drawn, MaxDrawdown
    <3>2. Drawn(equity).worst = worst
      BY <2>2 DEF OnCurve
    <3> QED
      BY <3>1, <3>2
  <2>5. Book \in BookSet /\ Balanced(Book)
    BY DEF CurveInv, BackInv, Books
  <2>6. Book.open = open /\ Book.closed = closed /\ Book.balance = balance
    BY DEF Book
  <2>7. open \in Seq(PosSet) /\ closed \in Seq(TradeSet) /\ balance \in Int
    BY <2>5, <2>6 DEF BookSet
  <2>8. worth \in Int
    <3>1. bars[N].close \in Int
      BY <2>1 DEF CurveInv, BackInv, BarSet
    <3> QED
      BY <2>7, <3>1, WorthTyped
  <2>9. Profit(closed) \in Int /\ cost \in Int
    <3>1. Len(closed) \in Nat /\ Len(open) \in Nat
      BY <2>7
    <3> QED
      BY <2>1, <2>7, <3>1, ProfitTyped
  <2>10. balance = InitialBalance + Profit(closed) - cost
    <3> DEFINE m == Len(closed)
               k == Len(open)
    <3>1. balance = InitialBalance + Profit(closed) - Commission * (k + m)
      BY <2>5, <2>6 DEF Balanced
    <3>2. m \in Nat /\ k \in Nat
      BY <2>7
    <3> HIDE DEF m, k
    <3>3. k + m = m + k
      BY <3>2
    <3> QED
      BY <3>1, <3>3 DEF m, k
  <2>11. Reported(equity) = Profit(closed) - cost + worth
    <3>1. Reported(equity) = (balance + worth) - InitialBalance
      BY <2>3 DEF Reported
    <3> HIDE DEF worth, cost
    <3> QED
      BY <2>1, <2>7, <2>8, <2>9, <2>10, <3>1
  <2>12. FormatV8.inverted.pnl + FormatV8.normal.pnl = Profit(closed)
        /\ FormatV8.inverted.pnl \in Int /\ FormatV8.normal.pnl \in Int
    <3> DEFINE K == {i \in DOMAIN closed : closed[i].pos.trigger \in InvertedTriggers}
    <3>1. DOMAIN closed \ K = {i \in DOMAIN closed : ~(closed[i].pos.trigger \in InvertedTriggers)}
      OBVIOUS
    <3>2. FormatV8.inverted = Share(Only(closed, K)) /\ FormatV8.normal = Share(Only(closed, DOMAIN closed \ K))
      BY <3>1 DEF FormatV8, Of
    <3>3. K \in SUBSET DOMAIN closed
      OBVIOUS
    <3> HIDE DEF K
    <3> QED
      BY <2>7, <3>2, <3>3, SharesAdd
  <2>13. FormatV9.sweep.pnl + FormatV9.normal.pnl = Profit(closed)
        /\ FormatV9.sweep.pnl \in Int /\ FormatV9.normal.pnl \in Int
    <3> DEFINE K == {i \in DOMAIN closed : closed[i].pos.trigger = "fvg_sweep_continuation"}
    <3>1. DOMAIN closed \ K = {i \in DOMAIN closed : ~(closed[i].pos.trigger = "fvg_sweep_continuation")}
      OBVIOUS
    <3>2. FormatV9.sweep = Share(Only(closed, K)) /\ FormatV9.normal = Share(Only(closed, DOMAIN closed \ K))
      BY <3>1 DEF FormatV9, Of
    <3>3. K \in SUBSET DOMAIN closed
      OBVIOUS
    <3> HIDE DEF K
    <3> QED
      BY <2>7, <3>2, <3>3, SharesAdd
  <2>14. FormatV10.flipped.pnl + FormatV10.rest.pnl = Profit(closed)
        /\ FormatV10.flipped.pnl \in Int /\ FormatV10.rest.pnl \in Int
    <3> DEFINE K == {i \in DOMAIN closed : closed[i].pos.trigger = "fvg_fill_in_zone"
                                           /\ closed[i].pos.dir = "short"}
    <3>1. DOMAIN closed \ K = {i \in DOMAIN closed : ~(closed[i].pos.trigger = "fvg_fill_in_zone"
                                                       /\ closed[i].pos.dir = "short")}
      OBVIOUS
    <3>2. FormatV10.flipped = Share(Only(closed, K)) /\ FormatV10.rest = Share(Only(closed, DOMAIN closed \ K))
      BY <3>1 DEF FormatV10, Of
    <3>3. K \in SUBSET DOMAIN closed
      OBVIOUS
    <3> HIDE DEF K
    <3> QED
      BY <2>7, <3>2, <3>3, SharesAdd
  <2> HIDE DEF cost, worth
  <2>15. \A s \in {<<FormatV8.inverted, FormatV8.normal>>, <<FormatV9.sweep, FormatV9.normal>>,
                   <<FormatV10.flipped, FormatV10.rest>>} :
           s[1].pnl + s[2].pnl = Profit(closed) /\ s[1].pnl \in Int /\ s[2].pnl \in Int
    BY <2>12, <2>13, <2>14
  <2>16. worth = SumOver(open, LAMBDA p : Pnl(p, bars[N].close))
    BY DEF Worth, worth
  <2>17. \A s \in {<<FormatV8.inverted, FormatV8.normal>>, <<FormatV9.sweep, FormatV9.normal>>,
                   <<FormatV10.flipped, FormatV10.rest>>} :
           Reported(equity) = s[1].pnl + s[2].pnl - cost + worth
    BY <2>8, <2>9, <2>11, <2>15
  <2>18. \A s \in {<<FormatV8.inverted, FormatV8.normal>>, <<FormatV9.sweep, FormatV9.normal>>,
                   <<FormatV10.flipped, FormatV10.rest>>} :
           Reported(equity) = s[1].pnl + s[2].pnl - Commission * (Len(closed) + Len(open))
                              + SumOver(open, LAMBDA p : Pnl(p, bars[N].close))
    BY <2>16, <2>17 DEF cost
  <2> QED
    BY <2>4, <2>18, Zenon DEF ReportAgrees
<1> QED
  BY <1>1, <1>2, <1>3, PTL DEF BacktestSpec

-----------------------------------------------------------------------------
\* The detector.

DetectionSpec == DetectionInit /\ [][DetectionNext]_detectionVars

ChartBars == [ts : Int, high : Int, low : Int, close : Int, row : Rows]
Kinds == {x.type : x \in UNION {r.block \cup r.gap : r \in Rows}}
Gaps == [ts : Int, type : Kinds, hi : Int, lo : Int, filled : Int]
Blocks == [ts : Int, type : Kinds, hi : Int, lo : Int, mitigated : BOOLEAN]

\* The window is never empty, its bars are in order, and the snapshot is made of it.
Rising(s) == \A i, j \in DOMAIN s : i < j => s[i].ts < s[j].ts
ChartInv ==
  chart \in Seq(ChartBars) /\ chart # <<>> /\ Rising(chart) /\ snap = Detect(chart)

\* The last bars of a window are a window.
LEMMA LastOnes ==
  ASSUME NEW S, NEW s \in Seq(S), s # <<>>, NEW n \in Nat \ {0}
  PROVE  LastOf(s, n) \in Seq(S) /\ LastOf(s, n) # <<>> /\ (Rising(s) => Rising(LastOf(s, n)))
<1> DEFINE m == Len(s)
           a == Most(1, m - n + 1)
<1>1. m \in Nat \ {0} /\ \A i \in 1 .. m : s[i] \in S
  OBVIOUS
<1> HIDE DEF m
<1>2. a \in 1 .. m
  BY <1>1 DEF Most
<1> HIDE DEF a
<1>3. SubSeq(s, a, m) \in Seq(S) /\ Len(SubSeq(s, a, m)) = m - a + 1
  <2>1. m = Len(s)
    BY DEF m
  <2> QED
    BY <1>1, <1>2, <2>1
<1>4. SubSeq(s, a, m) # <<>>
  <2> DEFINE q == SubSeq(s, a, m)
  <2>1. Len(q) # 0
    BY <1>1, <1>2, <1>3
  <2> HIDE DEF q
  <2>2. q # <<>>
    BY <2>1
  <2> QED
    BY <2>2 DEF q
<1>5. LastOf(s, n) = SubSeq(s, a, m)
  BY DEF LastOf, m, a
<1>6. Rising(s) => Rising(SubSeq(s, a, m))
  <2> DEFINE q == SubSeq(s, a, m)
  <2>1. m = Len(s) /\ DOMAIN s = 1 .. m
    BY DEF m
  <2>2. Len(q) = m - a + 1 /\ DOMAIN q = 1 .. m - a + 1 /\ \A k \in 1 .. m - a + 1 : q[k] = s[a + k - 1]
    BY <1>1, <1>2, <1>3, <2>1
  <2> HIDE DEF q
  <2>3. ASSUME Rising(s), NEW i \in DOMAIN q, NEW j \in DOMAIN q, i < j PROVE q[i].ts < q[j].ts
    <3> DEFINE k == a + i - 1
               l == a + j - 1
    <3>1. k \in 1 .. m /\ l \in 1 .. m /\ k < l
      BY <1>1, <1>2, <2>2, <2>3
    <3>2. q[i] = s[k] /\ q[j] = s[l]
      BY <2>2
    <3> HIDE DEF k, l
    <3> QED
      BY <2>1, <2>3, <3>1, <3>2 DEF Rising
  <2>4. Rising(s) => Rising(q)
    BY <2>3 DEF Rising
  <2> QED
    BY <2>4 DEF q
<1> QED
  BY <1>3, <1>4, <1>5, <1>6

LEMMA ChartStart == ASSUME DetectionInit PROVE ChartInv
<1>1. PICK s \in Shapes, r \in Rows :
        chart = <<[ts |-> 1, high |-> s.high, low |-> s.low, close |-> s.close, row |-> r]>>
  BY DEF DetectionInit
<1>2. s \in [high : Int, low : Int, close : Int]
  BY DetectionAssumption
<1> DEFINE bar == [ts |-> 1, high |-> s.high, low |-> s.low, close |-> s.close, row |-> r]
<1>3. bar \in ChartBars
  BY <1>2 DEF ChartBars
<1> HIDE DEF bar
<1>4. <<bar>> \in Seq(ChartBars) /\ <<bar>> # <<>> /\ Rising(<<bar>>)
  <2>1. <<bar>> \in Seq(ChartBars) /\ <<bar>> # <<>> /\ DOMAIN <<bar>> = 1 .. 1
    BY <1>3
  <2>2. \A i, j \in 1 .. 1 : ~(i < j)
    OBVIOUS
  <2> QED
    BY <2>1, <2>2 DEF Rising
<1>5. chart = <<bar>>
  BY <1>1 DEF bar
<1> QED
  BY <1>4, <1>5 DEF ChartInv, DetectionInit

LEMMA ChartStep == ASSUME ChartInv, [DetectionNext]_detectionVars PROVE ChartInv'
<1> DEFINE n == Len(chart)
<1>1. chart \in Seq(ChartBars) /\ chart # <<>> /\ Rising(chart)
  BY DEF ChartInv
<1>10. n \in Nat \ {0} /\ DOMAIN chart = 1 .. n /\ \A i \in 1 .. n : chart[i] \in ChartBars /\ chart[i].ts \in Int
  <2>1. n \in Nat \ {0} /\ DOMAIN chart = 1 .. n /\ \A i \in 1 .. n : chart[i] \in ChartBars
    BY <1>1
  <2> QED
    BY <2>1 DEF ChartBars
<1>11. Last(chart) = chart[n] /\ n \in 1 .. n
  BY <1>10 DEF Last
<1>12. \A i \in 1 .. n : chart[i].ts <= chart[n].ts
  <2> TAKE i \in 1 .. n
  <2>1. chart[i].ts \in Int /\ chart[n].ts \in Int
    BY <1>10, <1>11
  <2>10. n \in Nat \ {0}
    BY <1>10
  <2> HIDE DEF n
  <2>2. i = n \/ i < n
    BY <2>10
  <2>3. i < n => chart[i].ts < chart[n].ts
    BY <1>1, <1>10, <1>11 DEF Rising
  <2> QED
    BY <2>1, <2>2, <2>3
<1>2. Last(chart) \in ChartBars
  BY <1>1 DEF Last
<1>3. Lookback \in Nat \ {0} /\ Shapes \subseteq [high : Int, low : Int, close : Int]
  BY DetectionAssumption
<1>4. CASE NewBar
  <2>1. PICK s \in Shapes, r \in Rows :
          chart' = LastOf(Append(chart, [ts |-> Last(chart).ts + 1, high |-> s.high, low |-> s.low,
                                         close |-> s.close, row |-> r]), Lookback)
    BY <1>4 DEF NewBar
  <2> DEFINE bar == [ts |-> Last(chart).ts + 1, high |-> s.high, low |-> s.low,
                     close |-> s.close, row |-> r]
  <2>2. bar \in ChartBars
    <3>1. s \in [high : Int, low : Int, close : Int] /\ Last(chart).ts \in Int
      BY <1>2, <1>3 DEF ChartBars
    <3> QED
      BY <3>1 DEF ChartBars
  <2>20. bar.ts = chart[n].ts + 1
    BY <1>11
  <2> HIDE DEF bar
  <2> DEFINE more == Append(chart, bar)
  <2>3. more \in Seq(ChartBars) /\ more # <<>>
    BY <1>1, <2>2
  <2>30. /\ DOMAIN more = 1 .. n + 1 /\ more[n + 1] = bar
         /\ \A i \in 1 .. n : more[i] = chart[i]
    BY <1>1, <2>2
  <2>4. chart' = LastOf(more, Lookback)
    BY <2>1 DEF bar
  <2> HIDE DEF more, n
  <2>31. Rising(more)
    <3> SUFFICES ASSUME NEW i \in 1 .. n + 1, NEW j \in 1 .. n + 1, i < j PROVE more[i].ts < more[j].ts
      BY <2>30 DEF Rising
    <3>1. i \in 1 .. n
      BY <1>10
    <3>2. CASE j \in 1 .. n
      BY <1>1, <1>10, <2>30, <3>1, <3>2 DEF Rising
    <3>3. CASE j = n + 1
      <4>1. chart[i].ts <= chart[n].ts /\ chart[i].ts \in Int /\ chart[n].ts \in Int
        BY <1>10, <1>11, <1>12, <3>1
      <4> QED
        BY <2>20, <2>30, <3>1, <3>3, <4>1
    <3> QED
      BY <1>10, <3>2, <3>3
  <2>5. chart' \in Seq(ChartBars) /\ chart' # <<>> /\ Rising(chart')
    BY <1>3, <2>3, <2>31, <2>4, LastOnes
  <2> QED
    BY <1>4, <2>5 DEF ChartInv, NewBar
<1>5. CASE BarMoves
  <2>1. PICK s \in Shapes :
          chart' = Append(Front(chart), [Last(chart) EXCEPT !.high = Most(@, s.high),
                                           !.low = Least(@, s.low), !.close = s.close])
    BY <1>5 DEF BarMoves
  <2> DEFINE bar == Last(chart)
             high == Most(bar.high, s.high)
             low == Least(bar.low, s.low)
             wide == [bar EXCEPT !.high = high, !.low = low, !.close = s.close]
  <2>2. s \in [high : Int, low : Int, close : Int] /\ bar \in ChartBars
    BY <1>2, <1>3
  <2> HIDE DEF bar
  <2>3. high \in Int /\ low \in Int /\ s.close \in Int
    BY <2>2 DEF Most, Least, ChartBars
  <2>4. chart' = Append(Front(chart), wide)
    BY <2>1 DEF bar
  <2> HIDE DEF high, low
  <2>5. wide \in ChartBars /\ wide.ts = bar.ts
    BY <2>2, <2>3 DEF ChartBars
  <2> HIDE DEF wide
  <2>6. Front(chart) \in Seq(ChartBars)
    <3>1. Len(chart) \in Nat \ {0} /\ Len(chart) - 1 \in Nat /\ Len(chart) - 1 <= Len(chart)
      BY <1>1
    <3>2. Front(chart) = SubSeq(chart, 1, Len(chart) - 1)
      BY DEF Front
    <3> QED
      BY <1>1, <3>1, <3>2
  <2>60. Len(Front(chart)) = n - 1 /\ \A i \in 1 .. n - 1 : Front(chart)[i] = chart[i]
    <3>1. Front(chart) = SubSeq(chart, 1, n - 1)
      BY DEF Front
    <3> QED
      BY <1>1, <1>10, <3>1
  <2>61. /\ DOMAIN chart' = 1 .. n /\ chart'[n] = wide
         /\ \A i \in 1 .. n : i # n => chart'[i] = chart[i]
    <3> DEFINE f == Front(chart)
               m == n - 1
    <3>1. f \in Seq(ChartBars) /\ Len(f) = m /\ \A i \in 1 .. m : f[i] = chart[i]
      BY <2>6, <2>60
    <3>2. m \in Nat /\ n = m + 1 /\ \A i \in 1 .. n : i # n => i \in 1 .. m
      <4>1. n \in Nat \ {0}
        BY <1>10
      <4> HIDE DEF n
      <4> QED
        BY <4>1
    <3>3. chart' = Append(f, wide)
      BY <2>4
    <3> HIDE DEF f, m, n
    <3>4. /\ DOMAIN Append(f, wide) = 1 .. m + 1 /\ Append(f, wide)[m + 1] = wide
          /\ \A i \in 1 .. m : Append(f, wide)[i] = f[i]
      BY <2>5, <3>1, <3>2
    <3> QED
      BY <3>1, <3>2, <3>3, <3>4
  <2>62. \A i \in 1 .. n : chart'[i].ts = chart[i].ts
    BY <1>11, <2>5, <2>61 DEF bar
  <2>63. Rising(chart')
    BY <1>1, <1>10, <2>61, <2>62 DEF Rising
  <2>7. chart' \in Seq(ChartBars) /\ chart' # <<>> /\ Rising(chart')
    BY <2>4, <2>5, <2>6, <2>63
  <2> QED
    BY <1>5, <2>7 DEF ChartInv, BarMoves
<1>6. CASE UNCHANGED detectionVars
  BY <1>6 DEF ChartInv, detectionVars
<1> QED
  BY <1>4, <1>5, <1>6 DEF DetectionNext

LEMMA ChartAlways == DetectionSpec => []ChartInv
<1>1. DetectionInit => ChartInv
  BY ChartStart
<1>2. ChartInv /\ [DetectionNext]_detectionVars => ChartInv'
  BY ChartStep
<1> QED
  BY <1>1, <1>2, PTL DEF DetectionSpec

-----------------------------------------------------------------------------
\* Blocks and gaps.

Intact(x, w) == ~\E i \in After(w, x.ts) : Breaches(w[i], x)

\* A bar through the whole gap fills it.
LEMMA BreachFills ==
  ASSUME NEW g \in Gaps, NEW b \in ChartBars
  PROVE  FillPct(g, b) \in Int /\ (Breaches(b, g) => FillPct(g, b) = 100)
<1> DEFINE size == g.hi - g.lo
           depth == IF g.type = "bullish" THEN g.hi - Most(b.low, g.lo)
                    ELSE Least(b.high, g.hi) - g.lo
           clear == IF g.type = "bullish" THEN b.low >= g.hi ELSE b.high <= g.lo
           part == (100 * depth) \div size
           most == Most(g.filled, part)
<1>1. g.hi \in Int /\ g.lo \in Int /\ g.filled \in Int /\ b.low \in Int /\ b.high \in Int
  BY DEF Gaps, ChartBars
<1>2. size \in Int /\ depth \in Int
  BY <1>1 DEF Most, Least
<1>3. FillPct(g, b) = IF size <= 0 THEN 100 ELSE IF clear THEN g.filled ELSE Least(100, most)
  BY DEF FillPct
<1>4. Breaches(b, g) /\ ~(size <= 0) => ~clear /\ depth = size
  BY <1>1 DEF Breaches, Most, Least
<1> HIDE DEF size, depth, clear
<1>5. ~(size <= 0) => part \in Int
  BY <1>2
<1>6. ~(size <= 0) /\ depth = size => part = 100
  <2>1. ASSUME NEW d \in Nat \ {0} PROVE (100 * d) \div d = 100
    OBVIOUS
  <2> QED
    BY <1>2, <2>1
<1> HIDE DEF part
<1>7. ~(size <= 0) => Least(100, most) \in Int /\ (part = 100 => Least(100, most) = 100)
  BY <1>1, <1>5 DEF Least, Most
<1> HIDE DEF most
<1> QED
  BY <1>1, <1>3, <1>4, <1>6, <1>7

Fill(g, bar) == IF g.filled = 100 \/ bar.ts <= g.ts THEN g ELSE [g EXCEPT !.filled = FillPct(g, bar)]
Filled(g, w) ==
  FoldLeft(LAMBDA x, bar : IF x.filled = 100 \/ bar.ts <= x.ts THEN x
                           ELSE [x EXCEPT !.filled = FillPct(x, bar)], g, w)
SameGap(g) == {x \in Gaps : x.ts = g.ts /\ x.type = g.type /\ x.hi = g.hi /\ x.lo = g.lo}

LEMMA FillTyped ==
  ASSUME NEW g \in Gaps, NEW x \in SameGap(g), NEW b \in ChartBars
  PROVE  /\ Fill(x, b) \in SameGap(g)
         /\ x.filled = 100 => Fill(x, b).filled = 100
         /\ b.ts > g.ts /\ Breaches(b, g) => Fill(x, b).filled = 100
<1>1. x \in Gaps /\ x.ts = g.ts /\ x.type = g.type /\ x.hi = g.hi /\ x.lo = g.lo
  BY DEF SameGap
<1> DEFINE f == FillPct(x, b)
           y == [x EXCEPT !.filled = f]
<1>2. f \in Int /\ (Breaches(b, g) => f = 100)
  BY <1>1, BreachFills DEF Breaches
<1> HIDE DEF f
<1>3. y \in SameGap(g) /\ y.filled = f
  BY <1>1, <1>2 DEF SameGap, Gaps
<1>4. Fill(x, b) = IF x.filled = 100 \/ b.ts <= x.ts THEN x ELSE y
  BY DEF Fill, f
<1> HIDE DEF y
<1>5. b.ts \in Int /\ g.ts \in Int
  BY DEF ChartBars, Gaps
<1> QED
  BY <1>1, <1>2, <1>3, <1>4, <1>5

LEMMA FillRun ==
  ASSUME NEW g \in Gaps, NEW w \in Seq(ChartBars)
  PROVE  \E r \in [0 .. Len(w) -> SameGap(g)] :
           /\ r[0] = g /\ Filled(g, w) = r[Len(w)]
           /\ \A k \in 1 .. Len(w) : r[k] = Fill(r[k - 1], w[k])
<1> DEFINE n == Len(w)
           T == ChartBars
           Q == SameGap(g)
           add(x, b) == Fill(x, b)
           step == [p \in Q \X T |-> add(p[1], p[2])]
           base == g
           Next(it, X) == IF X = {} THEN base ELSE add(it[X \ {Max(X)}], w[Max(X)])
           it == CHOOSE it : it = [X \in SUBSET (1 .. n) |-> Next(it, X)]
           all == Filled(g, w)
<1>1. n \in Nat /\ DOMAIN w = 1 .. n /\ \A k \in 1 .. n : w[k] \in T
  <2> HIDE DEF T
  <2>1. w \in Seq(T)
    BY DEF T
  <2> QED
    BY <2>1, Elements
<1>2. all = it[1 .. n]
  BY <1>1 DEF Filled, FoldLeft, MapThenFoldSet, Fill
<1>3. \A q \in Q, t \in T : add(q, t) \in Q
  BY FillTyped
<1>4. base \in Q
  BY DEF SameGap
<1> HIDE DEF n, Q, T, add, all, base
<1>5. step \in [Q \X T -> Q] /\ \A q \in Q, t \in T : step[<<q, t>>] = add(q, t)
  BY <1>3
<1> HIDE DEF step
<1>6. PICK h : IsFold(h, n, Q, base, step, w)
  BY <1>1, <1>4, <1>5, FoldExists
<1>7. h = [X \in SUBSET (1 .. n) |-> Next(h, X)]
  <2>1. ASSUME NEW X \in SUBSET (1 .. n) PROVE h[X] = Next(h, X)
    <3>1. CASE X # {}
      <4>1. X \ {Max(X)} \in SUBSET (1 .. n) /\ Max(X) \in 1 .. n
        BY <1>1, <3>1, LastPlace
      <4>2. h[X \ {Max(X)}] \in Q /\ w[Max(X)] \in T
        BY <1>1, <1>6, <4>1 DEF IsFold
      <4> QED
        BY <1>5, <1>6, <3>1, <4>2 DEF IsFold
    <3>2. CASE X = {}
      BY <1>6, <3>2 DEF IsFold
    <3> QED
      BY <3>1, <3>2
  <2> QED
    BY <1>6, <2>1 DEF IsFold
<1>8. it = [X \in SUBSET (1 .. n) |-> Next(it, X)]
  <2> HIDE DEF Next
  <2> QED
    BY <1>7
<1> HIDE DEF it
<1>9. Iterates(it, n, Q, base, step, w)
  <2>1. {} \in SUBSET (1 .. n)
    OBVIOUS
  <2>2. ASSUME NEW X \in SUBSET (1 .. n), X # {}, it[X \ {Max(X)}] \in Q
        PROVE  it[X] = step[<<it[X \ {Max(X)}], w[Max(X)]>>]
    <3>1. Max(X) \in 1 .. n
      BY <1>1, <2>2, LastPlace
    <3> QED
      BY <1>1, <1>5, <1>8, <2>2, <3>1
  <2>3. it[{}] = base
    BY <1>8, <2>1
  <2> QED
    BY <2>2, <2>3 DEF Iterates
<1>10. PICK r : IsRun(r, it, n, Q, base, step, w)
  BY <1>1, <1>4, <1>5, <1>9, FoldPlaces
<1>11. ASSUME NEW k \in 1 .. n PROVE r[k] = add(r[k - 1], w[k])
  <2>1. r[k - 1] \in Q /\ w[k] \in T /\ r[k] = step[<<r[k - 1], w[k]>>]
    BY <1>1, <1>10 DEF IsRun
  <2> QED
    BY <1>5, <2>1
<1>12. r \in [0 .. n -> Q] /\ r[0] = base /\ all = r[n]
  BY <1>2, <1>10 DEF IsRun
<1> QED
  BY <1>11, <1>12 DEF Q, n, add, all, base

\* A gap that a later bar has gone through is filled.
LEMMA BreachedIsFilled ==
  ASSUME NEW g \in Gaps, NEW w \in Seq(ChartBars)
  PROVE  Filled(g, w) \in SameGap(g) /\ (~Intact(g, w) => Filled(g, w).filled = 100)
<1> DEFINE n == Len(w)
<1>1. n \in Nat /\ DOMAIN w = 1 .. n /\ \A i \in 1 .. n : w[i] \in ChartBars
  BY Elements
<1>2. PICK r \in [0 .. n -> SameGap(g)] :
        /\ r[0] = g /\ Filled(g, w) = r[n]
        /\ \A k \in 1 .. n : r[k] = Fill(r[k - 1], w[k])
  BY FillRun
<1> HIDE DEF n
<1>3. ASSUME NEW i \in 1 .. n, w[i].ts > g.ts, Breaches(w[i], g) PROVE r[n].filled = 100
  <2> DEFINE Good == {k \in Nat : i + k <= n => r[i + k].filled = 100}
  <2>1. 0 \in Good
    <3>1. i - 1 \in 0 .. n /\ i + 0 = i
      BY <1>1
    <3>2. r[i - 1] \in SameGap(g) /\ r[i] = Fill(r[i - 1], w[i]) /\ w[i] \in ChartBars
      BY <1>1, <1>2, <3>1
    <3>3. r[i].filled = 100
      BY <1>3, <3>2, FillTyped
    <3> QED
      BY <3>1, <3>3
  <2>2. ASSUME NEW k \in Nat, k \in Good PROVE k + 1 \in Good
    <3> SUFFICES ASSUME i + (k + 1) <= n PROVE r[i + (k + 1)].filled = 100
      OBVIOUS
    <3> DEFINE l == i + k
               j == i + (k + 1)
    <3>1. j \in 1 .. n /\ j - 1 = l /\ l \in 0 .. n
      BY <1>1
    <3>2. r[l].filled = 100
      BY <1>1, <2>2, <3>1
    <3> HIDE DEF l, j
    <3>3. r[l] \in SameGap(g) /\ r[j] = Fill(r[l], w[j]) /\ w[j] \in ChartBars
      BY <1>1, <1>2, <3>1
    <3>4. r[j].filled = 100
      BY <3>2, <3>3, FillTyped
    <3> QED
      BY <3>4 DEF j
  <2>3. n - i \in Nat /\ i + (n - i) = n
    BY <1>1
  <2> HIDE DEF Good
  <2>4. n - i \in Good
    BY <2>1, <2>2, <2>3, NatInd
  <2> QED
    BY <1>1, <2>3, <2>4 DEF Good
<1>4. ~Intact(g, w) => \E i \in 1 .. n : w[i].ts > g.ts /\ Breaches(w[i], g)
  BY <1>1 DEF Intact, After
<1>5. r[n] \in SameGap(g)
  BY <1>1, <1>2
<1> QED
  BY <1>2, <1>3, <1>4, <1>5

\* What the window gives the scanner.
LEMMA BlocksFound ==
  ASSUME NEW w \in Seq(ChartBars)
  PROVE  /\ UpdateMitigation(DetectOrderBlocks(w), w) \in Seq(Blocks)
         /\ \A x \in Range(UpdateMitigation(DetectOrderBlocks(w), w)) : ~x.mitigated => Intact(x, w)
<1> DEFINE has == {b \in ChartBars : b.row.block # {}}
           none(x) == x.hi = 0 /\ x.lo = 0
           places == {i \in DOMAIN w : w[i].row.block # {} /\ ~none(TheOne(w[i].row.block))}
           at == Only(w, places)
           block(b) == LET x == TheOne(b.row.block)
                       IN  [ts |-> b.ts, type |-> x.type, hi |-> x.hi, lo |-> x.lo, mitigated |-> x.mitigated]
           obs == [i \in DOMAIN at |-> block(at[i])]
           now2(o) == [o EXCEPT !.mitigated = @ \/ \E i \in After(w, o.ts) : Breaches(w[i], o)]
           updated == [k \in DOMAIN obs |-> now2(obs[k])]
<1>1. \A i \in DOMAIN w : w[i] \in ChartBars
  BY Elements
<1>2. at \in Seq(ChartBars) /\ \A k \in DOMAIN at : at[k] \in has
  <2>1. places \in SUBSET DOMAIN w
    OBVIOUS
  <2>2. \A i \in places : w[i] \in has
    BY <1>1
  <2> HIDE DEF places
  <2>3. Only(w, places) \in Seq(ChartBars)
        /\ \A k \in DOMAIN Only(w, places) : \E i \in places : Only(w, places)[k] = w[i]
    BY <2>1, Chosen
  <2> QED
    BY <2>2, <2>3
<1>3. ASSUME NEW b \in has PROVE block(b) \in Blocks
  <2> DEFINE x == TheOne(b.row.block)
  <2>1. b \in ChartBars /\ b.row.block # {} /\ b.row \in Rows /\ b.ts \in Int
    BY DEF ChartBars
  <2>2. x \in b.row.block
    BY <2>1 DEF TheOne
  <2> HIDE DEF x
  <2>3. x.hi \in Int /\ x.lo \in Int /\ x.mitigated \in BOOLEAN
    BY <2>1, <2>2, DetectionAssumption
  <2>4. x.type \in Kinds
    BY <2>1, <2>2 DEF Kinds
  <2>5. block(b) = [ts |-> b.ts, type |-> x.type, hi |-> x.hi, lo |-> x.lo, mitigated |-> x.mitigated]
    BY DEF x
  <2> HIDE DEF block
  <2> QED
    BY <2>1, <2>3, <2>4, <2>5 DEF Blocks
<1>4. DetectOrderBlocks(w) = obs
  BY DEF DetectOrderBlocks
<1>5. UpdateMitigation(obs, w) = updated
  BY DEF UpdateMitigation
<1> HIDE DEF at, block, has
<1>6. obs \in Seq(Blocks)
  BY <1>2, <1>3
<1> HIDE DEF obs
<1>7. ASSUME NEW o \in Blocks
      PROVE  now2(o) \in Blocks /\ (~now2(o).mitigated => Intact(now2(o), w))
  <2> DEFINE hit == \E i \in After(w, o.ts) : Breaches(w[i], o)
             m == o.mitigated \/ hit
             x == [o EXCEPT !.mitigated = m]
  <2>1. hit \in BOOLEAN /\ o.mitigated \in BOOLEAN
    BY DEF Blocks
  <2>2. now2(o) = x
    OBVIOUS
  <2> HIDE DEF hit, now2
  <2>3. m \in BOOLEAN
    BY <2>1
  <2> HIDE DEF m
  <2>4. x \in Blocks /\ x.mitigated = m /\ x.ts = o.ts /\ x.type = o.type /\ x.hi = o.hi /\ x.lo = o.lo
    BY <2>3 DEF Blocks
  <2> HIDE DEF x
  <2>5. Intact(x, w) <=> ~hit
    BY <2>4 DEF Intact, Breaches, hit
  <2> QED
    BY <2>1, <2>2, <2>4, <2>5, Zenon DEF m
<1> HIDE DEF now2
<1>8. updated \in Seq(Blocks) /\ \A k \in DOMAIN updated : ~updated[k].mitigated => Intact(updated[k], w)
  BY <1>6, <1>7
<1> HIDE DEF updated
<1> QED
  BY <1>4, <1>5, <1>8 DEF Range

LEMMA GapsFound ==
  ASSUME NEW w \in Seq(ChartBars)
  PROVE  /\ UpdateFillStatus(DetectFvgs(w), w) \in Seq(Gaps)
         /\ \A x \in Range(UpdateFillStatus(DetectFvgs(w), w)) : x.filled < 100 => Intact(x, w)
<1> DEFINE has == {b \in ChartBars : b.row.gap # {}}
           places == {i \in DOMAIN w : w[i].row.gap # {}}
           at == Only(w, places)
           gap(b) == LET x == TheOne(b.row.gap)
                     IN  [ts |-> b.ts, type |-> x.type, hi |-> x.hi, lo |-> x.lo,
                          filled |-> IF x.mitigated THEN 100 ELSE 0]
           gaps == [i \in DOMAIN at |-> gap(at[i])]
           updated == [k \in DOMAIN gaps |-> Filled(gaps[k], w)]
<1>1. \A i \in DOMAIN w : w[i] \in ChartBars
  BY Elements
<1>2. at \in Seq(ChartBars) /\ \A k \in DOMAIN at : at[k] \in has
  <2>1. places \in SUBSET DOMAIN w
    OBVIOUS
  <2>2. \A i \in places : w[i] \in has
    BY <1>1
  <2> HIDE DEF places
  <2>3. Only(w, places) \in Seq(ChartBars)
        /\ \A k \in DOMAIN Only(w, places) : \E i \in places : Only(w, places)[k] = w[i]
    BY <2>1, Chosen
  <2> QED
    BY <2>2, <2>3
<1>3. ASSUME NEW b \in has PROVE gap(b) \in Gaps
  <2> DEFINE x == TheOne(b.row.gap)
             f == IF x.mitigated THEN 100 ELSE 0
  <2>1. b \in ChartBars /\ b.row.gap # {} /\ b.row \in Rows /\ b.ts \in Int
    BY DEF ChartBars
  <2>2. x \in b.row.gap
    BY <2>1 DEF TheOne
  <2>3. gap(b) = [ts |-> b.ts, type |-> x.type, hi |-> x.hi, lo |-> x.lo, filled |-> f]
    OBVIOUS
  <2> HIDE DEF x, gap
  <2>4. x.hi \in Int /\ x.lo \in Int
    BY <2>1, <2>2, DetectionAssumption
  <2>5. x.type \in Kinds
    BY <2>1, <2>2 DEF Kinds
  <2>6. f \in Int
    OBVIOUS
  <2> HIDE DEF f
  <2> QED
    BY <2>1, <2>3, <2>4, <2>5, <2>6 DEF Gaps
<1>4. DetectFvgs(w) = gaps
  BY DEF DetectFvgs, Found
<1>5. UpdateFillStatus(gaps, w) = updated
  BY DEF UpdateFillStatus, Filled
<1> HIDE DEF at, gap, has
<1>6. gaps \in Seq(Gaps)
  BY <1>2, <1>3
<1> HIDE DEF gaps
<1>7. ASSUME NEW g \in Gaps
      PROVE  Filled(g, w) \in Gaps /\ (Filled(g, w).filled < 100 => Intact(Filled(g, w), w))
  <2> DEFINE x == Filled(g, w)
  <2>1. x \in SameGap(g) /\ (~Intact(g, w) => x.filled = 100)
    BY BreachedIsFilled
  <2> HIDE DEF x
  <2>2. x \in Gaps /\ x.ts = g.ts /\ x.type = g.type /\ x.hi = g.hi /\ x.lo = g.lo
    BY <2>1 DEF SameGap
  <2>3. Intact(x, w) <=> Intact(g, w)
    BY <2>2 DEF Intact, Breaches
  <2>4. ~(100 < 100)
    OBVIOUS
  <2>5. x.filled < 100 => Intact(x, w)
    BY <2>1, <2>3, <2>4
  <2> QED
    BY <2>2, <2>5 DEF x
<1>8. updated \in Seq(Gaps) /\ \A k \in DOMAIN updated : updated[k].filled < 100 => Intact(updated[k], w)
  BY <1>6, <1>7
<1> HIDE DEF updated
<1> QED
  BY <1>4, <1>5, <1>8 DEF Range

\* A zone that is scanned is a block that is not mitigated or a gap that is not filled.
MadeFrom(z, view, dir) ==
  \/ \E x \in Range(view.obs) : x.type = dir /\ ~x.mitigated /\ z.hi = x.hi /\ z.lo = x.lo
  \/ \E x \in Range(view.fvgs) : x.type = dir /\ x.filled < 100 /\ z.hi = x.hi /\ z.lo = x.lo

LEMMA ScannedFrom ==
  ASSUME NEW view, NEW B, NEW G, view.obs \in Seq(B), view.fvgs \in Seq(G), NEW dir,
         NEW z \in Range(ScanZones(view, dir))
  PROVE  MadeFrom(z, view, dir)
<1> DEFINE fresh == {i \in DOMAIN view.obs : view.obs[i].type = dir /\ ~view.obs[i].mitigated}
           part == {i \in DOMAIN view.fvgs : view.fvgs[i].type = dir /\ view.fvgs[i].filled < 100}
           F == {view.obs[i] : i \in fresh}
           P == {view.fvgs[i] : i \in part}
           Z == {y \in [hi : {x.hi : x \in F \cup P}, lo : {x.lo : x \in F \cup P},
                        type : {"ob_fvg_overlap", "ob", "fvg"}, dir : Sides, conf : Int] :
                  \E x \in F \cup P : y.hi = x.hi /\ y.lo = x.lo}
           obs == Only(view.obs, fresh)
           gaps == Only(view.fvgs, part)
           crossed(x, others) == \E y \in Range(others) : Overlap(x, y)
           ob(o) == IF crossed(o, gaps) THEN Zone(o, "ob_fvg_overlap", dir, 950)
                    ELSE Zone(o, "ob", dir, 800)
           base(g) == IF g.filled = 0 THEN 600 ELSE 400
           gap(g) == IF crossed(g, obs) THEN Zone(g, "ob_fvg_overlap", dir, base(g) + 150)
                     ELSE Zone(g, "fvg", dir, base(g))
<1>1. obs \in Seq(B) /\ gaps \in Seq(G) /\ (\A k \in DOMAIN obs : obs[k] \in F) /\ \A k \in DOMAIN gaps : gaps[k] \in P
  <2>1. fresh \in SUBSET DOMAIN view.obs /\ part \in SUBSET DOMAIN view.fvgs
    OBVIOUS
  <2> HIDE DEF fresh, part
  <2>2. /\ Only(view.obs, fresh) \in Seq(B)
        /\ \A k \in DOMAIN Only(view.obs, fresh) : \E i \in fresh : Only(view.obs, fresh)[k] = view.obs[i]
    BY <2>1, Chosen
  <2>3. /\ Only(view.fvgs, part) \in Seq(G)
        /\ \A k \in DOMAIN Only(view.fvgs, part) : \E i \in part : Only(view.fvgs, part)[k] = view.fvgs[i]
    BY <2>1, Chosen
  <2> QED
    BY <2>2, <2>3
<1>2. Candidates(view, dir) = [i \in DOMAIN obs |-> ob(obs[i])] \o [i \in DOMAIN gaps |-> gap(gaps[i])]
  BY DEF Candidates
<1>3. ASSUME NEW x \in F \cup P, NEW type \in {"ob_fvg_overlap", "ob", "fvg"}, NEW conf \in Int
      PROVE  Zone(x, type, dir, conf) \in Z
  <2>1. Side(dir) \in Sides
    BY DEF Side, Sides
  <2>2. Zone(x, type, dir, conf) = [hi |-> x.hi, lo |-> x.lo, type |-> type, dir |-> Side(dir), conf |-> conf]
    BY DEF Zone
  <2> DEFINE y == Zone(x, type, dir, conf)
             A == F \cup P
  <2>3. x \in A
    OBVIOUS
  <2> HIDE DEF F, P, A
  <2>4. y \in [hi : {u.hi : u \in A}, lo : {u.lo : u \in A},
               type : {"ob_fvg_overlap", "ob", "fvg"}, dir : Sides, conf : Int] /\ y.hi = x.hi /\ y.lo = x.lo
    BY <2>1, <2>2, <2>3
  <2> QED
    BY <2>3, <2>4 DEF A
<1> HIDE DEF obs, gaps, crossed, Z
<1>4. ASSUME NEW o \in F PROVE ob(o) \in Z
  <2>1. 950 \in Int /\ 800 \in Int /\ o \in F \cup P
    OBVIOUS
  <2> HIDE DEF F, P
  <2>2. Zone(o, "ob_fvg_overlap", dir, 950) \in Z /\ Zone(o, "ob", dir, 800) \in Z
    BY <1>3, <2>1
  <2> QED
    BY <2>2
<1>5. ASSUME NEW g \in P PROVE gap(g) \in Z
  <2>1. base(g) \in Int /\ base(g) + 150 \in Int /\ g \in F \cup P
    OBVIOUS
  <2> HIDE DEF base, F, P
  <2>2. Zone(g, "ob_fvg_overlap", dir, base(g) + 150) \in Z /\ Zone(g, "fvg", dir, base(g)) \in Z
    BY <1>3, <2>1
  <2> QED
    BY <2>2
<1>6. \A y \in Z : y.conf \in Int /\ \E x \in F \cup P : y.hi = x.hi /\ y.lo = x.lo
  BY DEF Z
<1> HIDE DEF ob, gap, F, P
<1>7. Candidates(view, dir) \in Seq(Z)
  <2>1. [i \in DOMAIN obs |-> ob(obs[i])] \in Seq(Z) /\ [i \in DOMAIN gaps |-> gap(gaps[i])] \in Seq(Z)
    <3>1. DOMAIN obs = 1 .. Len(obs) /\ DOMAIN gaps = 1 .. Len(gaps) /\ Len(obs) \in Nat /\ Len(gaps) \in Nat
      BY <1>1, Elements
    <3> QED
      BY <1>1, <1>4, <1>5, <3>1
  <2> QED
    BY <1>2, <2>1
<1>8. Deduplicate(Candidates(view, dir)) \in Seq(Z)
  <2>1. Descending(Candidates(view, dir), LAMBDA x : x.conf) \in Seq(Z)
    BY <1>6, <1>7, Sorted
  <2> QED
    BY <2>1, KeptApart DEF Deduplicate
<1>9. ScanZones(view, dir) \in Seq(Z)
  <2>1. <<>> \in Seq(Z)
    OBVIOUS
  <2> QED
    BY <1>8, <2>1, Firsts DEF ScanZones
<1>10. z \in Z
  <2>1. \A k \in DOMAIN ScanZones(view, dir) : ScanZones(view, dir)[k] \in Z
    BY <1>9, Elements
  <2> QED
    BY <2>1 DEF Range
<1>11. PICK x \in F \cup P : z.hi = x.hi /\ z.lo = x.lo
  BY <1>6, <1>10
<1> QED
  BY <1>11 DEF F, P, Range, MadeFrom

\* update_mitigation, update_fill_status and the zone scanner, together: whatever the bars, a zone that is
\* offered for trading has not been broken by any bar since what made it, not even by
\* the bar that is forming.
THEOREM ZonesAreIntact == DetectionSpec => []OfferedZonesAreIntact
<1>1. ChartInv => OfferedZonesAreIntact
  <2> SUFFICES ASSUME ChartInv, NEW dir \in {"bullish", "bearish"}, NEW z \in Range(ScanZones(snap, dir))
               PROVE  \E x \in Range(snap.obs) \cup Range(snap.fvgs) :
                        x.type = dir /\ x.hi = z.hi /\ x.lo = z.lo /\ Intact(x, chart)
    BY DEF OfferedZonesAreIntact, Intact
  <2>1. chart \in Seq(ChartBars)
    BY DEF ChartInv
  <2>2. /\ snap.obs = UpdateMitigation(DetectOrderBlocks(chart), chart)
        /\ snap.fvgs = UpdateFillStatus(DetectFvgs(chart), chart)
    BY DEF ChartInv, Detect
  <2>3. snap.obs \in Seq(Blocks) /\ \A x \in Range(snap.obs) : ~x.mitigated => Intact(x, chart)
    BY <2>1, <2>2, BlocksFound
  <2>4. snap.fvgs \in Seq(Gaps) /\ \A x \in Range(snap.fvgs) : x.filled < 100 => Intact(x, chart)
    BY <2>1, <2>2, GapsFound
  <2>5. MadeFrom(z, snap, dir)
    BY <2>3, <2>4, ScannedFrom
  <2> QED
    BY <2>3, <2>4, <2>5 DEF MadeFrom
<1> QED
  BY <1>1, ChartAlways, PTL

-----------------------------------------------------------------------------
\* Swings.

Settled(s) == \A i \in 1 .. Len(s) - 1 : ~TooClose(s[i], s[i + 1])

\* What a pass leaves of the swings from the i-th on.
Leaves(q, S, s, i) ==
  LET n == Len(s)
      close == \E j \in i .. n - 1 : TooClose(s[j], s[j + 1])
  IN  /\ q \in Seq(S)
      /\ \A k \in 1 .. Len(q) : \E j \in i .. n : q[k] = s[j]
      /\ i <= n => Len(q) # 0 /\ q[Len(q)] = s[n]
      /\ close => Len(q) < n + 1 - i
      /\ ~close => Len(q) = n + 1 - i /\ \A k \in 1 .. Len(q) : q[k] = s[i + k - 1]
      /\ Rising(s) => \A k, l \in 1 .. Len(q) : k < l => q[k].ts < q[l].ts

LEMMA LeavesNone ==
  ASSUME NEW S, NEW s \in Seq(S) PROVE Leaves(<<>>, S, s, Len(s) + 1)
<1> DEFINE n == Len(s)
           i == n + 1
           q == <<>>
<1>1. n \in Nat /\ i .. n - 1 = {} /\ ~(i <= n) /\ n + 1 - i = 0
  OBVIOUS
<1>2. q \in Seq(S) /\ Len(q) = 0 /\ 1 .. Len(q) = {}
  OBVIOUS
<1> HIDE DEF n, i, q
<1> QED
  BY <1>1, <1>2 DEF Leaves, n, i, q

\* One element, and what is left of the rest.
LEMMA Longer ==
  ASSUME NEW S, NEW x \in S, NEW q \in Seq(S)
  PROVE  /\ <<x>> \o q \in Seq(S) /\ Len(<<x>> \o q) = Len(q) + 1 /\ (<<x>> \o q)[1] = x
         /\ Len(q) \in Nat /\ \A k \in 1 .. Len(q) + 1 : k # 1 => (<<x>> \o q)[k] = q[k - 1] /\ k - 1 \in 1 .. Len(q)
OBVIOUS

LEMMA LeavesOne ==
  ASSUME NEW S, NEW s \in Seq(S), \A x \in S : x.ts \in Int,
         NEW i \in 1 .. Len(s), ~(i < Len(s) /\ TooClose(s[i], s[i + 1])),
         NEW q, Leaves(q, S, s, i + 1)
  PROVE  Leaves(<<s[i]>> \o q, S, s, i)
<1> DEFINE n == Len(s)
           j == i + 1
           close(a) == \E b \in a .. n - 1 : TooClose(s[b], s[b + 1])
           p == <<s[i]>> \o q
           m == Len(q)
<1>1. n \in Nat /\ i \in 1 .. n /\ j = i + 1 /\ (\A b \in 1 .. n : s[b] \in S) /\ DOMAIN s = 1 .. n
  BY Elements
<1>2. ~(i < n /\ TooClose(s[i], s[i + 1]))
  OBVIOUS
<1>3. /\ q \in Seq(S) /\ m \in Nat
      /\ \A k \in 1 .. m : \E b \in j .. n : q[k] = s[b]
      /\ j <= n => m # 0 /\ q[m] = s[n]
      /\ close(j) => m < n + 1 - j
      /\ ~close(j) => m = n + 1 - j /\ \A k \in 1 .. m : q[k] = s[j + k - 1]
      /\ Rising(s) => \A k, l \in 1 .. m : k < l => q[k].ts < q[l].ts
  BY DEF Leaves
<1>4. /\ p \in Seq(S) /\ Len(p) = m + 1 /\ p[1] = s[i]
      /\ \A k \in 1 .. m + 1 : k # 1 => p[k] = q[k - 1] /\ k - 1 \in 1 .. m
  BY <1>1, <1>3, Longer
<1>5. close(i) <=> close(j)
  BY <1>1, <1>2
<1> HIDE DEF n, j, p, m, close
<1>6. \A k \in 1 .. m + 1 : \E b \in i .. n : p[k] = s[b]
  <2> TAKE k \in 1 .. m + 1
  <2>1. CASE k = 1
    BY <1>1, <1>4, <2>1
  <2>2. CASE k # 1
    <3>1. PICK b \in j .. n : q[k - 1] = s[b]
      BY <1>3, <1>4, <2>2
    <3>2. b \in i .. n
      BY <1>1
    <3> QED
      BY <1>4, <2>2, <3>1, <3>2
  <2> QED
    BY <2>1, <2>2
<1>7. m + 1 # 0 /\ p[m + 1] = s[n]
  <2>1. CASE m = 0
    <3>1. ~(j <= n)
      BY <1>3, <2>1
    <3>2. i = n
      BY <1>1, <3>1
    <3> QED
      BY <1>4, <2>1, <3>2
  <2>2. CASE m # 0
    <3>1. j <= n
      <4>1. PICK b \in j .. n : q[1] = s[b]
        BY <1>3, <2>2
      <4> QED
        BY <1>1, <4>1
    <3>2. m + 1 \in 1 .. m + 1 /\ m + 1 # 1 /\ m + 1 - 1 = m
      BY <1>3, <2>2
    <3> QED
      BY <1>3, <1>4, <3>1, <3>2
  <2> QED
    BY <2>1, <2>2
<1>8. close(i) => m + 1 < n + 1 - i
  BY <1>1, <1>3, <1>5
<1>9. ~close(i) => m + 1 = n + 1 - i /\ \A k \in 1 .. m + 1 : p[k] = s[i + k - 1]
  <2> SUFFICES ASSUME ~close(i) PROVE m + 1 = n + 1 - i /\ \A k \in 1 .. m + 1 : p[k] = s[i + k - 1]
    OBVIOUS
  <2>1. m = n + 1 - j /\ \A k \in 1 .. m : q[k] = s[j + k - 1]
    BY <1>3, <1>5
  <2>2. m + 1 = n + 1 - i
    BY <1>1, <1>3, <2>1
  <2>3. ASSUME NEW k \in 1 .. m + 1 PROVE p[k] = s[i + k - 1]
    <3>1. CASE k = 1
      BY <1>1, <1>4, <3>1
    <3>2. CASE k # 1
      <4>1. p[k] = q[k - 1] /\ k - 1 \in 1 .. m
        BY <1>4, <3>2
      <4>2. q[k - 1] = s[j + (k - 1) - 1]
        BY <2>1, <4>1
      <4>3. j + (k - 1) - 1 = i + k - 1
        BY <1>1, <1>3
      <4> QED
        BY <4>1, <4>2, <4>3
    <3> QED
      BY <3>1, <3>2
  <2> QED
    BY <2>2, <2>3
<1>10. Rising(s) => \A k, l \in 1 .. m + 1 : k < l => p[k].ts < p[l].ts
  <2> SUFFICES ASSUME Rising(s), NEW k \in 1 .. m + 1, NEW l \in 1 .. m + 1, k < l
               PROVE  p[k].ts < p[l].ts
    OBVIOUS
  <2>1. l # 1
    BY <1>3
  <2>2. p[l] = q[l - 1] /\ l - 1 \in 1 .. m
    BY <1>4, <2>1
  <2>3. CASE k = 1
    <3>1. PICK b \in j .. n : q[l - 1] = s[b]
      BY <1>3, <2>2
    <3>2. i < b /\ b \in 1 .. n
      BY <1>1
    <3>3. s[i].ts < s[b].ts
      BY <1>1, <3>2 DEF Rising
    <3> QED
      BY <1>4, <2>2, <2>3, <3>1, <3>3
  <2>4. CASE k # 1
    <3>1. p[k] = q[k - 1] /\ k - 1 \in 1 .. m
      BY <1>4, <2>4
    <3>2. k - 1 < l - 1
      BY <1>3
    <3> QED
      BY <1>3, <2>2, <3>1, <3>2
  <2> QED
    BY <2>3, <2>4
<1>11. /\ p \in Seq(S)
       /\ \A k \in 1 .. Len(p) : \E b \in i .. n : p[k] = s[b]
       /\ i <= n => Len(p) # 0 /\ p[Len(p)] = s[n]
       /\ close(i) => Len(p) < n + 1 - i
       /\ ~close(i) => Len(p) = n + 1 - i /\ \A k \in 1 .. Len(p) : p[k] = s[i + k - 1]
       /\ Rising(s) => \A k, l \in 1 .. Len(p) : k < l => p[k].ts < p[l].ts
  BY <1>4, <1>6, <1>7, <1>8, <1>9, <1>10
<1> QED
  BY <1>11, Zenon DEF Leaves, p, n, close

LEMMA LeavesTwo ==
  ASSUME NEW S, NEW s \in Seq(S), \A x \in S : x.ts \in Int,
         NEW i \in 1 .. Len(s), i < Len(s), TooClose(s[i], s[i + 1]),
         NEW q, Leaves(q, S, s, i + 2)
  PROVE  Leaves(<<s[i + 1]>> \o q, S, s, i)
<1> DEFINE n == Len(s)
           h == i + 1
           j == i + 2
           close(a) == \E b \in a .. n - 1 : TooClose(s[b], s[b + 1])
           p == <<s[h]>> \o q
           m == Len(q)
<1>1. n \in Nat /\ i \in 1 .. n /\ i < n /\ j = i + 2 /\ h = i + 1 /\ h \in 1 .. n /\ (\A b \in 1 .. n : s[b] \in S) /\ DOMAIN s = 1 .. n
  <2>1. n \in Nat /\ (\A b \in 1 .. n : s[b] \in S) /\ DOMAIN s = 1 .. n
    BY Elements
  <2> QED
    BY <2>1
<1>2. close(i)
  BY <1>1
<1>3. /\ q \in Seq(S) /\ m \in Nat
      /\ \A k \in 1 .. m : \E b \in j .. n : q[k] = s[b]
      /\ j <= n => m # 0 /\ q[m] = s[n]
      /\ close(j) => m < n + 1 - j
      /\ ~close(j) => m = n + 1 - j /\ \A k \in 1 .. m : q[k] = s[j + k - 1]
      /\ Rising(s) => \A k, l \in 1 .. m : k < l => q[k].ts < q[l].ts
  BY DEF Leaves
<1>4. /\ p \in Seq(S) /\ Len(p) = m + 1 /\ p[1] = s[h]
      /\ \A k \in 1 .. m + 1 : k # 1 => p[k] = q[k - 1] /\ k - 1 \in 1 .. m
  <2>1. s[h] \in S
    BY <1>1
  <2> QED
    BY <1>3, <2>1, Longer
<1> HIDE DEF n, h, j, p, m, close
<1>6. \A k \in 1 .. m + 1 : \E b \in i .. n : p[k] = s[b]
  <2> TAKE k \in 1 .. m + 1
  <2>1. CASE k = 1
    <3>1. h \in i .. n
      BY <1>1
    <3> QED
      BY <1>4, <2>1, <3>1
  <2>2. CASE k # 1
    <3>1. PICK b \in j .. n : q[k - 1] = s[b]
      BY <1>3, <1>4, <2>2
    <3>2. b \in i .. n
      BY <1>1
    <3> QED
      BY <1>4, <2>2, <3>1, <3>2
  <2> QED
    BY <2>1, <2>2
<1>7. m + 1 # 0 /\ p[m + 1] = s[n]
  <2>1. CASE m = 0
    <3>1. ~(j <= n)
      BY <1>3, <2>1
    <3>2. h = n
      BY <1>1, <3>1
    <3> QED
      BY <1>4, <2>1, <3>2
  <2>2. CASE m # 0
    <3>1. j <= n
      <4>1. PICK b \in j .. n : q[1] = s[b]
        BY <1>3, <2>2
      <4> QED
        BY <1>1, <4>1
    <3>2. m + 1 \in 1 .. m + 1 /\ m + 1 # 1 /\ m + 1 - 1 = m
      BY <1>3, <2>2
    <3> QED
      BY <1>3, <1>4, <3>1, <3>2
  <2> QED
    BY <2>1, <2>2
<1>8. m + 1 < n + 1 - i
  BY <1>1, <1>3
<1>10. Rising(s) => \A k, l \in 1 .. m + 1 : k < l => p[k].ts < p[l].ts
  <2> SUFFICES ASSUME Rising(s), NEW k \in 1 .. m + 1, NEW l \in 1 .. m + 1, k < l
               PROVE  p[k].ts < p[l].ts
    OBVIOUS
  <2>1. l # 1
    BY <1>3
  <2>2. p[l] = q[l - 1] /\ l - 1 \in 1 .. m
    BY <1>4, <2>1
  <2>3. CASE k = 1
    <3>1. PICK b \in j .. n : q[l - 1] = s[b]
      BY <1>3, <2>2
    <3>2. h < b /\ b \in 1 .. n
      BY <1>1
    <3>3. s[h].ts < s[b].ts
      BY <1>1, <3>2 DEF Rising
    <3> QED
      BY <1>4, <2>2, <2>3, <3>1, <3>3
  <2>4. CASE k # 1
    <3>1. p[k] = q[k - 1] /\ k - 1 \in 1 .. m
      BY <1>4, <2>4
    <3>2. k - 1 < l - 1
      BY <1>3
    <3> QED
      BY <1>3, <2>2, <3>1, <3>2
  <2> QED
    BY <2>3, <2>4
<1>11. /\ p \in Seq(S)
       /\ \A k \in 1 .. Len(p) : \E b \in i .. n : p[k] = s[b]
       /\ i <= n => Len(p) # 0 /\ p[Len(p)] = s[n]
       /\ close(i) => Len(p) < n + 1 - i
       /\ ~close(i) => Len(p) = n + 1 - i /\ \A k \in 1 .. Len(p) : p[k] = s[i + k - 1]
       /\ Rising(s) => \A k, l \in 1 .. Len(p) : k < l => p[k].ts < p[l].ts
  BY <1>2, <1>4, <1>6, <1>7, <1>8, <1>10
<1> QED
  BY <1>11, Zenon DEF Leaves, p, n, close, h

\* q is what some passes leave of s.
Thins(q, S, s) ==
  /\ q \in Seq(S)
  /\ \A k \in 1 .. Len(q) : \E j \in 1 .. Len(s) : q[k] = s[j]
  /\ Len(s) # 0 => Len(q) # 0 /\ q[Len(q)] = s[Len(s)]
  /\ Rising(s) => Rising(q)

\* One pass: it shortens what has a pair that is too close, and leaves the rest alone.
LEMMA OnePass ==
  ASSUME NEW S, NEW s \in Seq(S), \A x \in S : x.ts \in Int
  PROVE  /\ Thins(Thinned(s), S, s)
         /\ Settled(s) => Thinned(s) = s
         /\ ~Settled(s) => Len(Thinned(s)) < Len(s)
<1> DEFINE n == Len(s)
           Q == Seq(S)
           Body(f, i) == IF i > n THEN <<>>
                         ELSE IF i < n /\ TooClose(s[i], s[i + 1]) THEN <<s[i + 1]>> \o f[i + 2]
                         ELSE <<s[i]>> \o f[i + 1]
           from == CHOOSE f : f = [i \in 1 .. n + 1 |-> Body(f, i)]
           UpTo(m) == \E g \in [n + 1 - m .. n + 1 -> Q] : \A i \in n + 1 - m .. n + 1 : g[i] = Body(g, i)
           Ns == {m \in Nat : m <= n => UpTo(m)}
<1>1. n \in Nat /\ (\A b \in 1 .. n : s[b] \in S) /\ DOMAIN s = 1 .. n
  BY Elements
<1>2. Thinned(s) = from[1]
  BY DEF Thinned
<1>3. ASSUME NEW f, NEW i \in 1 .. n + 1,
             i <= n => f[i + 1] \in Q, i < n => f[i + 2] \in Q
      PROVE  Body(f, i) \in Q
  <2>1. CASE i > n
    BY <2>1
  <2>2. CASE ~(i > n) /\ i < n /\ TooClose(s[i], s[i + 1])
    <3>1. i + 1 \in 1 .. n
      BY <1>1, <2>2
    <3>2. s[i + 1] \in S /\ f[i + 2] \in Seq(S)
      BY <1>1, <1>3, <2>2, <3>1
    <3>3. <<s[i + 1]>> \o f[i + 2] \in Seq(S)
      BY <3>2, Longer
    <3> QED
      BY <2>2, <3>3
  <2>3. CASE ~(i > n) /\ ~(i < n /\ TooClose(s[i], s[i + 1]))
    <3>1. i \in 1 .. n /\ i <= n
      BY <1>1, <2>3
    <3>2. s[i] \in S /\ f[i + 1] \in Seq(S)
      BY <1>1, <1>3, <3>1
    <3>3. <<s[i]>> \o f[i + 1] \in Seq(S)
      BY <3>2, Longer
    <3> QED
      BY <2>3, <3>3
  <2> QED
    BY <2>1, <2>2, <2>3
<1>4. ASSUME NEW f, NEW g, NEW i \in 1 .. n + 1,
             i <= n => f[i + 1] = g[i + 1], i < n => f[i + 2] = g[i + 2]
      PROVE  Body(f, i) = Body(g, i)
  <2>1. i > n \/ i <= n
    BY <1>1
  <2> QED
    BY <1>4, <2>1
<1>5. \A f : Body(f, n + 1) = <<>>
  BY <1>1
<1>50. <<>> \in Q
  OBVIOUS
<1> HIDE DEF Body, Q
<1>6. 0 \in Ns
  <2> DEFINE g == [i \in n + 1 - 0 .. n + 1 |-> <<>>]
  <2>1. n + 1 - 0 = n + 1 /\ \A i \in n + 1 - 0 .. n + 1 : i = n + 1
    BY <1>1
  <2>2. g \in [n + 1 - 0 .. n + 1 -> Q] /\ \A i \in n + 1 - 0 .. n + 1 : g[i] = <<>>
    BY <1>50
  <2> HIDE DEF g
  <2>3. UpTo(0)
    BY <1>5, <2>1, <2>2
  <2> QED
    BY <2>3
<1>7. ASSUME NEW m \in Nat, m \in Ns PROVE m + 1 \in Ns
  <2> HIDE DEF UpTo
  <2> SUFFICES ASSUME m + 1 <= n PROVE UpTo(m + 1)
    OBVIOUS
  <2> DEFINE b == n + 1 - m
             a == n + 1 - (m + 1)
             e == n + 1
  <2>0. a \in Int /\ a >= 1 /\ a <= n /\ b = a + 1 /\ e = n + 1 /\ n \in Nat
    BY <1>1
  <2>2. UpTo(m)
    BY <1>1, <1>7
  <2>3. PICK g \in [b .. e -> Q] : \A i \in b .. e : g[i] = Body(g, i)
    BY <2>2 DEF UpTo
  <2> HIDE DEF a, b, e
  <2>1. /\ a \in 1 .. n /\ a \in 1 .. e /\ a < e
        /\ \A i \in a .. e : i \in 1 .. e /\ (i # a => i \in b .. e)
        /\ \A i \in b .. e : i # a /\ i \in a .. e
        /\ \A i \in a .. e : i <= n => i + 1 \in b .. e
        /\ \A i \in a .. e : i < n => i + 2 \in b .. e
    BY <2>0
  <2> DEFINE f == [i \in a .. e |-> IF i = a THEN Body(g, a) ELSE g[i]]
  <2>4. a \in a .. e
    BY <2>0
  <2>5. Body(g, a) \in Q
    BY <1>3, <2>1, <2>3, <2>4 DEF e
  <2>6. f \in [a .. e -> Q]
    BY <2>1, <2>5
  <2>7. \A i \in b .. e : f[i] = g[i]
    BY <2>1
  <2>8. f[a] = Body(g, a)
    BY <2>4
  <2> HIDE DEF f
  <2>9. ASSUME NEW i \in a .. e PROVE f[i] = Body(f, i)
    <3>1. Body(f, i) = Body(g, i)
      BY <1>4, <2>1, <2>7 DEF e
    <3> QED
      BY <2>1, <2>3, <2>7, <2>8, <3>1
  <2> QED
    BY <2>6, <2>9 DEF UpTo, a, e
<1>8. \E f : f = [i \in 1 .. n + 1 |-> Body(f, i)]
  <2>1. UpTo(n)
    <3> HIDE DEF UpTo
    <3>1. n \in Ns
      <4> HIDE DEF Ns
      <4> QED
        BY <1>1, <1>6, <1>7, NatInd
    <3> QED
      BY <1>1, <3>1
  <2>2. n + 1 - n = 1
    BY <1>1
  <2>3. PICK g \in [1 .. n + 1 -> Q] : \A i \in 1 .. n + 1 : g[i] = Body(g, i)
    BY <2>1, <2>2
  <2>4. g = [i \in 1 .. n + 1 |-> Body(g, i)]
    BY <2>3
  <2> QED
    BY <2>4
<1>9. from = [i \in 1 .. n + 1 |-> Body(from, i)]
  BY <1>8
<1> HIDE DEF from, Ns, UpTo
<1>10. \A i \in 1 .. n + 1 : from[i] = Body(from, i)
  BY <1>9
<1> DEFINE Good == {m \in Nat : m <= n => \A i \in n + 1 - m .. n + 1 : Leaves(from[i], S, s, i)}
<1>11. 0 \in Good
  <2>1. \A i \in n + 1 - 0 .. n + 1 : i = n + 1
    BY <1>1
  <2>2. from[n + 1] = <<>>
    BY <1>1, <1>5, <1>10
  <2> QED
    BY <2>1, <2>2, LeavesNone
<1>12. ASSUME NEW m \in Nat, m \in Good PROVE m + 1 \in Good
  <2> SUFFICES ASSUME m + 1 <= n, NEW i \in n + 1 - (m + 1) .. n + 1 PROVE Leaves(from[i], S, s, i)
    OBVIOUS
  <2> DEFINE L(k) == Leaves(from[k], S, s, k)
  <2>1. \A k \in n + 1 - m .. n + 1 : L(k)
    BY <1>1, <1>12
  <2> HIDE DEF L
  <2>2. CASE i \in n + 1 - m .. n + 1
    BY <2>1, <2>2 DEF L
  <2>3. CASE i \notin n + 1 - m .. n + 1
    <3>1. i \in 1 .. n /\ i <= n /\ i \in 1 .. n + 1 /\ ~(i > n)
      BY <1>1, <2>3
    <3>2. L(i + 1) /\ (i < n => L(i + 2))
      <4> DEFINE a == n + 1 - m
                 e == n + 1
                 c == n + 1 - (m + 1)
      <4>0. c \in Int /\ a \in Int /\ e \in Int /\ c + 1 = a /\ a <= e /\ e = n + 1
        BY <1>1
      <4>00. i \in c .. e /\ i \notin a .. e
        BY <2>3
      <4> HIDE DEF a, c, e
      <4>1. i \in Int /\ i + 1 = a /\ a <= e /\ (i < n => i + 2 <= e)
        BY <1>1, <4>0, <4>00
      <4>2. i + 1 \in a .. e /\ (i < n => i + 2 \in a .. e)
        BY <4>0, <4>1
      <4> QED
        BY <2>1, <4>2 DEF a, e
    <3>3. from[i] = IF i < n /\ TooClose(s[i], s[i + 1]) THEN <<s[i + 1]>> \o from[i + 2]
                    ELSE <<s[i]>> \o from[i + 1]
      BY <1>10, <3>1 DEF Body
    <3>4. CASE i < n /\ TooClose(s[i], s[i + 1])
      <4>1. Leaves(<<s[i + 1]>> \o from[i + 2], S, s, i)
        BY <3>1, <3>2, <3>4, LeavesTwo DEF L
      <4> QED
        BY <3>3, <3>4, <4>1
    <3>5. CASE ~(i < n /\ TooClose(s[i], s[i + 1]))
      <4>1. Leaves(<<s[i]>> \o from[i + 1], S, s, i)
        BY <3>1, <3>2, <3>5, LeavesOne DEF L
      <4> QED
        BY <3>3, <3>5, <4>1
    <3> QED
      BY <3>4, <3>5
  <2> QED
    BY <2>2, <2>3
<1> DEFINE q == from[1]
<1>13. Leaves(q, S, s, 1)
  <2> HIDE DEF Good
  <2>1. n \in Good
    BY <1>1, <1>11, <1>12, NatInd
  <2>2. 1 \in n + 1 - n .. n + 1
    BY <1>1
  <2> QED
    BY <1>1, <2>1, <2>2 DEF Good
<1> HIDE DEF q
<1>14. /\ q \in Seq(S)
       /\ \A k \in 1 .. Len(q) : \E j \in 1 .. n : q[k] = s[j]
       /\ 1 <= n => Len(q) # 0 /\ q[Len(q)] = s[n]
       /\ ~Settled(s) => Len(q) < n + 1 - 1
       /\ Settled(s) => Len(q) = n + 1 - 1 /\ \A k \in 1 .. Len(q) : q[k] = s[1 + k - 1]
       /\ Rising(s) => \A k, l \in 1 .. Len(q) : k < l => q[k].ts < q[l].ts
  BY <1>13, Zenon DEF Leaves, Settled, n
<1>15. Len(q) \in Nat /\ DOMAIN q = 1 .. Len(q)
  BY <1>14, Elements
<1>16. Thins(q, S, s)
  <2>1. Rising(s) => Rising(q)
    BY <1>14, <1>15 DEF Rising
  <2>2. n # 0 => 1 <= n
    BY <1>1
  <2> QED
    BY <1>14, <2>1, <2>2 DEF Thins, n
<1>17. Settled(s) => q = s
  <2> SUFFICES ASSUME Settled(s) PROVE q = s
    OBVIOUS
  <2>0. n + 1 - 1 = n /\ \A k \in 1 .. n : 1 + k - 1 = k
    BY <1>1
  <2>1. Len(q) = n /\ \A k \in 1 .. n : q[k] = s[k]
    BY <1>14, <2>0
  <2> QED
    BY <1>1, <1>14, <2>1 DEF n
<1>18. ~Settled(s) => Len(q) < n
  BY <1>1, <1>14
<1> QED
  BY <1>2, <1>16, <1>17, <1>18 DEF q, n

\* The passes end: what is left has no pair that is too close.
LEMMA AllPasses ==
  ASSUME NEW S, NEW s \in Seq(S), \A x \in S : x.ts \in Int
  PROVE  Thins(FilterSignificantSwings(s), S, s) /\ Settled(FilterSignificantSwings(s))
<1> DEFINE n == Len(s)
           Q == Seq(S)
           step == [p \in Q \X S |-> Thinned(p[1])]
           Body(f, k) == IF k = 0 THEN s ELSE Thinned(f[k - 1])
           pass == CHOOSE f : f = [k \in 0 .. n |-> Body(f, k)]
<1>1. n \in Nat /\ s \in Q /\ \A k \in 1 .. n : s[k] \in S
  BY Elements
<1>2. FilterSignificantSwings(s) = pass[n]
  BY DEF FilterSignificantSwings
<1>3. \A q \in Q : Thinned(q) \in Q
  BY OnePass DEF Thins
<1> HIDE DEF Q, n
<1>4. step \in [Q \X S -> Q] /\ \A q \in Q, x \in S : step[<<q, x>>] = Thinned(q)
  BY <1>3
<1> HIDE DEF step
<1>5. PICK h : IsFold(h, n, Q, s, step, s)
  BY <1>1, <1>4, FoldExists
<1>6. \E f : f = [k \in 0 .. n |-> Body(f, k)]
  <2>1. Iterates(h, n, Q, s, step, s)
    <3>1. {} \in SUBSET (1 .. n)
      OBVIOUS
    <3> QED
      BY <1>5, <3>1 DEF IsFold, Iterates
  <2>2. PICK r : IsRun(r, h, n, Q, s, step, s)
    BY <1>1, <1>4, <2>1, FoldPlaces
  <2>3. ASSUME NEW k \in 0 .. n PROVE r[k] = Body(r, k)
    <3>1. CASE k = 0
      BY <2>2, <3>1 DEF IsRun
    <3>2. CASE k # 0
      <4>1. k \in 1 .. n /\ k - 1 \in 0 .. n
        BY <1>1, <3>2
      <4>2. r[k - 1] \in Q /\ r[k] = step[<<r[k - 1], s[k]>>] /\ s[k] \in S
        BY <1>1, <2>2, <4>1 DEF IsRun
      <4> QED
        BY <1>4, <3>2, <4>2
    <3> QED
      BY <3>1, <3>2
  <2>4. r = [k \in 0 .. n |-> Body(r, k)]
    BY <2>2, <2>3 DEF IsRun
  <2> QED
    BY <2>4
<1>7. pass = [k \in 0 .. n |-> Body(pass, k)]
  <2> HIDE DEF Body
  <2> QED
    BY <1>6
<1> HIDE DEF pass
<1> DEFINE Good == {k \in Nat : k <= n => /\ Thins(pass[k], S, s)
                                          /\ Settled(pass[k]) \/ Len(pass[k]) <= n - k}
<1>8. 0 \in Good
  <2>1. pass[0] = s
    BY <1>1, <1>7
  <2>2. Thins(s, S, s)
    BY <1>1 DEF Thins, Q
  <2>3. Len(s) <= n - 0
    BY <1>1 DEF n
  <2> QED
    BY <2>1, <2>2, <2>3
<1>9. ASSUME NEW k \in Nat, k \in Good PROVE k + 1 \in Good
  <2> SUFFICES ASSUME k + 1 <= n
               PROVE  /\ Thins(pass[k + 1], S, s)
                      /\ Settled(pass[k + 1]) \/ Len(pass[k + 1]) <= n - (k + 1)
    OBVIOUS
  <2> DEFINE q == pass[k]
             j == k + 1
             p == pass[j]
  <2>1. Thins(q, S, s) /\ (Settled(q) \/ Len(q) <= n - k)
    BY <1>1, <1>9
  <2>2. j \in 0 .. n /\ j # 0 /\ j - 1 = k
    BY <1>1
  <2> HIDE DEF j
  <2>3. p = Thinned(q)
    BY <1>7, <2>2
  <2>4. q \in Seq(S)
    BY <2>1 DEF Thins
  <2> HIDE DEF p, q
  <2>5. /\ Thins(p, S, q) /\ (Settled(q) => p = q)
        /\ ~Settled(q) => Len(p) < Len(q)
    BY <2>3, <2>4, OnePass
  <2>6. p \in Seq(S)
    BY <2>5 DEF Thins
  <2>7. Len(p) \in Nat /\ Len(q) \in Nat
    BY <2>4, <2>6
  <2>8. Thins(p, S, s)
    <3>1. \A i \in 1 .. Len(p) : \E b \in 1 .. Len(s) : p[i] = s[b]
      <4> TAKE i \in 1 .. Len(p)
      <4>1. PICK a \in 1 .. Len(q) : p[i] = q[a]
        BY <2>5 DEF Thins
      <4>2. PICK b \in 1 .. Len(s) : q[a] = s[b]
        BY <2>1 DEF Thins
      <4> QED
        BY <4>1, <4>2
    <3>2. Len(s) # 0 => Len(p) # 0 /\ p[Len(p)] = s[Len(s)]
      BY <2>1, <2>5 DEF Thins
    <3>3. Rising(s) => Rising(p)
      BY <2>1, <2>5 DEF Thins
    <3> QED
      BY <2>6, <3>1, <3>2, <3>3 DEF Thins
  <2>9. Settled(p) \/ Len(p) <= n - j
    <3>1. CASE Settled(q)
      BY <2>5, <3>1
    <3>2. CASE ~Settled(q)
      BY <1>1, <2>1, <2>2, <2>5, <2>7, <3>2 DEF j
    <3> QED
      BY <3>1, <3>2
  <2> QED
    BY <2>8, <2>9 DEF p, j
<1> DEFINE q == pass[n]
<1>10. Thins(q, S, s) /\ (Settled(q) \/ Len(q) <= 0)
  <2> HIDE DEF Good
  <2>1. n \in Good /\ n - n = 0
    BY <1>1, <1>8, <1>9, NatInd
  <2> QED
    BY <1>1, <2>1 DEF Good
<1> HIDE DEF q
<1>11. Len(q) <= 0 => Settled(q)
  <2>1. Len(q) \in Nat
    BY <1>10 DEF Thins
  <2>2. Len(q) <= 0 => 1 .. Len(q) - 1 = {}
    BY <2>1
  <2> QED
    BY <2>2 DEF Settled
<1> QED
  BY <1>2, <1>10, <1>11 DEF q

\* What is kept of bars in order is in order.
LEMMA OnlyRising ==
  ASSUME NEW S, NEW s \in Seq(S), Rising(s), NEW K \in SUBSET DOMAIN s
  PROVE  Rising(Only(s, K)) /\ DOMAIN Only(s, K) = 1 .. Cardinality(K) /\ Cardinality(K) \in Nat
<1>1. K \in SUBSET Nat /\ IsFiniteSet(K) /\ Cardinality(K) \in Nat
  <2>1. IsFiniteSet(1 .. Len(s)) /\ DOMAIN s = 1 .. Len(s)
    BY FS_Interval
  <2>2. IsFiniteSet(K) /\ K \in SUBSET Nat
    BY <2>1, FS_Subset
  <2> QED
    BY <2>2, FS_CardinalityType
<1> DEFINE q == InOrder(K)
           m == Cardinality(K)
<1>2. /\ q \in [1 .. m -> K] /\ DOMAIN q = 1 .. m
      /\ \A i, j \in DOMAIN q : i < j => q[i] < q[j]
  BY <1>1, OrderedBars
<1>3. Only(s, K) = [k \in 1 .. m |-> s[q[k]]]
  BY DEF Only, InOrder
<1> HIDE DEF q, m
<1>4. \A i \in 1 .. m : q[i] \in DOMAIN s
  BY <1>2
<1> QED
  BY <1>1, <1>2, <1>3, <1>4 DEF Rising, m

LEMMA SwingsFound ==
  ASSUME NEW w \in Seq(ChartBars), Rising(w)
  PROVE  \E S : /\ DetectSwings(w) \in Seq(S) /\ \A x \in S : x.ts \in Int
                /\ Rising(DetectSwings(w))
<1> DEFINE places == {i \in DOMAIN w : w[i].row.swing # {}}
           at == Only(w, places)
           swing(b) == LET x == TheOne(b.row.swing) IN [ts |-> b.ts, type |-> x.type, price |-> x.price]
           raw == [i \in DOMAIN at |-> swing(at[i])]
           S == {swing(b) : b \in ChartBars}
           m == Cardinality(places)
<1>1. DetectSwings(w) = raw
  BY DEF DetectSwings, Found
<1>2. at \in Seq(ChartBars) /\ Rising(at) /\ DOMAIN at = 1 .. m /\ m \in Nat
  <2>1. places \in SUBSET DOMAIN w
    OBVIOUS
  <2> HIDE DEF places
  <2> QED
    BY <2>1, Chosen, OnlyRising
<1>3. \A b : swing(b).ts = b.ts
  OBVIOUS
<1> HIDE DEF at, swing, m
<1>4. \A i \in 1 .. m : at[i] \in ChartBars
  BY <1>2, Elements
<1>5. raw \in Seq(S)
  BY <1>2, <1>4
<1>6. \A x \in S : x.ts \in Int
  BY <1>3 DEF ChartBars
<1>7. Rising(raw)
  BY <1>2, <1>3 DEF Rising
<1> QED
  BY <1>1, <1>5, <1>6, <1>7

\* detect_swings and filter_significant_swings: whatever the bars and the swings of the
\* library, the passes end with no two neighbours of one type that are too close, in the
\* order and among the swings that were found, and the newest swing is kept.
THEOREM SwingsStaySignificant == DetectionSpec => []SwingsAreSignificant
<1>1. ChartInv => SwingsAreSignificant
  <2> SUFFICES ASSUME ChartInv PROVE SwingsAreSignificant
    OBVIOUS
  <2> DEFINE raw == DetectSwings(chart)
             q == FilterSignificantSwings(raw)
  <2>1. snap.swings = q
    BY DEF ChartInv, Detect
  <2>2. PICK S : raw \in Seq(S) /\ (\A x \in S : x.ts \in Int) /\ Rising(raw)
    BY SwingsFound DEF ChartInv
  <2> HIDE DEF raw
  <2>3. Thins(q, S, raw) /\ Settled(q)
    BY <2>2, AllPasses
  <2> HIDE DEF q
  <2>4. q \in Seq(S) /\ DOMAIN q = 1 .. Len(q) /\ DOMAIN raw = 1 .. Len(raw)
    BY <2>2, <2>3, Elements DEF Thins
  <2>5. Range(q) \subseteq Range(raw)
    BY <2>3, <2>4 DEF Thins, Range
  <2>6. raw # <<>> => Last(q) = Last(raw)
    <3>1. raw # <<>> => Len(raw) # 0
      BY <2>2
    <3> QED
      BY <2>3, <3>1 DEF Thins, Last
  <2>7. \A i, j \in DOMAIN q : i < j => q[i].ts < q[j].ts
    BY <2>2, <2>3 DEF Thins, Rising
  <2>8. \A i \in 1 .. Len(q) - 1 : ~TooClose(q[i], q[i + 1])
    BY <2>3 DEF Settled
  <2> QED
    BY <2>1, <2>5, <2>6, <2>7, <2>8 DEF SwingsAreSignificant, raw
<1> QED
  BY <1>1, ChartAlways, PTL

-----------------------------------------------------------------------------
\* Synthetic zones.

\* Two zones next to each other, and those a scan over a list keeps.
NextTo(a, b) == Abs(Middle(a) - Middle(b)) <= Apart
Keep(kept, z) == IF \E k \in Range(kept) : NextTo(z, k) THEN kept ELSE Append(kept, z)
Scattered(s) == \A i, j \in DOMAIN s : i # j => ~NextTo(s[i], s[j])

LEMMA NearTyped ==
  ASSUME NEW a, NEW b, Middle(a) \in Int, Middle(b) \in Int
  PROVE  /\ NextTo(a, b) <=> NextTo(b, a)
         /\ NextTo(a, a)
         /\ ~NextTo(a, b) => Abs(Middle(a) - Middle(b)) > Apart
<1>1. Apart \in Nat
  BY DetectionAssumption
<1> DEFINE x == Middle(a)
           y == Middle(b)
<1>2. x \in Int /\ y \in Int
  OBVIOUS
<1> HIDE DEF x, y
<1>3. /\ Abs(x - y) = Abs(y - x) /\ Abs(x - x) = 0 /\ Abs(x - y) \in Int
  BY <1>2 DEF Abs
<1>4. 0 <= Apart /\ (~(Abs(x - y) <= Apart) => Abs(x - y) > Apart)
  BY <1>1, <1>3
<1> QED
  BY <1>3, <1>4 DEF NextTo, x, y

LEMMA DedupeRun ==
  ASSUME NEW Z, NEW s \in Seq(Z)
  PROVE  \E r \in [0 .. Len(s) -> Seq(Z)] :
           /\ r[0] = <<>> /\ DedupeByProximity(s) = r[Len(s)]
           /\ \A k \in 1 .. Len(s) : r[k] = Keep(r[k - 1], s[k])
<1> DEFINE n == Len(s)
           T == Z
           Q == Seq(Z)
           add(kept, z) == Keep(kept, z)
           step == [p \in Q \X T |-> add(p[1], p[2])]
           base == <<>>
           Next(it, X) == IF X = {} THEN base ELSE add(it[X \ {Max(X)}], s[Max(X)])
           it == CHOOSE it : it = [X \in SUBSET (1 .. n) |-> Next(it, X)]
           all == DedupeByProximity(s)
<1>1. n \in Nat /\ DOMAIN s = 1 .. n /\ \A k \in 1 .. n : s[k] \in T
  <2> HIDE DEF T
  <2>1. s \in Seq(T)
    BY DEF T
  <2> QED
    BY <2>1, Elements
<1>2. all = it[1 .. n]
  BY <1>1 DEF DedupeByProximity, FoldLeft, MapThenFoldSet, Keep, NextTo
<1>3. \A q \in Q, t \in T : add(q, t) \in Q
  BY DEF Keep
<1>4. base \in Q
  OBVIOUS
<1> HIDE DEF n, Q, T, add, all, base
<1>5. step \in [Q \X T -> Q] /\ \A q \in Q, t \in T : step[<<q, t>>] = add(q, t)
  BY <1>3
<1> HIDE DEF step
<1>6. PICK h : IsFold(h, n, Q, base, step, s)
  BY <1>1, <1>4, <1>5, FoldExists
<1>7. h = [X \in SUBSET (1 .. n) |-> Next(h, X)]
  <2>1. ASSUME NEW X \in SUBSET (1 .. n) PROVE h[X] = Next(h, X)
    <3>1. CASE X # {}
      <4>1. X \ {Max(X)} \in SUBSET (1 .. n) /\ Max(X) \in 1 .. n
        BY <1>1, <3>1, LastPlace
      <4>2. h[X \ {Max(X)}] \in Q /\ s[Max(X)] \in T
        BY <1>1, <1>6, <4>1 DEF IsFold
      <4> QED
        BY <1>5, <1>6, <3>1, <4>2 DEF IsFold
    <3>2. CASE X = {}
      BY <1>6, <3>2 DEF IsFold
    <3> QED
      BY <3>1, <3>2
  <2> QED
    BY <1>6, <2>1 DEF IsFold
<1>8. it = [X \in SUBSET (1 .. n) |-> Next(it, X)]
  <2> HIDE DEF Next
  <2> QED
    BY <1>7
<1> HIDE DEF it
<1>9. Iterates(it, n, Q, base, step, s)
  <2>1. {} \in SUBSET (1 .. n)
    OBVIOUS
  <2>2. ASSUME NEW X \in SUBSET (1 .. n), X # {}, it[X \ {Max(X)}] \in Q
        PROVE  it[X] = step[<<it[X \ {Max(X)}], s[Max(X)]>>]
    <3>1. Max(X) \in 1 .. n
      BY <1>1, <2>2, LastPlace
    <3> QED
      BY <1>1, <1>5, <1>8, <2>2, <3>1
  <2>3. it[{}] = base
    BY <1>8, <2>1
  <2> QED
    BY <2>2, <2>3 DEF Iterates
<1>10. PICK r : IsRun(r, it, n, Q, base, step, s)
  BY <1>1, <1>4, <1>5, <1>9, FoldPlaces
<1>11. ASSUME NEW k \in 1 .. n PROVE r[k] = add(r[k - 1], s[k])
  <2>1. r[k - 1] \in Q /\ s[k] \in T /\ r[k] = step[<<r[k - 1], s[k]>>]
    BY <1>1, <1>10 DEF IsRun
  <2> QED
    BY <1>5, <2>1
<1>12. r \in [0 .. n -> Q] /\ r[0] = base /\ all = r[n]
  BY <1>2, <1>10 DEF IsRun
<1> QED
  BY <1>11, <1>12 DEF Q, n, add, all, base

\* What is kept is pairwise apart, and every zone has a kept one next to it.
LEMMA KeepSpreads ==
  ASSUME NEW Z, \A z \in Z : Middle(z) \in Int, NEW s \in Seq(Z), Scattered(s), NEW z \in Z
  PROVE  /\ Scattered(Keep(s, z)) /\ Range(s) \subseteq Range(Keep(s, z))
         /\ \E k \in Range(Keep(s, z)) : NextTo(k, z)
<1> DEFINE n == Len(s)
           t == Append(s, z)
<1>1. n \in Nat /\ DOMAIN s = 1 .. n /\ \A i \in 1 .. n : s[i] \in Z
  BY Elements
<1>2. DOMAIN t = 1 .. n + 1 /\ t[n + 1] = z /\ \A i \in 1 .. n : t[i] = s[i]
  OBVIOUS
<1>3. Range(s) = {s[i] : i \in 1 .. n} /\ Range(t) = {t[i] : i \in 1 .. n + 1}
  BY <1>1, <1>2 DEF Range
<1> HIDE DEF n
<1>4. CASE \E k \in Range(s) : NextTo(z, k)
  <2>1. Keep(s, z) = s
    BY <1>4 DEF Keep
  <2>2. PICK k \in Range(s) : NextTo(z, k)
    BY <1>4
  <2>3. k \in Z
    BY <1>1, <1>3
  <2>4. NextTo(k, z)
    BY <2>2, <2>3, NearTyped
  <2> QED
    BY <2>1, <2>4
<1>5. CASE ~\E k \in Range(s) : NextTo(z, k)
  <2>1. Keep(s, z) = t
    BY <1>5 DEF Keep
  <2>2. \A i \in 1 .. n : ~NextTo(z, s[i]) /\ ~NextTo(s[i], z)
    <3> TAKE i \in 1 .. n
    <3>1. s[i] \in Z /\ s[i] \in Range(s)
      BY <1>1, <1>3
    <3>2. ~NextTo(z, s[i])
      BY <1>5, <3>1
    <3> QED
      BY <3>1, <3>2, NearTyped
  <2> HIDE DEF t
  <2>3. ASSUME NEW i \in 1 .. n + 1, NEW j \in 1 .. n + 1, i # j PROVE ~NextTo(t[i], t[j])
    <3>1. (i \in 1 .. n \/ i = n + 1) /\ (j \in 1 .. n \/ j = n + 1)
      BY <1>1
    <3>2. CASE i \in 1 .. n /\ j \in 1 .. n
      BY <1>1, <1>2, <2>3, <3>2 DEF Scattered
    <3>3. CASE i \in 1 .. n /\ j = n + 1
      BY <1>2, <2>2, <3>3
    <3>4. CASE i = n + 1 /\ j \in 1 .. n
      BY <1>2, <2>2, <3>4
    <3> QED
      BY <2>3, <3>1, <3>2, <3>3, <3>4
  <2>4. Scattered(t)
    BY <1>2, <2>3 DEF Scattered
  <2>5. \A i \in 1 .. n : i \in 1 .. n + 1
    BY <1>1
  <2>6. Range(s) \subseteq Range(t)
    BY <1>2, <1>3, <2>5
  <2>7. n + 1 \in 1 .. n + 1
    BY <1>1
  <2>8. z \in Range(t) /\ NextTo(z, z)
    BY <1>2, <1>3, <2>7, NearTyped
  <2> QED
    BY <2>1, <2>4, <2>6, <2>8
<1> QED
  BY <1>4, <1>5

LEMMA DedupeSpreads ==
  ASSUME NEW Z, \A z \in Z : Middle(z) \in Int, NEW s \in Seq(Z)
  PROVE  /\ DedupeByProximity(s) \in Seq(Z) /\ Scattered(DedupeByProximity(s))
         /\ \A j \in DOMAIN s : \E k \in Range(DedupeByProximity(s)) : NextTo(k, s[j])
<1> DEFINE n == Len(s)
<1>1. n \in Nat /\ DOMAIN s = 1 .. n /\ \A i \in 1 .. n : s[i] \in Z
  BY Elements
<1>2. PICK r \in [0 .. n -> Seq(Z)] :
        /\ r[0] = <<>> /\ DedupeByProximity(s) = r[n]
        /\ \A k \in 1 .. n : r[k] = Keep(r[k - 1], s[k])
  BY DedupeRun
<1> HIDE DEF n
<1> DEFINE Covered(i) == \A j \in 1 .. i : \E k \in Range(r[i]) : NextTo(k, s[j])
           Good == {i \in Nat : i <= n => Scattered(r[i]) /\ Covered(i)}
<1>3. 0 \in Good
  <2>1. Scattered(<<>>)
    <3>1. DOMAIN <<>> = {}
      OBVIOUS
    <3> QED
      BY <3>1 DEF Scattered
  <2>2. Covered(0)
    OBVIOUS
  <2> QED
    BY <1>2, <2>1, <2>2
<1>4. ASSUME NEW i \in Nat, i \in Good PROVE i + 1 \in Good
  <2> SUFFICES ASSUME i + 1 <= n PROVE Scattered(r[i + 1]) /\ Covered(i + 1)
    OBVIOUS
  <2> DEFINE m == i + 1
  <2>1. m \in 1 .. n /\ m - 1 = i /\ i \in 0 .. n /\ i <= n /\ \A j \in 1 .. m : j \in 1 .. i \/ j = m
    BY <1>1
  <2>2. Scattered(r[i]) /\ Covered(i)
    BY <1>4, <2>1
  <2> HIDE DEF m
  <2>3. r[i] \in Seq(Z) /\ s[m] \in Z /\ r[m] = Keep(r[i], s[m])
    BY <1>1, <1>2, <2>1
  <2>4. /\ Scattered(r[m]) /\ Range(r[i]) \subseteq Range(r[m])
        /\ \E k \in Range(r[m]) : NextTo(k, s[m])
    BY <2>2, <2>3, KeepSpreads
  <2>5. Covered(m)
    BY <2>1, <2>2, <2>4
  <2> QED
    BY <2>4, <2>5 DEF m
<1>5. n \in Good
  <2> HIDE DEF Good
  <2>1. Nat \subseteq Good
    BY <1>3, <1>4, NatInd
  <2> QED
    BY <1>1, <2>1
<1>6. r[n] \in Seq(Z) /\ n <= n
  BY <1>1, <1>2
<1> QED
  BY <1>1, <1>2, <1>5, <1>6

\* The anchors are whole prices, wherever they come from.
AnchorTypes == {"synthetic_vwap", "synthetic_session", "synthetic_round", "synthetic_prev_week"}
AnchorSet == [price : Int, type : AnchorTypes]

LEMMA AnchorMade == ASSUME NEW x \in Int, NEW t \in AnchorTypes PROVE Anchor(x, t) \in AnchorSet
BY DEF Anchor, AnchorSet

\* Some of finitely many whole numbers have a largest and a smallest.
LEMMA LargestOf ==
  ASSUME NEW n \in Nat, NEW f, \A i \in 1 .. n : f[i] \in Int, NEW P \in SUBSET (1 .. n), P # {}
  PROVE  \E i \in P : \A j \in P : f[i] >= f[j]
<1> DEFINE Ends(p) == \E i \in p : \A j \in p : f[i] >= f[j]
           Good == {k \in Nat : k <= n => \A p \in SUBSET (1 .. k) : p # {} => Ends(p)}
<1>1. 0 \in Good
  <2>1. 1 .. 0 = {}
    OBVIOUS
  <2> HIDE DEF Ends
  <2> QED
    BY <2>1
<1>2. ASSUME NEW k \in Nat, k \in Good PROVE k + 1 \in Good
  <2> SUFFICES ASSUME k + 1 <= n, NEW p \in SUBSET (1 .. k + 1), p # {} PROVE Ends(p)
    OBVIOUS
  <2>1. k <= n /\ k + 1 \in 1 .. n /\ p \ {k + 1} \subseteq 1 .. k
    OBVIOUS
  <2>2. \A q \in SUBSET (1 .. k) : q # {} => Ends(q)
    <3> HIDE DEF Ends
    <3> QED
      BY <1>2, <2>1
  <2> DEFINE m == k + 1
             q == p \ {m}
  <2>3. m \in 1 .. n /\ q \in SUBSET (1 .. k) /\ 1 .. k \subseteq 1 .. n
    BY <2>1
  <2> HIDE DEF m
  <2>4. f[m] \in Int /\ \A i \in q : f[i] \in Int
    BY <2>3
  <2>5. CASE q = {}
    <3>1. p = {m}
      BY <2>5
    <3> QED
      BY <2>4, <3>1
  <2>6. CASE q # {}
    <3>1. PICK i \in q : \A j \in q : f[i] >= f[j]
      BY <2>2, <2>3, <2>6
    <3>2. CASE m \in p /\ f[m] >= f[i]
      <4>1. \A j \in p : f[m] >= f[j]
        BY <2>4, <3>1, <3>2
      <4> QED
        BY <3>2, <4>1
    <3>3. CASE ~(m \in p /\ f[m] >= f[i])
      <4>1. \A j \in p : f[i] >= f[j]
        BY <2>4, <3>1, <3>3
      <4> QED
        BY <3>1, <4>1
    <3> QED
      BY <3>2, <3>3
  <2> QED
    BY <2>5, <2>6
<1>3. n \in Good
  <2> HIDE DEF Good
  <2>1. Nat \subseteq Good
    BY <1>1, <1>2, NatInd
  <2> QED
    BY <2>1
<1> QED
  BY <1>3

LEMMA Extremes ==
  ASSUME NEW w \in Seq(ChartBars), NEW B \in SUBSET Range(w), B # {}
  PROVE  HighOf(B) \in Int /\ LowOf(B) \in Int
<1> DEFINE n == Len(w)
           P == {i \in 1 .. n : w[i] \in B}
           up == [i \in 1 .. n |-> w[i].high]
           down == [i \in 1 .. n |-> 0 - w[i].low]
           highs == {b.high : b \in B}
           lows == {b.low : b \in B}
<1>1. n \in Nat /\ DOMAIN w = 1 .. n /\ \A i \in 1 .. n : w[i] \in ChartBars
  BY Elements
<1> HIDE DEF n
<1>2. Range(w) = {w[i] : i \in 1 .. n}
  BY <1>1 DEF Range
<1>3. P \in SUBSET (1 .. n) /\ P # {} /\ B = {w[i] : i \in P}
  BY <1>2
<1>4. \A i \in 1 .. n : w[i].high \in Int /\ w[i].low \in Int
  BY <1>1 DEF ChartBars
<1> HIDE DEF P
<1>5. highs = {w[i].high : i \in P} /\ lows = {w[i].low : i \in P}
  BY <1>3
<1> HIDE DEF highs, lows
<1>6. /\ \A i \in 1 .. n : up[i] \in Int /\ up[i] = w[i].high
      /\ \A i \in 1 .. n : down[i] \in Int /\ down[i] = 0 - w[i].low
  BY <1>4
<1> HIDE DEF up, down
<1>7. \E h \in highs : \A x \in highs : h >= x
  <2>1. PICK i \in P : \A j \in P : up[i] >= up[j]
    BY <1>1, <1>3, <1>6, LargestOf
  <2>2. w[i].high \in highs /\ \A x \in highs : w[i].high >= x
    BY <1>3, <1>5, <1>6, <2>1
  <2> QED
    BY <2>2
<1>8. \E l \in lows : \A x \in lows : l <= x
  <2>1. PICK i \in P : \A j \in P : down[i] >= down[j]
    BY <1>1, <1>3, <1>6, LargestOf
  <2>2. \A j \in P : w[i].low <= w[j].low
    BY <1>3, <1>4, <1>6, <2>1
  <2>3. w[i].low \in lows /\ \A x \in lows : w[i].low <= x
    BY <1>5, <2>2
  <2> QED
    BY <2>3
<1>9. highs \subseteq Int /\ lows \subseteq Int
  BY <1>3, <1>4, <1>5
<1>10. Max(highs) \in Int /\ Min(lows) \in Int
  BY <1>7, <1>8, <1>9 DEF Max, Min
<1> QED
  BY <1>10 DEF HighOf, LowOf, highs, lows

LEMMA BothEnds ==
  ASSUME NEW w \in Seq(ChartBars), NEW B \in SUBSET Range(w), NEW t \in AnchorTypes
  PROVE  (IF B = {} THEN <<>> ELSE <<Anchor(HighOf(B), t), Anchor(LowOf(B), t)>>) \in Seq(AnchorSet)
<1>1. <<>> \in Seq(AnchorSet)
  OBVIOUS
<1>2. ASSUME B # {} PROVE <<Anchor(HighOf(B), t), Anchor(LowOf(B), t)>> \in Seq(AnchorSet)
  <2> DEFINE a == Anchor(HighOf(B), t)
             b == Anchor(LowOf(B), t)
  <2>1. HighOf(B) \in Int /\ LowOf(B) \in Int
    BY <1>2, Extremes
  <2>2. a \in AnchorSet /\ b \in AnchorSet
    BY <2>1, AnchorMade
  <2> HIDE DEF a, b
  <2>3. <<a, b>> \in Seq(AnchorSet)
    BY <2>2
  <2> QED
    BY <2>3 DEF a, b
<1> QED
  BY <1>1, <1>2

\* Sums of whole numbers.
Summed(s) == FoldLeft(LAMBDA acc, x : acc + x, 0, s)
SquaresSummed(s, mean) == FoldLeft(LAMBDA acc, x : acc + (x - mean) * (x - mean), 0, s)

LEMMA TotalTyped == ASSUME NEW s \in Seq(Int) PROVE Summed(s) \in Int
<1> DEFINE n == Len(s)
           T == Int
           Q == Int
           add(acc, x) == acc + x
           step == [p \in Q \X T |-> add(p[1], p[2])]
           base == 0
           Next(it, X) == IF X = {} THEN base ELSE add(it[X \ {Max(X)}], s[Max(X)])
           it == CHOOSE it : it = [X \in SUBSET (1 .. n) |-> Next(it, X)]
           all == Summed(s)
<1>1. n \in Nat /\ DOMAIN s = 1 .. n /\ \A k \in 1 .. n : s[k] \in T
  <2> HIDE DEF T
  <2>1. s \in Seq(T)
    BY DEF T
  <2> QED
    BY <2>1, Elements
<1>2. all = it[1 .. n]
  BY <1>1 DEF Summed, FoldLeft, MapThenFoldSet
<1>3. \A q \in Q, t \in T : add(q, t) \in Q
  OBVIOUS
<1>4. base \in Q
  OBVIOUS
<1> HIDE DEF n, Q, T, add, all, base
<1>5. step \in [Q \X T -> Q] /\ \A q \in Q, t \in T : step[<<q, t>>] = add(q, t)
  BY <1>3
<1> HIDE DEF step
<1>6. PICK h : IsFold(h, n, Q, base, step, s)
  BY <1>1, <1>4, <1>5, FoldExists
<1>7. h = [X \in SUBSET (1 .. n) |-> Next(h, X)]
  <2>1. ASSUME NEW X \in SUBSET (1 .. n) PROVE h[X] = Next(h, X)
    <3>1. CASE X # {}
      <4>1. X \ {Max(X)} \in SUBSET (1 .. n) /\ Max(X) \in 1 .. n
        BY <1>1, <3>1, LastPlace
      <4>2. h[X \ {Max(X)}] \in Q /\ s[Max(X)] \in T
        BY <1>1, <1>6, <4>1 DEF IsFold
      <4> QED
        BY <1>5, <1>6, <3>1, <4>2 DEF IsFold
    <3>2. CASE X = {}
      BY <1>6, <3>2 DEF IsFold
    <3> QED
      BY <3>1, <3>2
  <2> QED
    BY <1>6, <2>1 DEF IsFold
<1>8. it = [X \in SUBSET (1 .. n) |-> Next(it, X)]
  <2> HIDE DEF Next
  <2> QED
    BY <1>7
<1> HIDE DEF it
<1>9. Iterates(it, n, Q, base, step, s)
  <2>1. {} \in SUBSET (1 .. n)
    OBVIOUS
  <2>2. ASSUME NEW X \in SUBSET (1 .. n), X # {}, it[X \ {Max(X)}] \in Q
        PROVE  it[X] = step[<<it[X \ {Max(X)}], s[Max(X)]>>]
    <3>1. Max(X) \in 1 .. n
      BY <1>1, <2>2, LastPlace
    <3> QED
      BY <1>1, <1>5, <1>8, <2>2, <3>1
  <2>3. it[{}] = base
    BY <1>8, <2>1
  <2> QED
    BY <2>2, <2>3 DEF Iterates
<1>10. PICK r : IsRun(r, it, n, Q, base, step, s)
  BY <1>1, <1>4, <1>5, <1>9, FoldPlaces
<1>11. ASSUME NEW k \in 1 .. n PROVE r[k] = add(r[k - 1], s[k])
  <2>1. r[k - 1] \in Q /\ s[k] \in T /\ r[k] = step[<<r[k - 1], s[k]>>]
    BY <1>1, <1>10 DEF IsRun
  <2> QED
    BY <1>5, <2>1
<1>12. r \in [0 .. n -> Q] /\ r[0] = base /\ all = r[n]
  BY <1>2, <1>10 DEF IsRun
<1>13. n \in 0 .. n
  BY <1>1
<1> QED
  BY <1>12, <1>13 DEF Q, all

LEMMA SquareTyped == ASSUME NEW x \in Int PROVE x * x \in Nat
<1>1. x * x \in Int /\ x * x >= 0
  OBVIOUS
<1> QED
  BY <1>1

LEMMA SquaresTyped == ASSUME NEW s \in Seq(Int), NEW mean \in Int PROVE SquaresSummed(s, mean) \in Nat
<1> DEFINE n == Len(s)
           T == Int
           Q == Nat
           add(acc, x) == acc + (x - mean) * (x - mean)
           step == [p \in Q \X T |-> add(p[1], p[2])]
           base == 0
           Next(it, X) == IF X = {} THEN base ELSE add(it[X \ {Max(X)}], s[Max(X)])
           it == CHOOSE it : it = [X \in SUBSET (1 .. n) |-> Next(it, X)]
           all == SquaresSummed(s, mean)
<1>1. n \in Nat /\ DOMAIN s = 1 .. n /\ \A k \in 1 .. n : s[k] \in T
  <2> HIDE DEF T
  <2>1. s \in Seq(T)
    BY DEF T
  <2> QED
    BY <2>1, Elements
<1>2. all = it[1 .. n]
  BY <1>1 DEF SquaresSummed, FoldLeft, MapThenFoldSet
<1>3. \A q \in Q, t \in T : add(q, t) \in Q
  <2> SUFFICES ASSUME NEW q \in Nat, NEW t \in Int PROVE q + (t - mean) * (t - mean) \in Nat
    OBVIOUS
  <2> DEFINE d == t - mean
  <2>1. d \in Int
    OBVIOUS
  <2> HIDE DEF d
  <2>2. d * d \in Nat
    BY <2>1, SquareTyped
  <2>3. q + d * d \in Nat
    BY <2>2
  <2> QED
    BY <2>3 DEF d
<1>4. base \in Q
  OBVIOUS
<1> HIDE DEF n, Q, T, add, all, base
<1>5. step \in [Q \X T -> Q] /\ \A q \in Q, t \in T : step[<<q, t>>] = add(q, t)
  BY <1>3
<1> HIDE DEF step
<1>6. PICK h : IsFold(h, n, Q, base, step, s)
  BY <1>1, <1>4, <1>5, FoldExists
<1>7. h = [X \in SUBSET (1 .. n) |-> Next(h, X)]
  <2>1. ASSUME NEW X \in SUBSET (1 .. n) PROVE h[X] = Next(h, X)
    <3>1. CASE X # {}
      <4>1. X \ {Max(X)} \in SUBSET (1 .. n) /\ Max(X) \in 1 .. n
        BY <1>1, <3>1, LastPlace
      <4>2. h[X \ {Max(X)}] \in Q /\ s[Max(X)] \in T
        BY <1>1, <1>6, <4>1 DEF IsFold
      <4> QED
        BY <1>5, <1>6, <3>1, <4>2 DEF IsFold
    <3>2. CASE X = {}
      BY <1>6, <3>2 DEF IsFold
    <3> QED
      BY <3>1, <3>2
  <2> QED
    BY <1>6, <2>1 DEF IsFold
<1>8. it = [X \in SUBSET (1 .. n) |-> Next(it, X)]
  <2> HIDE DEF Next
  <2> QED
    BY <1>7
<1> HIDE DEF it
<1>9. Iterates(it, n, Q, base, step, s)
  <2>1. {} \in SUBSET (1 .. n)
    OBVIOUS
  <2>2. ASSUME NEW X \in SUBSET (1 .. n), X # {}, it[X \ {Max(X)}] \in Q
        PROVE  it[X] = step[<<it[X \ {Max(X)}], s[Max(X)]>>]
    <3>1. Max(X) \in 1 .. n
      BY <1>1, <2>2, LastPlace
    <3> QED
      BY <1>1, <1>5, <1>8, <2>2, <3>1
  <2>3. it[{}] = base
    BY <1>8, <2>1
  <2> QED
    BY <2>2, <2>3 DEF Iterates
<1>10. PICK r : IsRun(r, it, n, Q, base, step, s)
  BY <1>1, <1>4, <1>5, <1>9, FoldPlaces
<1>11. ASSUME NEW k \in 1 .. n PROVE r[k] = add(r[k - 1], s[k])
  <2>1. r[k - 1] \in Q /\ s[k] \in T /\ r[k] = step[<<r[k - 1], s[k]>>]
    BY <1>1, <1>10 DEF IsRun
  <2> QED
    BY <1>5, <2>1
<1>12. r \in [0 .. n -> Q] /\ r[0] = base /\ all = r[n]
  BY <1>2, <1>10 DEF IsRun
<1>13. n \in 0 .. n
  BY <1>1
<1> QED
  BY <1>12, <1>13 DEF Q, all

LEMMA VwapTyped ==
  ASSUME NEW w \in Seq(ChartBars), NEW price \in Int
  PROVE  VwapBands(w, price) \in Seq(AnchorSet)
<1> DEFINE recent == LastOf(w, VwapPeriod)
           typical == [i \in DOMAIN recent |-> (recent[i].high + recent[i].low + recent[i].close) \div 3]
           mean == Summed(typical) \div VwapPeriod
           squares == SquaresSummed(typical, mean)
           std == Max({d \in 0 .. squares : d * d * VwapPeriod <= squares})
           above == Anchor(mean + std, "synthetic_vwap")
           below == Anchor(mean - std, "synthetic_vwap")
           bands == <<above, below>>
           other == {i \in 1 .. 2 : bands[i].price # price}
<1>1. VwapPeriod \in Nat \ {0}
  BY DetectionAssumption
<1>2. VwapBands(w, price) = IF Len(w) < VwapPeriod THEN <<>> ELSE Only(bands, other)
  BY DEF VwapBands, Summed, SquaresSummed
<1>3. <<>> \in Seq(AnchorSet)
  OBVIOUS
<1>4. ASSUME ~(Len(w) < VwapPeriod) PROVE Only(bands, other) \in Seq(AnchorSet)
  <2>1. w # <<>>
    <3>1. w = <<>> => Len(w) = 0
      OBVIOUS
    <3> QED
      BY <1>1, <1>4, <3>1
  <2>2. recent \in Seq(ChartBars)
    BY <1>1, <2>1, LastOnes
  <2> HIDE DEF recent
  <2>3. typical \in Seq(Int)
    <3>1. DOMAIN recent = 1 .. Len(recent) /\ Len(recent) \in Nat /\ \A i \in DOMAIN recent : recent[i] \in ChartBars
      BY <2>2, Elements
    <3>2. \A b \in ChartBars : (b.high + b.low + b.close) \div 3 \in Int
      <4> TAKE b \in ChartBars
      <4>1. b.high \in Int /\ b.low \in Int /\ b.close \in Int
        BY DEF ChartBars
      <4> QED
        BY <4>1
    <3> QED
      BY <3>1, <3>2
  <2> HIDE DEF typical
  <2>4. mean \in Int
    <3> DEFINE total == Summed(typical)
    <3>1. total \in Int
      BY <2>3, TotalTyped
    <3> HIDE DEF total
    <3>2. total \div VwapPeriod \in Int
      BY <1>1, <3>1
    <3> QED
      BY <3>2 DEF total
  <2> HIDE DEF mean
  <2>5. squares \in Nat
    BY <2>3, <2>4, SquaresTyped
  <2> HIDE DEF squares
  <2>6. std \in Int
    <3> DEFINE D == {d \in 0 .. squares : d * d * VwapPeriod <= squares}
    <3>1. 0 \in 0 .. squares /\ 0 * 0 * VwapPeriod <= squares
      BY <1>1, <2>5
    <3>2. D \in SUBSET (0 .. squares) /\ D # {} /\ \A d \in D : d \in Int
      BY <3>1
    <3> HIDE DEF D
    <3>3. Max(D) \in D
      BY <2>5, <3>2, LargestNat
    <3>4. Max(D) \in Int
      BY <3>2, <3>3
    <3> QED
      BY <3>4 DEF D
  <2> HIDE DEF std
  <2>7. above \in AnchorSet /\ below \in AnchorSet
    <3>1. mean + std \in Int /\ mean - std \in Int
      BY <2>4, <2>6
    <3>2. "synthetic_vwap" \in AnchorTypes
      BY DEF AnchorTypes
    <3> QED
      BY <3>1, <3>2, AnchorMade
  <2> HIDE DEF above, below
  <2>8. bands \in Seq(AnchorSet) /\ DOMAIN bands = 1 .. 2
    BY <2>7
  <2> HIDE DEF bands
  <2>9. other \in SUBSET DOMAIN bands
    BY <2>8
  <2> HIDE DEF other
  <2> QED
    BY <2>8, <2>9, Chosen
<1> HIDE DEF bands, other
<1> QED
  BY <1>2, <1>3, <1>4

LEMMA SessionTyped ==
  ASSUME NEW w \in Seq(ChartBars)
  PROVE  SessionHighsLows(w) \in Seq(AnchorSet)
<1> DEFINE today == {b \in Range(w) : b.ts \div DayBars = Last(w).ts \div DayBars}
           held(s) == {b \in today : b.ts % DayBars \in s}
           both(s) == IF held(s) = {} THEN <<>>
                      ELSE <<Anchor(HighOf(held(s)), "synthetic_session"),
                             Anchor(LowOf(held(s)), "synthetic_session")>>
           all == [i \in DOMAIN Sessions |-> both(Sessions[i])]
<1>1. SessionHighsLows(w) = FirstOf(FlattenSeq(all), 3)
  BY DEF SessionHighsLows
<1>2. ASSUME NEW s PROVE both(s) \in Seq(AnchorSet)
  <2> DEFINE B == held(s)
             t == "synthetic_session"
  <2>1. B \in SUBSET Range(w)
    OBVIOUS
  <2>2. t \in AnchorTypes
    BY DEF AnchorTypes
  <2>3. both(s) = IF B = {} THEN <<>> ELSE <<Anchor(HighOf(B), t), Anchor(LowOf(B), t)>>
    OBVIOUS
  <2> HIDE DEF B, both, t
  <2> QED
    BY <2>1, <2>2, <2>3, BothEnds
<1> HIDE DEF both
<1>3. DOMAIN Sessions = 1 .. Len(Sessions) /\ Len(Sessions) \in Nat
  BY DetectionAssumption, Elements
<1>4. all \in Seq(Seq(AnchorSet))
  BY <1>2, <1>3
<1> HIDE DEF all
<1>5. FlattenSeq(all) \in Seq(AnchorSet)
  BY <1>4, Flattened
<1>6. 3 \in Nat
  OBVIOUS
<1> QED
  BY <1>1, <1>5, <1>6, Firsts

LEMMA RoundTyped ==
  ASSUME NEW price \in Int
  PROVE  RoundNumbers(price) \in Seq(AnchorSet)
<1> DEFINE near == [k \in 1 .. 2 * RoundWindow + 1 |-> price - RoundWindow - 1 + k]
           kept == {k \in DOMAIN near : near[k] % RoundStep = 0 /\ near[k] # price}
           grid == Only(near, kept)
           all == [i \in DOMAIN grid |-> Anchor(grid[i], "synthetic_round")]
<1>1. RoundNumbers(price) = FirstOf(all, 3)
  BY DEF RoundNumbers
<1>2. near \in Seq(Int)
  <2>1. RoundWindow \in Nat
    BY DetectionAssumption
  <2>2. 2 * RoundWindow + 1 \in Nat /\ \A k \in 1 .. 2 * RoundWindow + 1 : price - RoundWindow - 1 + k \in Int
    BY <2>1
  <2> QED
    BY <2>2
<1> HIDE DEF near
<1>3. kept \in SUBSET DOMAIN near
  OBVIOUS
<1> HIDE DEF kept
<1>4. grid \in Seq(Int)
  BY <1>2, <1>3, Chosen
<1> HIDE DEF grid
<1>5. DOMAIN grid = 1 .. Len(grid) /\ Len(grid) \in Nat /\ \A i \in DOMAIN grid : grid[i] \in Int
  BY <1>4, Elements
<1>6. "synthetic_round" \in AnchorTypes
  BY DEF AnchorTypes
<1>7. \A i \in DOMAIN grid : Anchor(grid[i], "synthetic_round") \in AnchorSet
  BY <1>5, <1>6, AnchorMade
<1>8. all \in Seq(AnchorSet)
  BY <1>5, <1>7
<1>9. 3 \in Nat
  OBVIOUS
<1> HIDE DEF all
<1> QED
  BY <1>1, <1>8, <1>9, Firsts

LEMMA WeekTyped ==
  ASSUME NEW w \in Seq(ChartBars)
  PROVE  PrevWeekHighLow(w) \in Seq(AnchorSet)
<1> DEFINE B == {b \in Range(w) : b.ts \div WeekBars = Last(w).ts \div WeekBars - 1}
           t == "synthetic_prev_week"
<1>1. B \in SUBSET Range(w)
  OBVIOUS
<1>2. t \in AnchorTypes
  BY DEF AnchorTypes
<1>3. PrevWeekHighLow(w) = IF B = {} THEN <<>> ELSE <<Anchor(HighOf(B), t), Anchor(LowOf(B), t)>>
  BY DEF PrevWeekHighLow
<1> HIDE DEF B, t
<1> QED
  BY <1>1, <1>2, <1>3, BothEnds

LEMMA AnchorsTyped ==
  ASSUME NEW w \in Seq(ChartBars), NEW price \in Int
  PROVE  Anchors(w, price) \in Seq(AnchorSet)
<1>1. /\ VwapBands(w, price) \in Seq(AnchorSet) /\ SessionHighsLows(w) \in Seq(AnchorSet)
      /\ RoundNumbers(price) \in Seq(AnchorSet) /\ PrevWeekHighLow(w) \in Seq(AnchorSet)
  BY VwapTyped, SessionTyped, RoundTyped, WeekTyped
<1>2. \A a, b \in Seq(AnchorSet) : a \o b \in Seq(AnchorSet)
  OBVIOUS
<1> QED
  BY <1>1, <1>2 DEF Anchors

\* A zone is centred on its anchor.
LEMMA ZoneCentred ==
  ASSUME NEW a \in AnchorSet, NEW price
  PROVE  Middle(MakeZone(a, price)) = a.price /\ a.price \in Int
<1> DEFINE x == a.price
           d == IF a.price < price THEN "long" ELSE "short"
<1>1. x \in Int /\ HalfWidth \in Nat
  BY DetectionAssumption DEF AnchorSet
<1>2. MakeZone(a, price) = [hi |-> x + HalfWidth, lo |-> x - HalfWidth, type |-> a.type, dir |-> d, conf |-> 400]
  BY DEF MakeZone
<1> HIDE DEF x, d
<1>3. Middle(MakeZone(a, price)) = ((x + HalfWidth) + (x - HalfWidth)) \div 2
  BY <1>2 DEF Middle
<1>4. (x + HalfWidth) + (x - HalfWidth) = 2 * x /\ (2 * x) \div 2 = x
  BY <1>1
<1>5. Middle(MakeZone(a, price)) = x
  BY <1>3, <1>4
<1> QED
  BY <1>1, <1>5 DEF x

\* build_synthetic_zones: whatever the bars, the zones it hands out are pairwise apart,
\* and if there are any then every anchor has one next to it.
THEOREM SyntheticStayApart == DetectionSpec => []SyntheticZonesAreApart
<1>1. ChartInv => SyntheticZonesAreApart
  <2> SUFFICES ASSUME ChartInv PROVE SyntheticZonesAreApart
    OBVIOUS
  <2> DEFINE price == Last(chart).close
             all == Anchors(chart, price)
             top == HighOf(Range(chart))
             bottom == LowOf(Range(chart))
             some == [i \in DOMAIN all |-> MakeZone(all[i], price)]
             deduped == DedupeByProximity(some)
             zones == BuildSyntheticZones(chart)
             Z == {MakeZone(a, price) : a \in AnchorSet}
  <2>1. chart \in Seq(ChartBars) /\ price \in Int
    <3>1. chart \in Seq(ChartBars) /\ chart # <<>>
      BY DEF ChartInv
    <3>2. Len(chart) \in 1 .. Len(chart) /\ DOMAIN chart = 1 .. Len(chart)
      BY <3>1
    <3>3. chart[Len(chart)] \in ChartBars
      BY <3>1, <3>2, Elements
    <3> QED
      BY <3>1, <3>3 DEF ChartBars, Last
  <2>2. zones = IF top = bottom \/ 100 * (price - bottom) < 95 * (top - bottom) THEN <<>> ELSE deduped
    BY DEF BuildSyntheticZones
  <2>3. zones = <<>> \/ zones = deduped
    BY <2>2, Zenon
  <2> HIDE DEF price, zones
  <2>4. all \in Seq(AnchorSet)
    BY <2>1, AnchorsTyped
  <2> HIDE DEF all
  <2>5. DOMAIN all = 1 .. Len(all) /\ Len(all) \in Nat /\ \A i \in DOMAIN all : all[i] \in AnchorSet
    BY <2>4, Elements
  <2>6. some \in Seq(Z) /\ DOMAIN some = DOMAIN all /\ \A i \in DOMAIN all : some[i] = MakeZone(all[i], price)
    BY <2>5
  <2>7. \A z \in Z : Middle(z) \in Int
    BY ZoneCentred
  <2> HIDE DEF some, Z
  <2>8. /\ deduped \in Seq(Z) /\ Scattered(deduped)
        /\ \A j \in DOMAIN some : \E k \in Range(deduped) : NextTo(k, some[j])
    BY <2>6, <2>7, DedupeSpreads
  <2> HIDE DEF deduped
  <2>9. ASSUME zones = deduped, NEW i \in DOMAIN zones, NEW j \in DOMAIN zones, i # j
        PROVE  Abs(Middle(zones[i]) - Middle(zones[j])) > Apart
    <3>1. zones[i] \in Z /\ zones[j] \in Z
      BY <2>8, <2>9, Elements
    <3>2. ~NextTo(zones[i], zones[j])
      BY <2>8, <2>9 DEF Scattered
    <3> QED
      BY <2>7, <3>1, <3>2, NearTyped
  <2>10. ASSUME zones = deduped, NEW x \in Range(all)
         PROVE  \E z \in Range(zones) : Abs(Middle(z) - x.price) <= Apart
    <3>1. PICK j \in DOMAIN all : x = all[j]
      BY DEF Range
    <3>2. x \in AnchorSet /\ some[j] = MakeZone(x, price) /\ j \in DOMAIN some
      BY <2>5, <2>6, <3>1
    <3>3. PICK k \in Range(deduped) : NextTo(k, some[j])
      BY <2>8, <3>2
    <3>4. Middle(some[j]) = x.price
      BY <3>2, ZoneCentred
    <3> QED
      BY <2>10, <3>3, <3>4 DEF NextTo
  <2>11. DOMAIN <<>> = {}
    OBVIOUS
  <2>12. \A i, j \in DOMAIN zones : i # j => Abs(Middle(zones[i]) - Middle(zones[j])) > Apart
    BY <2>3, <2>9, <2>11
  <2>13. zones # <<>> => \A x \in Range(all) : \E z \in Range(zones) : Abs(Middle(z) - x.price) <= Apart
    BY <2>3, <2>10
  <2> QED
    BY <2>12, <2>13 DEF SyntheticZonesAreApart, all, zones, price
<1> QED
  BY <1>1, ChartAlways, PTL

==============================================================================
