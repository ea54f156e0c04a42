-------------------------- MODULE LivePython_proofs --------------------------
(* Proofs about the Python legs: the mode router with its hysteresis and the *)
(* range trader, for every market of well-formed scenes (SceneAssumption),   *)
(* every cooldown and any number of restarts; the order manager, for every   *)
(* set of prices and setups and any number of tickets and faults; the macro  *)
(* overlay and the AI direction, for every length of their caches and of     *)
(* what the sources take (MacroAssumption, AiAssumption); the order path, for *)
(* every number of senders, margins and attempts.                            *)
EXTENDS RangeTrading, OrderManager, OrderPath, MacroOverlay, AiDirection,
        FiniteSetTheorems, SequenceTheorems, WellFoundedInduction, TLAPS

-----------------------------------------------------------------------------
\* What the sections share: sets of integers and sequences.

\* Induction over the naturals, for a set.
LEMMA NatInd ==
  ASSUME NEW S, 0 \in S, \A n \in Nat : n \in S => n + 1 \in S
  PROVE  Nat \subseteq S
<1> DEFINE T == Nat \ S
<1> SUFFICES ASSUME T # {} PROVE FALSE
  OBVIOUS
<1> HIDE DEF T
<1>1. T \subseteq Nat
  BY DEF T
<1>2. \E m \in T : \A k \in T : <<k, m>> \notin OpToRel(<, Nat)
  BY <1>1, WFMin, NatLessThanWellFounded, Zenon
<1>3. PICK m \in T : \A k \in T : ~(k < m)
  BY <1>1, <1>2, Zenon DEF OpToRel
<1>4. m \in Nat /\ m # 0 /\ m - 1 \in Nat /\ (m - 1) + 1 = m /\ m - 1 < m
  BY <1>1 DEF T
<1>5. m - 1 \in T
  BY <1>4 DEF T
<1> QED
  BY <1>3, <1>4, <1>5

\* A finite set of integers has a largest and a smallest element, if it has any.
Bounded(T) == (\E x \in T : \A y \in T : x >= y) /\ (\E x \in T : \A y \in T : x <= y)

LEMMA FiniteIsBounded ==
  ASSUME NEW T \in SUBSET Int, IsFiniteSet(T), T # {}
  PROVE  Bounded(T)
<1> DEFINE S == {n \in Nat : \A U \in SUBSET Int :
                   IsFiniteSet(U) /\ U # {} /\ Cardinality(U) = n => Bounded(U)}
<1>1. 0 \in S
  BY FS_EmptySet
<1>2. ASSUME NEW n \in Nat, n \in S PROVE n + 1 \in S
  <2> SUFFICES ASSUME NEW U \in SUBSET Int, IsFiniteSet(U), U # {}, Cardinality(U) = n + 1
               PROVE  Bounded(U)
    BY <1>2
  <2>1. PICK z \in U : TRUE
    OBVIOUS
  <2> DEFINE V == U \ {z}
  <2>2. IsFiniteSet(V) /\ Cardinality(V) = n
    <3>1. /\ IsFiniteSet(U \ {z})
          /\ Cardinality(U \ {z}) = IF z \in U THEN Cardinality(U) - 1 ELSE Cardinality(U)
      BY FS_RemoveElement
    <3> QED
      BY <2>1, <3>1
  <2>3. CASE V = {}
    <3>1. U = {z} /\ z \in Int
      BY <2>1, <2>3
    <3> QED
      BY <3>1 DEF Bounded
  <2>4. CASE V # {}
    <3>1. Bounded(V)
      BY <1>2, <2>2, <2>4
    <3>2. \A y \in U : y = z \/ y \in V
      OBVIOUS
    <3>3. z \in Int /\ V \subseteq Int /\ z \in U /\ V \subseteq U
      BY <2>1
    <3> HIDE DEF V
    <3>4. \E x \in U : \A y \in U : x >= y
      <4>1. PICK x \in V : \A y \in V : x >= y
        BY <3>1 DEF Bounded
      <4>2. CASE x >= z
        BY <3>2, <3>3, <4>1, <4>2
      <4>3. CASE ~(x >= z)
        BY <3>2, <3>3, <4>1, <4>3
      <4> QED
        BY <4>2, <4>3
    <3>5. \E x \in U : \A y \in U : x <= y
      <4>1. PICK x \in V : \A y \in V : x <= y
        BY <3>1 DEF Bounded
      <4>2. CASE x <= z
        BY <3>2, <3>3, <4>1, <4>2
      <4>3. CASE ~(x <= z)
        BY <3>2, <3>3, <4>1, <4>3
      <4> QED
        BY <4>2, <4>3
    <3> QED
      BY <3>4, <3>5 DEF Bounded
  <2> QED
    BY <2>3, <2>4
<1> HIDE DEF S
<1>3. Cardinality(T) \in S
  BY <1>1, <1>2, NatInd, FS_CardinalityType
<1> QED
  BY <1>3 DEF S

LEMMA MaxMin ==
  ASSUME NEW T \in SUBSET Int, IsFiniteSet(T), T # {}
  PROVE  /\ Max(T) \in T /\ \A y \in T : y <= Max(T)
         /\ Min(T) \in T /\ \A y \in T : Min(T) <= y
<1>1. Bounded(T)
  BY FiniteIsBounded
<1>2. Max(T) \in T /\ \A y \in T : Max(T) >= y
  BY <1>1 DEF Max, Bounded
<1>3. Min(T) \in T /\ \A y \in T : Min(T) <= y
  BY <1>1 DEF Min, Bounded
<1> QED
  BY <1>2, <1>3

\* The entries of a sequence, and a property of each of them.
LEMMA EntriesOfSeq ==
  ASSUME NEW S, NEW s \in Seq(S)
  PROVE  Range(s) \subseteq S /\ IsFiniteSet(Range(s))
<1>1. DOMAIN s = 1 .. Len(s) /\ Len(s) \in Nat /\ s \in [1 .. Len(s) -> S]
  BY LenProperties
<1>2. Range(s) \subseteq S
  BY <1>1 DEF Range
<1> DEFINE D == 1 .. Len(s)
           R == Range(s)
<1>3. s \in Surjection(D, R)
  BY <1>1 DEF Surjection, Range
<1>4. IsFiniteSet(D)
  BY <1>1, FS_Interval
<1> HIDE DEF D, R
<1>5. IsFiniteSet(R)
  BY <1>3, <1>4, FS_Surjection
<1> QED
  BY <1>2, <1>5 DEF R

LEMMA ImageIsFinite ==
  ASSUME NEW f, IsFiniteSet(DOMAIN f)
  PROVE  IsFiniteSet({f[x] : x \in DOMAIN f})
<1> DEFINE D == DOMAIN f
           g == [x \in D |-> f[x]]
           T == {f[x] : x \in D}
<1>1. g \in Surjection(D, T)
  BY DEF Surjection
<1> HIDE DEF g, D, T
<1>2. IsFiniteSet(D)
  BY DEF D
<1>3. IsFiniteSet(T)
  BY <1>1, <1>2, FS_Surjection
<1> QED
  BY <1>3 DEF T, D

LEMMA LastOfIsSeq ==
  ASSUME NEW S, NEW s \in Seq(S), NEW n \in Nat
  PROVE  LastOf(s, n) \in Seq(S)
<1>1. Len(s) \in Nat
  BY LenProperties
<1> DEFINE m == Most(1, Len(s) - n + 1)
           e == Len(s)
<1>2. m \in Int /\ e \in Int /\ m >= 1
  BY <1>1 DEF Most
<1>3. \A i \in m .. e : s[i] \in S
  BY <1>1, <1>2, ElementOfSeq
<1>4. LastOf(s, n) = SubSeq(s, m, e)
  BY DEF LastOf
<1> HIDE DEF m, e
<1> QED
  BY <1>2, <1>3, <1>4, SubSeqProperties

-----------------------------------------------------------------------------
\* What a fold over the subsets of a finite set computes: a function h of the subset, where
\* the next element is pick's and the value is step's.
Folds(h, S, base, step, pick) ==
  h = [s \in SUBSET S |-> IF s = {} THEN base ELSE step[<<pick[s], h[s \ {pick[s]}]>>]]

LEMMA FoldExists ==
  ASSUME NEW S, IsFiniteSet(S), NEW V, NEW base \in V, NEW step \in [S \X V -> V],
         NEW pick, \A s \in SUBSET S : s # {} => pick[s] \in s
  PROVE  \E h \in [SUBSET S -> V] : Folds(h, S, base, step, pick)
<1> DEFINE Next1(h, s) == IF s = {} THEN base ELSE step[<<pick[s], h[s \ {pick[s]}]>>]
           UpTo(h, n) == \A s \in SUBSET S : Cardinality(s) <= n => h[s] = Next1(h, s)
           N == {n \in Nat : \E h \in [SUBSET S -> V] : UpTo(h, n)}
<1>1. \A s \in SUBSET S : IsFiniteSet(s) /\ Cardinality(s) \in Nat /\ Cardinality(s) <= Cardinality(S)
  BY FS_Subset, FS_CardinalityType
<1>2. \A s \in SUBSET S : s # {} => s \ {pick[s]} \in SUBSET S /\ pick[s] \in S
                                    /\ Cardinality(s \ {pick[s]}) = Cardinality(s) - 1
  BY <1>1, FS_RemoveElement
<1>3. \A h \in [SUBSET S -> V], s \in SUBSET S : Next1(h, s) \in V
  BY <1>2
<1>4. 0 \in N
  <2> DEFINE h == [s \in SUBSET S |-> base]
  <2>1. h \in [SUBSET S -> V]
    OBVIOUS
  <2>2. \A s \in SUBSET S : Cardinality(s) <= 0 => s = {}
    BY <1>1, FS_EmptySet
  <2>3. UpTo(h, 0)
    BY <2>2
  <2> HIDE DEF h
  <2> QED
    BY <2>1, <2>3
<1>5. ASSUME NEW n \in Nat, n \in N PROVE n + 1 \in N
  <2>1. PICK h \in [SUBSET S -> V] : UpTo(h, n)
    BY <1>5
  <2> DEFINE g == [s \in SUBSET S |-> Next1(h, s)]
  <2>2. g \in [SUBSET S -> V]
    BY <1>3
  <2>3. \A s \in SUBSET S : g[s] = Next1(h, s)
    OBVIOUS
  <2> HIDE DEF g
  <2>4. \A s \in SUBSET S : Cardinality(s) <= n + 1 /\ s # {} => g[s \ {pick[s]}] = h[s \ {pick[s]}]
    <3> TAKE s \in SUBSET S
    <3> SUFFICES ASSUME Cardinality(s) <= n + 1, s # {} PROVE g[s \ {pick[s]}] = h[s \ {pick[s]}]
      OBVIOUS
    <3> DEFINE rest == s \ {pick[s]}
    <3>1. rest \in SUBSET S /\ Cardinality(rest) <= n
      BY <1>1, <1>2
    <3> HIDE DEF rest
    <3>2. h[rest] = Next1(h, rest) /\ g[rest] = Next1(h, rest)
      BY <2>1, <2>3, <3>1
    <3> QED
      BY <3>2 DEF rest
  <2>5. UpTo(g, n + 1)
    BY <2>3, <2>4
  <2> HIDE DEF UpTo
  <2> QED
    BY <2>2, <2>5
<1>6. Cardinality(S) \in N
  <2> HIDE DEF N
  <2>1. Nat \subseteq N
    BY <1>4, <1>5, NatInd
  <2> QED
    BY <1>1, <2>1
<1>7. PICK h \in [SUBSET S -> V] : UpTo(h, Cardinality(S))
  BY <1>6
<1>8. \A s \in SUBSET S : h[s] = Next1(h, s)
  BY <1>1, <1>7
<1>9. h = [s \in SUBSET S |-> Next1(h, s)]
  BY <1>8
<1> QED
  BY <1>9 DEF Folds

\* Induction over the subsets of a finite set, an element at a time.
LEMMA SubsetInd ==
  ASSUME NEW S, IsFiniteSet(S), NEW pick, \A s \in SUBSET S : s # {} => pick[s] \in s,
         NEW Good, {} \in Good, \A s \in SUBSET S : s # {} /\ s \ {pick[s]} \in Good => s \in Good
  PROVE  SUBSET S \subseteq Good
<1> DEFINE N == {n \in Nat : \A s \in SUBSET S : Cardinality(s) = n => s \in Good}
<1>1. \A s \in SUBSET S : IsFiniteSet(s) /\ Cardinality(s) \in Nat
  BY FS_Subset, FS_CardinalityType
<1>2. 0 \in N
  BY <1>1, FS_EmptySet
<1>3. ASSUME NEW n \in Nat, n \in N PROVE n + 1 \in N
  <2> SUFFICES ASSUME NEW s \in SUBSET S, Cardinality(s) = n + 1 PROVE s \in Good
    OBVIOUS
  <2>1. s # {}
    BY <1>1, FS_EmptySet
  <2>2. Cardinality(s \ {pick[s]}) = n
    <3>1. IsFiniteSet(s) /\ pick[s] \in s
      BY <1>1, <2>1
    <3>2. Cardinality(s \ {pick[s]}) = Cardinality(s) - 1
      BY <3>1, FS_RemoveElement
    <3> QED
      BY <3>2
  <2>3. s \ {pick[s]} \in Good
    BY <1>3, <2>2
  <2> QED
    BY <2>1, <2>3
<1> HIDE DEF N
<1>4. Nat \subseteq N
  BY <1>2, <1>3, NatInd
<1> QED
  BY <1>1, <1>4 DEF N

-----------------------------------------------------------------------------
\* A sum over a finite set, as SumFunction computes it.
AnyOf(s) == CHOOSE x \in s : TRUE
IsSum(h, g, S) == h = [s \in SUBSET S |-> IF s = {} THEN 0 ELSE g[AnyOf(s)] + h[s \ {AnyOf(s)}]]

LEMMA SumFunctionIsSum ==
  ASSUME NEW S, NEW g \in [S -> Int], NEW H, IsSum(H, g, S)
  PROVE  \E h : IsSum(h, g, S) /\ SumFunction(g) = h[S]
<1> DEFINE IsFold(h, T) == h = [s \in SUBSET T |-> IF s = {} THEN 0 ELSE g[AnyOf(s)] + h[s \ {AnyOf(s)}]]
           iter(T) == CHOOSE h : IsFold(h, T)
<1>1. SumFunction(g) = iter(DOMAIN g)[DOMAIN g]
  BY DEF SumFunction, SumFunctionOnSet, FoldFunctionOnSet, MapThenFoldSet, AnyOf
<1>2. DOMAIN g = S
  OBVIOUS
<1>3. \A h : IsFold(h, S) <=> IsSum(h, g, S)
  BY DEF IsSum
<1> HIDE DEF IsFold
<1>4. SumFunction(g) = iter(S)[S]
  BY <1>1, <1>2
<1>5. IsFold(iter(S), S)
  BY <1>3
<1> QED
  BY <1>3, <1>4, <1>5

LEMMA PickAny ==
  ASSUME NEW S
  PROVE  \E pick : \A s \in SUBSET S : s # {} => pick[s] \in s /\ pick[s] = AnyOf(s)
<1>1. \A s \in SUBSET S : s # {} => AnyOf(s) \in s
  BY DEF AnyOf
<1> DEFINE pick == [s \in SUBSET S |-> AnyOf(s)]
<1>2. \A s \in SUBSET S : pick[s] = AnyOf(s)
  OBVIOUS
<1> HIDE DEF pick
<1> QED
  BY <1>1, <1>2

LEMMA SumExists ==
  ASSUME NEW S, IsFiniteSet(S), NEW g \in [S -> Int]
  PROVE  \E h \in [SUBSET S -> Int] : IsSum(h, g, S)
<1>0. PICK pick : \A s \in SUBSET S : s # {} => pick[s] \in s /\ pick[s] = AnyOf(s)
  BY PickAny
<1>1. \A s \in SUBSET S : s # {} => pick[s] \in s
  BY <1>0
<1> DEFINE step == [e \in S \X Int |-> g[e[1]] + e[2]]
<1>2. step \in [S \X Int -> Int]
  OBVIOUS
<1>3. \A x \in S, v \in Int : step[<<x, v>>] = g[x] + v
  OBVIOUS
<1> HIDE DEF step
<1>4. \E h \in [SUBSET S -> Int] : Folds(h, S, 0, step, pick)
  <2>1. 0 \in Int
    OBVIOUS
  <2> QED
    BY <1>1, <1>2, <2>1, FoldExists
<1>5. PICK h \in [SUBSET S -> Int] : Folds(h, S, 0, step, pick)
  BY <1>4
<1>6. \A s \in SUBSET S : h[s] = IF s = {} THEN 0 ELSE g[AnyOf(s)] + h[s \ {AnyOf(s)}]
  <2> TAKE s \in SUBSET S
  <2>1. h[s] = IF s = {} THEN 0 ELSE step[<<pick[s], h[s \ {pick[s]}]>>]
    BY <1>5 DEF Folds
  <2>2. s # {} => pick[s] = AnyOf(s) /\ AnyOf(s) \in S /\ s \ {AnyOf(s)} \in SUBSET S
    BY <1>0
  <2>3. s # {} => h[s \ {AnyOf(s)}] \in Int
    BY <2>2
  <2> QED
    BY <1>3, <2>1, <2>2, <2>3
<1> QED
  BY <1>6 DEF IsSum

\* It is a number.
LEMMA SumIsInt ==
  ASSUME NEW S, IsFiniteSet(S), NEW g \in [S -> Int], NEW h, IsSum(h, g, S)
  PROVE  \A s \in SUBSET S : h[s] \in Int
<1>0. PICK pick : \A s \in SUBSET S : s # {} => pick[s] \in s /\ pick[s] = AnyOf(s)
  BY PickAny
<1>1. \A s \in SUBSET S : s # {} => pick[s] \in s
  BY <1>0
<1> DEFINE Good == {s \in SUBSET S : h[s] \in Int}
<1>2. {} \in Good
  BY DEF IsSum
<1>3. ASSUME NEW s \in SUBSET S, s # {}, s \ {pick[s]} \in Good PROVE s \in Good
  <2>1. h[s] = g[pick[s]] + h[s \ {pick[s]}] /\ pick[s] \in S
    BY <1>0, <1>3 DEF IsSum
  <2> QED
    BY <1>3, <2>1
<1> HIDE DEF Good
<1>4. SUBSET S \subseteq Good
  BY <1>1, <1>2, <1>3, SubsetInd
<1> QED
  BY <1>4 DEF Good

\* Its value for a set that has an element.
LEMMA SumStep ==
  ASSUME NEW S, NEW g, NEW h, IsSum(h, g, S)
  PROVE  \A s \in SUBSET S : s # {} => h[s] = g[AnyOf(s)] + h[s \ {AnyOf(s)}]
BY DEF IsSum

\* A sum is at most two others' sum if each of its terms is.
TermsAtMost(f, g, k, S) == \A x \in S : f[x] <= g[x] + k[x]

LEMMA SumAtMost ==
  ASSUME NEW S, IsFiniteSet(S), NEW f \in [S -> Int], NEW g \in [S -> Int], NEW k \in [S -> Int],
         NEW F, IsSum(F, f, S), NEW G, IsSum(G, g, S), NEW K, IsSum(K, k, S),
         TermsAtMost(f, g, k, S)
  PROVE  F[S] <= G[S] + K[S]
<1>0. PICK pick : \A s \in SUBSET S : s # {} => pick[s] \in s /\ pick[s] = AnyOf(s)
  BY PickAny
<1>1. \A s \in SUBSET S : s # {} => pick[s] \in s
  BY <1>0
<1>2. \A s \in SUBSET S : F[s] \in Int /\ G[s] \in Int /\ K[s] \in Int
  BY SumIsInt
<1>a. \A s \in SUBSET S : s # {} => F[s] = f[AnyOf(s)] + F[s \ {AnyOf(s)}]
  BY DEF IsSum
<1>b. \A s \in SUBSET S : s # {} => G[s] = g[AnyOf(s)] + G[s \ {AnyOf(s)}]
  BY SumStep
<1>c. \A s \in SUBSET S : s # {} => K[s] = k[AnyOf(s)] + K[s \ {AnyOf(s)}]
  BY SumStep
<1> DEFINE Good == {s \in SUBSET S : F[s] <= G[s] + K[s]}
<1>3. {} \in Good
  BY DEF IsSum
<1>4. \A s \in SUBSET S : s # {} /\ s \ {pick[s]} \in Good => s \in Good
  <2> SUFFICES ASSUME NEW s \in SUBSET S, s # {}, s \ {pick[s]} \in Good PROVE s \in Good
    OBVIOUS
  <2> DEFINE x == AnyOf(s)
             r == s \ {AnyOf(s)}
  <2>0. x = pick[s] /\ x \in S /\ r \in SUBSET S
    BY <1>0
  <2>1. F[s] = f[x] + F[r] /\ G[s] = g[x] + G[r] /\ K[s] = k[x] + K[r]
    BY <1>a, <1>b, <1>c
  <2>2. F[r] <= G[r] + K[r]
    BY <2>0
  <2> HIDE DEF x, r
  <2>3. f[x] <= g[x] + k[x] /\ f[x] \in Int /\ g[x] \in Int /\ k[x] \in Int
    BY <2>0 DEF TermsAtMost
  <2>4. F[r] \in Int /\ G[r] \in Int /\ K[r] \in Int
    BY <1>2, <2>0
  <2>5. F[s] <= G[s] + K[s]
    BY <2>1, <2>2, <2>3, <2>4
  <2> QED
    BY <2>5
<1> HIDE DEF Good
<1>5. SUBSET S \subseteq Good
  BY <1>1, <1>3, <1>4, SubsetInd, SMTT(30)
<1> QED
  BY <1>5 DEF Good

\* Of two sums that agree but for one term, each is the other with that term replaced.
LEMMA SumChanges ==
  ASSUME NEW S, IsFiniteSet(S), NEW f \in [S -> Int], NEW g \in [S -> Int],
         NEW F, IsSum(F, f, S), NEW G, IsSum(G, g, S),
         NEW t \in S, \A x \in S \ {t} : f[x] = g[x]
  PROVE  F[S] - f[t] = G[S] - g[t]
<1>0. PICK pick : \A s \in SUBSET S : s # {} => pick[s] \in s /\ pick[s] = AnyOf(s)
  BY PickAny
<1>1. \A s \in SUBSET S : s # {} => pick[s] \in s
  BY <1>0
<1>2. \A s \in SUBSET S : F[s] \in Int /\ G[s] \in Int
  BY SumIsInt
<1> DEFINE Good == {s \in SUBSET S : IF t \in s THEN F[s] - f[t] = G[s] - g[t] ELSE F[s] = G[s]}
<1>3. {} \in Good
  BY DEF IsSum
<1>4. ASSUME NEW s \in SUBSET S, s # {}, s \ {pick[s]} \in Good PROVE s \in Good
  <2> DEFINE x == pick[s]
             r == s \ {pick[s]}
  <2>1. F[s] = f[x] + F[r] /\ G[s] = g[x] + G[r] /\ x \in S /\ r \in SUBSET S
    BY <1>0, <1>4 DEF IsSum
  <2>2. IF t \in r THEN F[r] - f[t] = G[r] - g[t] ELSE F[r] = G[r]
    BY <1>4
  <2>3. t \in s <=> t \in r \/ t = x
    BY <1>1, <1>4
  <2>4. t \in r => t # x
    OBVIOUS
  <2> HIDE DEF x, r
  <2>5. (x # t => f[x] = g[x]) /\ f[x] \in Int /\ g[x] \in Int /\ f[t] \in Int /\ g[t] \in Int
    BY <2>1
  <2>6. F[r] \in Int /\ G[r] \in Int
    BY <1>2, <2>1
  <2>7. IF t \in s THEN F[s] - f[t] = G[s] - g[t] ELSE F[s] = G[s]
    BY <2>1, <2>2, <2>3, <2>4, <2>5, <2>6
  <2> QED
    BY <2>7
<1> HIDE DEF Good
<1>5. SUBSET S \subseteq Good
  BY <1>1, <1>3, <1>4, SubsetInd
<1> QED
  BY <1>5 DEF Good

\* The same of SumFunction.
LEMMA SumIsSum ==
  ASSUME NEW S, IsFiniteSet(S), NEW g \in [S -> Int]
  PROVE  \E h : IsSum(h, g, S) /\ SumFunction(g) = h[S]
<1>1. PICK H \in [SUBSET S -> Int] : IsSum(H, g, S)
  BY SumExists
<1> QED
  BY <1>1, SumFunctionIsSum

LEMMA SumFunctionIsInt ==
  ASSUME NEW S, IsFiniteSet(S), NEW g \in [S -> Int]
  PROVE  SumFunction(g) \in Int
<1>1. PICK h : IsSum(h, g, S) /\ SumFunction(g) = h[S]
  BY SumIsSum
<1>2. h[S] \in Int
  BY <1>1, SumIsInt
<1> QED
  BY <1>1, <1>2

LEMMA SumFunctionAtMost ==
  ASSUME NEW S, IsFiniteSet(S), NEW f \in [S -> Int], NEW g \in [S -> Int], NEW k \in [S -> Int],
         \A x \in S : f[x] <= g[x] + k[x]
  PROVE  SumFunction(f) <= SumFunction(g) + SumFunction(k)
<1>0. TermsAtMost(f, g, k, S)
  BY DEF TermsAtMost
<1>1. PICK F : IsSum(F, f, S) /\ SumFunction(f) = F[S]
  BY SumIsSum
<1>2. PICK G : IsSum(G, g, S) /\ SumFunction(g) = G[S]
  BY SumIsSum
<1>3. PICK K : IsSum(K, k, S) /\ SumFunction(k) = K[S]
  BY SumIsSum
<1>4. F[S] <= G[S] + K[S]
  BY <1>0, <1>1, <1>2, <1>3, SumAtMost
<1> QED
  BY <1>1, <1>2, <1>3, <1>4

LEMMA SumFunctionChanges ==
  ASSUME NEW S, IsFiniteSet(S), NEW f \in [S -> Int], NEW g \in [S -> Int],
         NEW t \in S, \A x \in S \ {t} : f[x] = g[x]
  PROVE  SumFunction(f) - f[t] = SumFunction(g) - g[t]
<1>1. PICK F : IsSum(F, f, S) /\ SumFunction(f) = F[S]
  BY SumIsSum
<1>2. PICK G : IsSum(G, g, S) /\ SumFunction(g) = G[S]
  BY SumIsSum
<1>3. F[S] - f[t] = G[S] - g[t]
  BY <1>1, <1>2, SumChanges
<1> QED
  BY <1>1, <1>2, <1>3

\* It has no negative term: it is not negative.  A sum of zeros is zero.
LEMMA SumOfNats ==
  ASSUME NEW S, IsFiniteSet(S), NEW g \in [S -> Nat]
  PROVE  SumFunction(g) \in Nat
<1>1. g \in [S -> Int] /\ \A x \in S : g[x] <= g[x] + g[x]
  OBVIOUS
<1>2. SumFunction(g) <= SumFunction(g) + SumFunction(g) /\ SumFunction(g) \in Int
  BY <1>1, SumFunctionAtMost, SumFunctionIsInt
<1> QED
  BY <1>2

LEMMA SumOfZeros ==
  ASSUME NEW S, IsFiniteSet(S), NEW g \in [S -> Int], \A x \in S : g[x] = 0
  PROVE  SumFunction(g) = 0
<1>0. PICK pick : \A s \in SUBSET S : s # {} => pick[s] \in s /\ pick[s] = AnyOf(s)
  BY PickAny
<1>1. \A s \in SUBSET S : s # {} => pick[s] \in s
  BY <1>0
<1>2. PICK h : IsSum(h, g, S) /\ SumFunction(g) = h[S]
  BY SumIsSum
<1> DEFINE Good == {s \in SUBSET S : h[s] = 0}
<1>3. {} \in Good
  BY <1>2 DEF IsSum
<1>4. ASSUME NEW s \in SUBSET S, s # {}, s \ {pick[s]} \in Good PROVE s \in Good
  <2>1. h[s] = g[pick[s]] + h[s \ {pick[s]}] /\ pick[s] \in S
    BY <1>0, <1>2, <1>4 DEF IsSum
  <2> QED
    BY <1>4, <2>1
<1> HIDE DEF Good
<1>5. SUBSET S \subseteq Good
  BY <1>1, <1>3, <1>4, SubsetInd
<1> QED
  BY <1>2, <1>5 DEF Good

-----------------------------------------------------------------------------
\* The mode router and its hysteresis.

RouterSpec == RouterInit /\ [][CompareBar]_routerVars

\* Whatever the question, the answer is one of the three modes.
LEMMA RouteIsAMode == ASSUME NEW q PROVE RouteTradingMode(q) \in Modes
<1>1. ByAssessment(q) \subseteq Modes /\ ByDirection(q) \subseteq Modes /\ ByRange(q) \subseteq Modes
  BY DEF ByAssessment, ByDirection, ByRange, Modes
<1>2. \A S \in SUBSET Modes : (IF S = {} THEN "v1_passthrough" ELSE CHOOSE mode \in S : TRUE) \in Modes
  BY DEF Modes
<1> QED
  BY <1>1, <1>2 DEF RouteTradingMode

\* Without an assessment the direction decides, then the range.
LEMMA NarrowedRoute ==
  ASSUME NEW q, NEW p, p.assess = {}, \A f \in {"cfg", "dir", "conf", "regime", "session", "bounds", "guards", "price"} : p[f] = q[f],
         RouteTradingMode(q) = "ranging"
  PROVE  \/ RouteTradingMode(p) = "ranging"
         \/ Directed(q, 450) /\ ~Directed(q, 500) /\ "CONSOLIDATION" \in {a.regime : a \in q.assess}
<1>0. /\ p.cfg = q.cfg /\ p.dir = q.dir /\ p.conf = q.conf /\ p.regime = q.regime /\ p.session = q.session
      /\ p.bounds = q.bounds /\ p.guards = q.guards /\ p.price = q.price
  OBVIOUS
<1>1. ByAssessment(p) = {}
  BY DEF ByAssessment, Trusted
<1>2. Directed(p, 450) <=> Directed(q, 450)
  BY <1>0 DEF Directed
<1>3. PriceInRange(p) <=> PriceInRange(q)
  BY <1>0 DEF PriceInRange
<1>4. HasRange(p) <=> HasRange(q)
  BY <1>0 DEF HasRange
<1>5. ByDirection(p) = ByDirection(q)
  BY <1>0, <1>2 DEF ByDirection
<1>6. ByRange(p) = ByRange(q)
  BY <1>0, <1>3, <1>4 DEF ByRange
<1>7. CASE ByAssessment(q) = {}
  BY <1>1, <1>5, <1>6, <1>7 DEF RouteTradingMode
<1>8. CASE ByAssessment(q) # {}
  <2>1. "ranging" \in ByAssessment(q)
    BY <1>8 DEF RouteTradingMode
  <2>2. "CONSOLIDATION" \in Trusted(q.assess) /\ ~Directed(q, 500) /\ HasRange(q) /\ PriceInRange(q)
    BY <2>1 DEF ByAssessment
  <2>3. "CONSOLIDATION" \in {a.regime : a \in q.assess}
    BY <2>2 DEF Trusted
  <2>4. CASE ByDirection(p) = {}
    <3>1. ByRange(p) = {"ranging"}
      BY <1>3, <1>4, <2>2 DEF ByRange
    <3> QED
      BY <1>1, <2>4, <3>1 DEF RouteTradingMode
  <2>5. CASE ByDirection(p) # {}
    BY <1>2, <2>2, <2>3, <2>5 DEF ByDirection
  <2> QED
    BY <2>4, <2>5
<1> QED
  BY <1>7, <1>8

\* Nothing was asked, or one bar was put to both arms.
NoBars == [arm \in Arms |-> [mode \in Modes |-> 0]]
RouterInv ==
  \/ asked = {} /\ routerStats = NoBars
  \/ \E bar \in RouterBars :
       /\ asked = {QuestionAt(bar)}
       /\ routerStats = [arm \in Arms |->
            [mode \in Modes |-> IF mode = RouterForBar(arm, QuestionAt(bar)) THEN 1 ELSE 0]]

LEMMA RouterInvNarrows == RouterInv => RouterNarrows
<1> SUFFICES ASSUME RouterInv, NEW bar \in RouterBars, asked = {QuestionAt(bar)},
                    routerStats = [arm \in Arms |->
                      [mode \in Modes |-> IF mode = RouterForBar(arm, QuestionAt(bar)) THEN 1 ELSE 0]]
             PROVE  RouterNarrows
  BY DEF RouterInv, RouterNarrows
<1> DEFINE q == QuestionAt(bar)
<1>1. q.assess = bar.assess /\ DOMAIN q = {"cfg", "dir", "conf", "regime", "session", "bounds", "guards", "price", "assess"}
  BY DEF QuestionAt
<1>2. RouterForBar("treatment", q) = RouteTradingMode(q)
  BY DEF RouterForBar
<1>3. RouterForBar("baseline", q) = RouteTradingMode([q EXCEPT !.assess = {}])
  BY DEF RouterForBar
<1> HIDE DEF q
<1>4. RouterForBar("treatment", q) = "ranging" =>
         \/ RouterForBar("baseline", q) = "ranging"
         \/ Directed(q, 450) /\ ~Directed(q, 500) /\ "CONSOLIDATION" \in {a.regime : a \in q.assess}
  <2> DEFINE p == [q EXCEPT !.assess = {}]
  <2>1. p.assess = {} /\ \A f \in {"cfg", "dir", "conf", "regime", "session", "bounds", "guards", "price"} : p[f] = q[f]
    BY <1>1
  <2> HIDE DEF p
  <2>2. RouterForBar("baseline", q) = RouteTradingMode(p)
    BY <1>3 DEF p
  <2> QED
    BY <1>2, <2>1, <2>2, NarrowedRoute
<1>5. ASSUME NEW arm \in Arms PROVE Approved(arm) = 1 - routerStats[arm]["ranging"]
  <2>1. RouterForBar(arm, q) \in Modes
    BY RouteIsAMode DEF RouterForBar
  <2>2. \A mode \in Modes : routerStats[arm][mode] = IF mode = RouterForBar(arm, q) THEN 1 ELSE 0
    BY DEF q
  <2> QED
    BY <2>1, <2>2 DEF Approved, Modes
<1> QED
  BY <1>4, <1>5 DEF RouterNarrows, q

\* RouterNarrows: whatever bars backtest_mode_router_ab meets, a bar that route_trading_mode
\* trades as a range with the assessed regime it trades as a range without it too, except
\* for a consolidation whose direction is between the two floors, and every bar of an arm
\* that is not a range is given to the engine.
THEOREM RouterOnlyNarrows == RouterSpec => []RouterNarrows
<1>1. RouterInit => RouterInv
  BY DEF RouterInit, RouterInv, NoBars
<1>2. RouterInv /\ [CompareBar]_routerVars => RouterInv'
  <2>1. CASE UNCHANGED routerVars
    BY <2>1 DEF RouterInv, routerVars
  <2>2. ASSUME RouterInv, CompareBar PROVE RouterInv'
    <3>1. PICK bar \in RouterBars :
            /\ asked = {} /\ asked' = {QuestionAt(bar)}
            /\ routerStats' = [arm \in Arms |->
                 [routerStats[arm] EXCEPT ![RouterForBar(arm, QuestionAt(bar))] = @ + 1]]
      BY <2>2 DEF CompareBar
    <3>2. routerStats = NoBars
      BY <2>2, <3>1 DEF RouterInv
    <3>3. \A arm \in Arms : [routerStats[arm] EXCEPT ![RouterForBar(arm, QuestionAt(bar))] = @ + 1]
             = [mode \in Modes |-> IF mode = RouterForBar(arm, QuestionAt(bar)) THEN 1 ELSE 0]
      <4> TAKE arm \in Arms
      <4> DEFINE m == RouterForBar(arm, QuestionAt(bar))
      <4> HIDE DEF m
      <4>1. [routerStats[arm] EXCEPT ![m] = @ + 1] = [mode \in Modes |-> IF mode = m THEN 1 ELSE 0]
        BY <3>2 DEF NoBars
      <4> QED
        BY <4>1 DEF m
    <3> QED
      BY <3>1, <3>3, ZenonT(60) DEF RouterInv
  <2> QED
    BY <2>1, <2>2
<1> QED
  BY <1>1, <1>2, RouterInvNarrows, PTL DEF RouterSpec

-----------------------------------------------------------------------------
\* The range trader.

RangeSpec == RangeInit /\ [][RangeNext]_rangeVars

ObOfScene == [type : {"bullish", "bearish"}, hi : Int, lo : Int, mitigated : BOOLEAN, age : Nat]
SwingOfScene == [type : {"high", "low"}, price : Int, age : Nat]
BarOfScene == [high : Int, low : Int]

LEMMA TypedScene ==
  ASSUME NEW scene \in Scenes
  PROVE  /\ scene.price \in Int /\ scene.atr \in Nat /\ scene.bars \in Seq(BarOfScene)
         /\ scene.h1.swings \in Seq(SwingOfScene) /\ scene.h1.obs \in Seq(ObOfScene)
  BY SceneAssumption DEF SceneAssumption, ObOfScene, SwingOfScene, BarOfScene

\* A range is a record with borders that are whole and in order, and there is one at most.
IsRange(b) == b.upper \in Int /\ b.lower \in Int /\ b.lower < b.upper /\ b.mid = (b.upper + b.lower) \div 2
AtMostOneRange(bounds) == (\A b \in bounds : IsRange(b)) /\ (\A b, c \in bounds : b = c)

LEMMA ValidatedRange ==
  ASSUME NEW cfg, NEW upper \in Int, NEW lower \in Int, NEW source, NEW conf, NEW bars
  PROVE  AtMostOneRange(ValidateBounds(cfg, upper, lower, source, conf, bars))
  BY DEF ValidateBounds, AtMostOneRange, IsRange

\* The largest and the smallest of a field of finitely many records.
LEMMA Extremes ==
  ASSUME NEW S, IsFiniteSet(S), S # {}, NEW f \in [S -> Int]
  PROVE  Max({f[x] : x \in S}) \in Int /\ Min({f[x] : x \in S}) \in Int
<1> DEFINE T == {f[x] : x \in S}
<1>1. IsFiniteSet(T)
  BY ImageIsFinite
<1>2. T \in SUBSET Int /\ T # {}
  OBVIOUS
<1> HIDE DEF T
<1>3. Max(T) \in Int /\ Min(T) \in Int
  BY <1>1, <1>2, MaxMin
<1> QED
  BY <1>3 DEF T

LEMMA DetectedRange ==
  ASSUME NEW settings, NEW scene \in Scenes
  PROVE  AtMostOneRange(DetectRange(settings, scene))
<1>0. AtMostOneRange({})
  BY DEF AtMostOneRange
<1>1. AtMostOneRange(DetectFromObBoundaries(Config, scene.h1))
  <2> DEFINE R == Range(scene.h1.obs)
             OpenObs(type) == {o \in R : o.type = type /\ ~o.mitigated}
             tops == {o.hi : o \in OpenObs("bearish")}
             bottoms == {o.lo : o \in OpenObs("bullish")}
             both == OpenObs("bearish") \cup OpenObs("bullish")
  <2>1. scene.h1.obs \in Seq(ObOfScene)
    BY TypedScene
  <2>2. R \subseteq ObOfScene /\ IsFiniteSet(R)
    BY <2>1, EntriesOfSeq
  <2>3. \A type : IsFiniteSet(OpenObs(type)) /\ OpenObs(type) \subseteq ObOfScene
    BY <2>2, FS_Subset
  <2>4. CASE OpenObs("bearish") = {} \/ OpenObs("bullish") = {}
    BY <1>0, <2>4, Zenon DEF DetectFromObBoundaries
  <2>5. CASE ~(OpenObs("bearish") = {} \/ OpenObs("bullish") = {})
    <3>1. Max(tops) \in Int
      <4> DEFINE D == OpenObs("bearish")
                 f == [o \in D |-> o.hi]
      <4>1. IsFiniteSet(D) /\ D # {} /\ D \subseteq ObOfScene
        BY <2>3, <2>5
      <4>3. f \in [D -> Int]
        BY <4>1 DEF ObOfScene
      <4>2. tops = {f[o] : o \in D}
        OBVIOUS
      <4> HIDE DEF D, f, tops
      <4> QED
        BY <4>1, <4>2, <4>3, Extremes
    <3>2. Min(bottoms) \in Int
      <4> DEFINE D == OpenObs("bullish")
                 f == [o \in D |-> o.lo]
      <4>1. IsFiniteSet(D) /\ D # {} /\ D \subseteq ObOfScene
        BY <2>3, <2>5
      <4>3. f \in [D -> Int]
        BY <4>1 DEF ObOfScene
      <4>2. bottoms = {f[o] : o \in D}
        OBVIOUS
      <4> HIDE DEF D, f, bottoms
      <4> QED
        BY <4>1, <4>2, <4>3, Extremes
    <3>3. DetectFromObBoundaries(Config, scene.h1) =
            ValidateBounds(Config, Max(tops), Min(bottoms), "ob_boundaries", 800, Max({o.age : o \in both}))
      BY <2>5, Zenon DEF DetectFromObBoundaries
    <3> QED
      BY <3>1, <3>2, <3>3, ValidatedRange
  <2> QED
    BY <2>4, <2>5
<1>2. AtMostOneRange(DetectFromSwingExtremes(Config, scene.h1))
  <2> DEFINE recent == Range(LastOf(scene.h1.swings, 50))
             of(type) == {w.price : w \in {x \in recent : x.type = type}}
  <2>1. LastOf(scene.h1.swings, 50) \in Seq(SwingOfScene)
    BY TypedScene, LastOfIsSeq
  <2>2. recent \subseteq SwingOfScene /\ IsFiniteSet(recent)
    BY <2>1, EntriesOfSeq
  <2>3. ASSUME NEW type, of(type) # {} PROVE Max(of(type)) \in Int /\ Min(of(type)) \in Int
    <3> DEFINE D == {x \in recent : x.type = type}
               f == [w \in D |-> w.price]
    <3>1. IsFiniteSet(D) /\ D # {} /\ f \in [D -> Int]
      BY <2>2, <2>3, FS_Subset DEF SwingOfScene
    <3>2. of(type) = {f[w] : w \in D}
      OBVIOUS
    <3> HIDE DEF D, f, of
    <3> QED
      BY <3>1, <3>2, Extremes
  <2>4. CASE Len(scene.h1.swings) < 2 \/ of("high") = {} \/ of("low") = {}
    BY <1>0, <2>4, Zenon DEF DetectFromSwingExtremes
  <2>5. CASE ~(Len(scene.h1.swings) < 2 \/ of("high") = {} \/ of("low") = {})
    <3>1. DetectFromSwingExtremes(Config, scene.h1) =
            ValidateBounds(Config, Max(of("high")), Min(of("low")), "swing_extremes", 600,
                           Max({w.age : w \in recent}))
      BY <2>5, Zenon DEF DetectFromSwingExtremes
    <3>2. Max(of("high")) \in Int /\ Min(of("low")) \in Int
      BY <2>3, <2>5
    <3> QED
      BY <3>1, <3>2, ValidatedRange
  <2> QED
    BY <2>4, <2>5
<1>3. AtMostOneRange(DetectFromDonchianChannel(Config, scene.bars))
  <2> DEFINE recent == Range(LastOf(scene.bars, Lookback48))
             highs == {x.high : x \in recent}
             lows == {x.low : x \in recent}
             n == Len(scene.bars)
  <2>1. CASE n < Lookback48
    BY <1>0, <2>1, Zenon DEF DetectFromDonchianChannel
  <2>2. CASE ~(n < Lookback48)
    <3>1. scene.bars \in Seq(BarOfScene) /\ Lookback48 \in Nat \ {0}
      BY TypedScene, RouterAssumption DEF RouterAssumption
    <3>2. LastOf(scene.bars, Lookback48) \in Seq(BarOfScene)
      BY <3>1, LastOfIsSeq
    <3>3. recent \subseteq BarOfScene /\ IsFiniteSet(recent)
      BY <3>2, EntriesOfSeq
    <3>4. recent # {}
      <4> DEFINE s == LastOf(scene.bars, Lookback48)
                 m == Most(1, n - Lookback48 + 1)
      <4>1. n \in Nat
        BY <3>1, LenProperties
      <4>2. m \in Int /\ m >= 1 /\ m <= n /\ n \in Int
        BY <2>2, <3>1, <4>1 DEF Most
      <4>3. \A i \in m .. n : scene.bars[i] \in BarOfScene
        BY <3>1, <4>1, <4>2, ElementOfSeq
      <4>4. s = SubSeq(scene.bars, m, n)
        BY DEF LastOf
      <4> HIDE DEF m, n
      <4>5. Len(SubSeq(scene.bars, m, n)) = n - m + 1
        BY <4>2, <4>3, SubSeqProperties
      <4>6. Len(s) >= 1
        BY <4>2, <4>4, <4>5
      <4>7. DOMAIN s = 1 .. Len(s) /\ Len(s) \in Nat
        BY <3>2, LenProperties
      <4>8. 1 \in DOMAIN s
        BY <4>6, <4>7
      <4>9. s[1] \in Range(s)
        BY <4>8, Zenon DEF Range
      <4> QED
        BY <4>9
    <3>5. Max(highs) \in Int
      <4> DEFINE f == [x \in recent |-> x.high]
      <4>1. f \in [recent -> Int]
        BY <3>3 DEF BarOfScene
      <4>2. highs = {f[x] : x \in recent}
        OBVIOUS
      <4> HIDE DEF recent, f, highs
      <4> QED
        BY <3>3, <3>4, <4>1, <4>2, Extremes
    <3>6. Min(lows) \in Int
      <4> DEFINE f == [x \in recent |-> x.low]
      <4>1. f \in [recent -> Int]
        BY <3>3 DEF BarOfScene
      <4>2. lows = {f[x] : x \in recent}
        OBVIOUS
      <4> HIDE DEF recent, f, lows
      <4> QED
        BY <3>3, <3>4, <4>1, <4>2, Extremes
    <3>7. DetectFromDonchianChannel(Config, scene.bars) =
            ValidateBounds(Config, Max(highs), Min(lows), "donchian_channel", 500, Lookback48)
      BY <2>2, Zenon DEF DetectFromDonchianChannel
    <3> QED
      BY <3>5, <3>6, <3>7, ValidatedRange
  <2> QED
    BY <2>1, <2>2
<1> DEFINE blocks == DetectFromObBoundaries(Config, scene.h1)
           swings == DetectFromSwingExtremes(Config, scene.h1)
           channel == DetectFromDonchianChannel(Config, scene.bars)
           found == CASE blocks # {} -> blocks
                 [] blocks = {} /\ swings # {} -> swings
                 [] OTHER -> channel
<1>4. found \in {blocks, swings, channel}
  <2> HIDE DEF blocks, swings, channel
  <2>1. CASE blocks # {}
    <3>1. found = blocks
      BY <2>1
    <3> QED
      BY <3>1
  <2>2. CASE blocks = {} /\ swings # {}
    <3>1. found = swings
      BY <2>2
    <3> QED
      BY <3>1
  <2>3. CASE blocks = {} /\ swings = {}
    <3>1. found = channel
      BY <2>3
    <3> QED
      BY <3>1
  <2> QED
    BY <2>1, <2>2, <2>3
<1>5. DetectRange(settings, scene) = {} \/ DetectRange(settings, scene) = found
  BY Zenon DEF DetectRange
<1> HIDE DEF found, blocks, swings, channel
<1>6. AtMostOneRange(found)
  BY <1>1, <1>2, <1>3, <1>4 DEF blocks, swings, channel
<1> QED
  BY <1>0, <1>5, <1>6

-----------------------------------------------------------------------------
\* A bar is traded as a range only if there is one that passes the guards.
LEMMA RangingNeedsRange ==
  ASSUME NEW q, RouteTradingMode(q) = "ranging"
  PROVE  q.bounds # {} /\ q.guards
<1>1. HasRange(q)
  <2>1. \/ "ranging" \in ByAssessment(q) \/ "ranging" \in ByDirection(q) \/ "ranging" \in ByRange(q)
    <3>1. \A S : (IF S = {} THEN "v1_passthrough" ELSE CHOOSE mode \in S : TRUE) = "ranging" => "ranging" \in S
      OBVIOUS
    <3> QED
      BY <3>1 DEF RouteTradingMode
  <2>2. "ranging" \notin ByDirection(q)
    BY DEF ByDirection
  <2> QED
    BY <2>1, <2>2 DEF ByAssessment, ByRange
<1> QED
  BY <1>1 DEF HasRange

\* What a cycle may decide: nothing that counts, or by a range that passes the guards and
\* that the quota allows.
LEMMA ActionCases ==
  ASSUME NEW leg, NEW scene \in Scenes, NEW tripped, NEW answer,
         answer = DetermineAction(leg, time, scene, tripped)
  PROVE  \/ answer.built = {} /\ answer.action # "RANGE"
         \/ \E b \in DetectRange(LegSettings[leg], scene) :
              /\ CheckBoundsOnlyGuards(b, Session(time).name, scene.bars)
              /\ ~(Asian(time) /\ Day(time) \in quota[leg])
              /\ answer = DetermineRanging(LegSettings[leg], lastSetupTs[leg], time, b, scene)
<1> DEFINE Nothing(a) == a.built = {} /\ a.action # "RANGE"
<1>1. Nothing(Hold)
  BY DEF Hold, Answer
<1>2. \A best : \A act \in {"BUY", "SELL", "override"} : Nothing(Answer(act, best, {}))
  BY DEF Answer
<1>3. \A side : Buy(side) \in {"BUY", "SELL"}
  BY DEF Buy
<1> HIDE DEF Nothing
<1>4. \A conf : Nothing(DetermineTrending(scene, conf))
  BY <1>1, <1>2, <1>3 DEF DetermineTrending
<1>5. Nothing(DetermineV1Passthrough(scene))
  BY <1>1, <1>2, <1>3 DEF DetermineV1Passthrough
<1> DEFINE settings == LegSettings[leg]
      bounds == DetectRange(settings, scene)
      conf == scene.conf - Session(time).penalty
      guards == \E x \in bounds : CheckBoundsOnlyGuards(x, Session(time).name, scene.bars)
      q == [cfg |-> Config, dir |-> scene.dir, conf |-> conf, regime |-> ClassifyRegime(Config, scene.daily),
            session |-> Session(time).name, bounds |-> bounds, price |-> scene.price,
            guards |-> guards,
            assess |-> IF settings.router THEN scene.assess ELSE {}]
      mode == RouteTradingMode(q)
      b == CHOOSE x \in bounds : TRUE
<1>6. answer =
        CASE mode = "trending" -> DetermineTrending(scene, conf)
          [] mode = "v1_passthrough" -> DetermineV1Passthrough(scene)
          [] mode = "ranging" ->
               IF Asian(time) /\ (tripped \/ Day(time) \in quota[leg]) THEN Hold
               ELSE DetermineRanging(settings, lastSetupTs[leg], time, b, scene)
  BY Zenon DEF DetermineAction
<1>7. mode \in Modes
  BY RouteIsAMode
<1>8. q.bounds = bounds /\ (q.guards <=> guards)
  OBVIOUS
<1>9. AtMostOneRange(bounds)
  BY DetectedRange
<1> HIDE DEF mode, settings, conf, q, guards
<1>10. CASE mode = "trending"
  BY <1>4, <1>6, <1>10 DEF Nothing
<1>11. CASE mode = "v1_passthrough"
  BY <1>5, <1>6, <1>11 DEF Nothing
<1>12. CASE mode = "ranging"
  <2>1. answer = IF Asian(time) /\ (tripped \/ Day(time) \in quota[leg]) THEN Hold
                 ELSE DetermineRanging(settings, lastSetupTs[leg], time, b, scene)
    BY <1>6, <1>12
  <2>2. CASE Asian(time) /\ (tripped \/ Day(time) \in quota[leg])
    BY <1>1, <2>1, <2>2 DEF Nothing
  <2>3. CASE ~(Asian(time) /\ (tripped \/ Day(time) \in quota[leg]))
    <3>1. bounds # {} /\ guards
      BY <1>8, <1>12, RangingNeedsRange DEF mode
    <3>2. b \in bounds /\ CheckBoundsOnlyGuards(b, Session(time).name, scene.bars)
      BY <1>9, <3>1 DEF AtMostOneRange, guards
    <3> QED
      BY <2>1, <2>3, <3>2 DEF settings
  <2> QED
    BY <2>2, <2>3
<1> QED
  BY <1>7, <1>10, <1>11, <1>12 DEF Modes

\* A setup that is built has a direction whose cooldown has passed.
LEMMA BuiltIsCooled ==
  ASSUME NEW settings, NEW last, NEW now, NEW b, NEW scene,
         NEW s \in GenerateRangeSetups(settings, last, now, b, scene)
  PROVE  s.dir \in Sides /\ Cooled(last[s.dir], now)
<1>1. PICK side \in Sides : s \in BuildSetup(settings, last[side], now, b, side, scene)
  BY DEF GenerateRangeSetups
<1>2. s \in Priced(b, side, scene.price, scene.atr) /\ Cooled(last[side], now)
  BY <1>1 DEF BuildSetup
<1>3. s.dir = side
  BY <1>2 DEF Priced
<1> QED
  BY <1>2, <1>3

\* What a cycle may decide, as far as its limits go.
Allowed(leg, answer) ==
  /\ \A s \in answer.built : s.dir \in Sides /\ Cooled(lastSetupTs[leg][s.dir], time)
  /\ answer.action = "RANGE" /\ Asian(time) => Day(time) \notin quota[leg]

LEMMA ActionIsAllowed ==
  ASSUME NEW leg, NEW scene \in Scenes, NEW tripped
  PROVE  Allowed(leg, DetermineAction(leg, time, scene, tripped))
<1> DEFINE answer == DetermineAction(leg, time, scene, tripped)
<1>1. CASE answer.built = {} /\ answer.action # "RANGE"
  BY <1>1 DEF Allowed
<1>2. ASSUME NEW b, ~(Asian(time) /\ Day(time) \in quota[leg]),
             answer = DetermineRanging(LegSettings[leg], lastSetupTs[leg], time, b, scene)
      PROVE  Allowed(leg, answer)
  <2> DEFINE made == GenerateRangeSetups(LegSettings[leg], lastSetupTs[leg], time, b, scene)
  <2>1. \A s \in made : s.dir \in Sides /\ Cooled(lastSetupTs[leg][s.dir], time)
    BY BuiltIsCooled
  <2> HIDE DEF answer
  <2>2. answer.built = {} \/ answer.built = made
    BY <1>2 DEF DetermineRanging, Answer, Hold
  <2> HIDE DEF made
  <2> QED
    BY <1>2, <2>1, <2>2 DEF Allowed
<1> HIDE DEF answer
<1>3. Allowed(leg, answer)
  <2>1. answer = DetermineAction(leg, time, scene, tripped)
    BY DEF answer
  <2> QED
    BY <1>1, <1>2, <2>1, ActionCases
<1> QED
  BY <1>3 DEF answer

-----------------------------------------------------------------------------
\* The last two of a sequence of at most two and one more.
Pairs == {s \in Seq(Nat) : Len(s) <= 2}

LEMMA LastOfPair ==
  ASSUME NEW s \in Pairs
  PROVE  LastOf(s \o <<>>, 2) = s
<1>1. s \in Seq(Nat) /\ Len(s) \in Nat /\ Len(s) <= 2
  BY LenProperties DEF Pairs
<1>2. Most(1, Len(s) - 2 + 1) = 1
  <2> DEFINE n == Len(s)
  <2>1. n \in Nat /\ n <= 2
    BY <1>1
  <2> HIDE DEF n
  <2>2. Most(1, n - 2 + 1) = 1
    BY <2>1 DEF Most
  <2> QED
    BY <2>2 DEF n
<1>3. s \o <<>> = s
  BY <1>1, ConcatEmptySeq
<1> QED
  BY <1>1, <1>2, <1>3, SubSeqFull DEF LastOf

LEMMA LastTwo ==
  ASSUME NEW s \in Pairs, NEW t \in Nat,
         NEW v, v = LastOf(s \o <<t>>, 2)
  PROVE  /\ v \in Pairs /\ Len(v) >= 1 /\ v[Len(v)] = t
         /\ Len(v) = 2 => Len(s) >= 1 /\ v[1] = s[Len(s)] /\ v[2] = t
<1> DEFINE u == Append(s, t)
           n == Len(s)
<1>1. s \in Seq(Nat) /\ n \in Nat /\ n <= 2
  BY LenProperties DEF Pairs
<1>2. u \in Seq(Nat) /\ Len(u) = n + 1 /\ u[n + 1] = t /\ (\A i \in 1 .. n : u[i] = s[i])
  BY <1>1, AppendProperties
<1>3. s \o <<t>> = u
  BY <1>1, AppendIsConcat
<1>4. v = LastOf(u, 2)
  BY <1>3
<1> DEFINE m == IF n = 0 THEN 1 ELSE n
<1> HIDE DEF u, n
<1>5. v = SubSeq(u, m, n + 1)
  <2>1. Most(1, Len(u) - 2 + 1) = m
    BY <1>1, <1>2 DEF Most
  <2> HIDE DEF m
  <2> QED
    BY <1>2, <1>4, <2>1 DEF LastOf
<1>6. m \in Int /\ m >= 1 /\ m <= n + 1 /\ n + 1 - m + 1 <= 2 /\ (n + 1 - m + 1 = 2 => n >= 1 /\ m = n)
  BY <1>1
<1>7. \A i \in m .. n + 1 : u[i] \in Nat
  BY <1>1, <1>2, <1>6, ElementOfSeq
<1> DEFINE k == n + 1 - m + 1
<1>8. v \in Seq(Nat) /\ Len(v) = k /\ (\A i \in 1 .. k : v[i] = u[m + i - 1])
  <2> HIDE DEF m
  <2> DEFINE e == n + 1
  <2>1. m \in Int /\ e \in Int /\ m <= e /\ (\A i \in m .. e : u[i] \in Nat)
    BY <1>1, <1>6, <1>7
  <2> HIDE DEF e
  <2>2. /\ SubSeq(u, m, e) \in Seq(Nat)
        /\ Len(SubSeq(u, m, e)) = IF m <= e THEN e - m + 1 ELSE 0
        /\ \A i \in 1 .. e - m + 1 : SubSeq(u, m, e)[i] = u[m + i - 1]
    BY <2>1, SubSeqProperties
  <2>3. v = SubSeq(u, m, e)
    BY <1>5 DEF e
  <2>4. e - m + 1 = k
    BY <1>1, <1>6 DEF e
  <2> QED
    BY <2>1, <2>2, <2>3, <2>4
<1> HIDE DEF m
<1>9. v[k] = t
  <2>1. k \in 1 .. k /\ m + k - 1 = n + 1
    BY <1>1, <1>6
  <2> QED
    BY <1>2, <1>8, <2>1
<1>10. k = 2 => n >= 1 /\ v[1] = s[n]
  <2>1. k = 2 => 1 \in 1 .. k /\ m + 1 - 1 = n /\ n >= 1 /\ n \in 1 .. n
    BY <1>1, <1>6
  <2> QED
    BY <1>2, <1>8, <2>1
<1>11. k \in 1 .. 2
  BY <1>1, <1>6
<1> HIDE DEF k
<1> QED
  BY <1>1, <1>8, <1>9, <1>10, <1>11 DEF Pairs, n

-----------------------------------------------------------------------------
Days == {Day(t) : t \in Nat}
History ==
  [setups : [Sides -> Pairs], ranges : Pairs, lostSetups : SUBSET Nat, lostRange : SUBSET Nat,
   wrote : BOOLEAN, recorded : BOOLEAN]

\* The variables keep their types.
RangeTypeOK ==
  /\ time \in Nat
  /\ lastSetupTs \in [Legs -> [Sides -> SUBSET Nat]] /\ cooldownFile \in [Sides -> SUBSET Nat]
  /\ quota \in [Legs -> SUBSET Days] /\ quotaFile \in [Legs -> SUBSET Days]
  /\ history \in [Legs -> History]

\* A limit of a leg: what it remembers is the last of the times observed, unless a restart
\* since has lost it; and of two times observed in a row, the second was allowed by the
\* first, unless a restart between them had lost it.
Kept(times, remembered, lost, Remembers(_, _), Apart(_, _)) ==
  /\ Len(times) >= 1 =>
       /\ times[Len(times)] <= time
       /\ \/ Remembers(remembered, times[Len(times)])
          \/ \E t \in lost : times[Len(times)] <= t /\ t <= time
  /\ Len(times) = 2 =>
       Apart(times[1], times[2]) \/ \E t \in lost : times[1] <= t /\ t <= times[2]

IsTime(remembered, t) == remembered = {t}
IsDay(remembered, t) == remembered = {Day(t)}
Cooldowns(t, u) == u - t >= Cooldown
TwoDays(t, u) == Day(t) # Day(u)

SetupsKept(leg) ==
  \A side \in Sides :
    Kept(history[leg].setups[side], lastSetupTs[leg][side], history[leg].lostSetups, IsTime, Cooldowns)
RangesKept(leg) == Kept(history[leg].ranges, quota[leg], history[leg].lostRange, IsDay, TwoDays)

\* A file that has been written, and by no other leg since, says what the leg remembers.
FilesAgree(leg) ==
  /\ history[leg].wrote => cooldownFile = lastSetupTs[leg]
  /\ history[leg].recorded => quotaFile[leg] = quota[leg]

RangeInv == RangeTypeOK /\ \A leg \in Legs : SetupsKept(leg) /\ RangesKept(leg) /\ FilesAgree(leg)

LEMMA RangeInvLimits == RangeInv => LimitsSurviveRestarts
  BY DEF RangeInv, SetupsKept, RangesKept, Kept, Cooldowns, TwoDays, LimitsSurviveRestarts

LEMMA RangeInitOK == RangeInit => RangeInv
<1> SUFFICES ASSUME RangeInit PROVE RangeInv
  OBVIOUS
<1>1. <<>> \in Pairs /\ Len(<<>>) = 0
  BY EmptySeq DEF Pairs
<1>2. Fresh \in History
  BY <1>1 DEF Fresh, History
<1>3. RangeTypeOK
  BY <1>2 DEF RangeInit, RangeTypeOK
<1>4. ASSUME NEW leg \in Legs PROVE SetupsKept(leg) /\ RangesKept(leg) /\ FilesAgree(leg)
  <2>1. history[leg].ranges = <<>> /\ \A side \in Sides : history[leg].setups[side] = <<>>
    BY DEF RangeInit, Fresh
  <2>2. cooldownFile = lastSetupTs[leg] /\ quotaFile[leg] = quota[leg]
    BY DEF RangeInit
  <2> QED
    BY <1>1, <2>1, <2>2 DEF SetupsKept, RangesKept, FilesAgree, Kept
<1> QED
  BY <1>3, <1>4 DEF RangeInv

\* One cycle of a leg.
LEMMA CycleKeepsLimits ==
  ASSUME RangeInv, NEW leg \in Legs, NEW answer, NEW blocked \in BOOLEAN, NEW saved \in BOOLEAN,
         NEW content \in {{Day(time)}, quotaFile[leg], {}},
         Allowed(leg, answer), CycleWhole(leg, answer, blocked, saved, content)
  PROVE  RangeInv'
<1> DEFINE used == answer.action = "RANGE" /\ ~blocked /\ Asian(time)
           stamped == Stamp(lastSetupTs[leg], answer.built, time)
           writes == answer.built # {} /\ saved
           dirs == {s.dir : s \in answer.built}
           noted(side) == IF side \in dirs THEN <<time>> ELSE <<>>
           h == history[leg]
           setups == [side \in Sides |-> LastOf(h.setups[side] \o noted(side), 2)]
           ranges == IF used THEN LastOf(Append(h.ranges, time), 2) ELSE h.ranges
           wrote == IF answer.built # {} THEN saved ELSE h.wrote
           recorded == IF used THEN content = {Day(time)} ELSE h.recorded
<1>1. /\ lastSetupTs' = [lastSetupTs EXCEPT ![leg] = stamped]
      /\ cooldownFile' = IF writes THEN stamped ELSE cooldownFile
      /\ quota' = [quota EXCEPT ![leg] = IF used THEN {Day(time)} ELSE @]
      /\ quotaFile' = [quotaFile EXCEPT ![leg] = IF used THEN content ELSE @]
      /\ time' = time
  BY DEF CycleWhole, RecordOpen
<1>2. history' = [other \in Legs |->
         IF other # leg THEN [history[other] EXCEPT !.wrote = @ /\ ~writes]
         ELSE [history[leg] EXCEPT !.setups = setups, !.ranges = ranges, !.wrote = wrote, !.recorded = recorded]]
  <2>1. [history[leg] EXCEPT
                   !.setups = [side \in Sides |-> LastOf(@[side] \o noted(side), 2)],
                   !.ranges = IF used THEN LastOf(Append(@, time), 2) ELSE @,
                   !.wrote = IF answer.built # {} THEN saved ELSE @,
                   !.recorded = IF used THEN content = {Day(time)} ELSE @]
        = [history[leg] EXCEPT !.setups = setups, !.ranges = ranges, !.wrote = wrote, !.recorded = recorded]
    OBVIOUS
  <2> QED
    BY <2>1, Zenon DEF CycleWhole
<1>3. h \in History /\ h.setups \in [Sides -> Pairs] /\ h.ranges \in Pairs /\ time \in Nat
  BY DEF RangeInv, RangeTypeOK, History
<1>4. dirs \subseteq Sides /\ \A side \in dirs : Cooled(lastSetupTs[leg][side], time)
  BY DEF Allowed
<1>5. stamped \in [Sides -> SUBSET Nat] /\ \A side \in Sides : stamped[side] = IF side \in dirs THEN {time} ELSE lastSetupTs[leg][side]
  BY <1>3 DEF Stamp, RangeInv, RangeTypeOK
<1>6. \A side \in Sides : side \notin dirs => setups[side] = h.setups[side]
  BY <1>3, LastOfPair
<1>7. ASSUME NEW side \in Sides, side \in dirs
      PROVE  LET s == h.setups[side]
                 v == setups[side]
             IN  /\ v \in Pairs /\ Len(v) >= 1 /\ v[Len(v)] = time
                 /\ Len(v) = 2 => Len(s) >= 1 /\ v[1] = s[Len(s)] /\ v[2] = time
  <2> DEFINE s == h.setups[side]
             v == setups[side]
  <2>1. v = LastOf(s \o <<time>>, 2) /\ s \in Pairs
    BY <1>3, <1>7
  <2> HIDE DEF s, v
  <2>2. /\ v \in Pairs /\ Len(v) >= 1 /\ v[Len(v)] = time
        /\ Len(v) = 2 => Len(s) >= 1 /\ v[1] = s[Len(s)] /\ v[2] = time
    BY <1>3, <2>1, LastTwo, SMTT(30)
  <2> QED
    BY <2>2 DEF s, v
<1>8. ASSUME used
      PROVE  LET s == h.ranges
                 v == ranges
             IN  /\ v \in Pairs /\ Len(v) >= 1 /\ v[Len(v)] = time
                 /\ Len(v) = 2 => Len(s) >= 1 /\ v[1] = s[Len(s)] /\ v[2] = time
  <2> DEFINE s == h.ranges
             v == ranges
  <2>0. Append(s, time) = s \o <<time>>
    BY <1>3, AppendIsConcat DEF Pairs
  <2>1. v = LastOf(s \o <<time>>, 2) /\ s \in Pairs
    BY <1>3, <1>8, <2>0
  <2> HIDE DEF s, v
  <2>2. /\ v \in Pairs /\ Len(v) >= 1 /\ v[Len(v)] = time
        /\ Len(v) = 2 => Len(s) >= 1 /\ v[1] = s[Len(s)] /\ v[2] = time
    BY <1>3, <2>1, LastTwo
  <2> QED
    BY <2>2 DEF s, v
<1>9. setups \in [Sides -> Pairs] /\ ranges \in Pairs
  <2>1. \A side \in Sides : setups[side] \in Pairs
    BY <1>3, <1>6, <1>7
  <2>2. ranges \in Pairs
    BY <1>3, <1>8
  <2> QED
    BY <2>1, <2>2
<1>10. wrote \in BOOLEAN /\ recorded \in BOOLEAN /\ writes \in BOOLEAN
  BY <1>3 DEF History
<1>11. used => Asian(time) /\ answer.action = "RANGE"
  OBVIOUS
<1>12. answer.built = {} => saved /\ dirs = {}
  BY DEF CycleWhole
<1>13. /\ history'[leg].setups = setups /\ history'[leg].ranges = ranges
       /\ (history'[leg].wrote <=> wrote) /\ (history'[leg].recorded <=> recorded)
       /\ history'[leg].lostSetups = h.lostSetups /\ history'[leg].lostRange = h.lostRange
       /\ history'[leg] \in History
  <2> HIDE DEF setups, ranges, wrote, recorded
  <2>1. history'[leg] = [h EXCEPT !.setups = setups, !.ranges = ranges, !.wrote = wrote, !.recorded = recorded]
    BY <1>2
  <2> HIDE DEF h
  <2> QED
    BY <1>3, <1>9, <1>10, <2>1 DEF History
<1>14. ASSUME NEW other \in Legs, other # leg
       PROVE  /\ history'[other].setups = history[other].setups /\ history'[other].ranges = history[other].ranges
              /\ history'[other].lostSetups = history[other].lostSetups
              /\ history'[other].lostRange = history[other].lostRange
              /\ (history'[other].wrote <=> history[other].wrote /\ ~writes)
              /\ (history'[other].recorded <=> history[other].recorded)
              /\ history'[other] \in History
  <2> DEFINE g == history[other]
  <2> HIDE DEF writes
  <2>1. history'[other] = [g EXCEPT !.wrote = g.wrote /\ ~writes] /\ g \in History
    BY <1>2, <1>14 DEF RangeInv, RangeTypeOK
  <2>2. (g.wrote /\ ~writes) \in BOOLEAN
    OBVIOUS
  <2> HIDE DEF g
  <2>3. /\ history'[other].setups = g.setups /\ history'[other].ranges = g.ranges
              /\ history'[other].lostSetups = g.lostSetups
              /\ history'[other].lostRange = g.lostRange
              /\ (history'[other].wrote <=> g.wrote /\ ~writes)
              /\ (history'[other].recorded <=> g.recorded)
              /\ history'[other] \in History
    BY <2>1, <2>2 DEF History
  <2> QED
    BY <2>3 DEF g
<1> HIDE DEF used, stamped, writes, dirs, setups, ranges, wrote, recorded, h
<1>15. RangeTypeOK'
  <2>1. history' \in [Legs -> History]
    BY <1>2, <1>13, <1>14
  <2>2. content \in SUBSET Days /\ {Day(time)} \in SUBSET Days
    BY <1>3 DEF Days, RangeInv, RangeTypeOK
  <2>3. quota' \in [Legs -> SUBSET Days] /\ quotaFile' \in [Legs -> SUBSET Days]
    BY <1>1, <2>2 DEF RangeInv, RangeTypeOK
  <2>4. lastSetupTs' \in [Legs -> [Sides -> SUBSET Nat]] /\ cooldownFile' \in [Sides -> SUBSET Nat]
    BY <1>1, <1>5 DEF RangeInv, RangeTypeOK
  <2> QED
    BY <1>1, <1>3, <2>1, <2>3, <2>4 DEF RangeTypeOK
<1>16. SetupsKept(leg)'
  <2> SUFFICES ASSUME NEW side \in Sides
               PROVE Kept(setups[side], stamped[side], h.lostSetups, IsTime, Cooldowns)
    <3>1. lastSetupTs'[leg] = stamped
      BY <1>1 DEF RangeInv, RangeTypeOK
    <3> QED
      BY <1>1, <1>13, <3>1 DEF SetupsKept, Kept, IsTime, Cooldowns
  <2>1. Kept(h.setups[side], lastSetupTs[leg][side], h.lostSetups, IsTime, Cooldowns)
    BY DEF RangeInv, SetupsKept, h
  <2>2. CASE side \notin dirs
    BY <1>5, <1>6, <2>1, <2>2
  <2>3. CASE side \in dirs
    <3>1. stamped[side] = {time} /\ Cooled(lastSetupTs[leg][side], time)
      BY <1>4, <1>5, <2>3
    <3> QED
      BY <1>3, <1>7, <2>1, <2>3, <3>1 DEF Kept, IsTime, Cooldowns, Cooled
  <2> QED
    BY <2>2, <2>3
<1>17. RangesKept(leg)'
  <2>1. Kept(h.ranges, quota[leg], h.lostRange, IsDay, TwoDays)
    BY DEF RangeInv, RangesKept, h
  <2>2. CASE ~used
    <3>1. quota'[leg] = quota[leg] /\ ranges = h.ranges
      BY <1>1, <2>2 DEF RangeInv, RangeTypeOK, ranges
    <3> QED
      BY <1>1, <1>13, <2>1, <3>1 DEF RangesKept, Kept, IsDay, TwoDays
  <2>3. CASE used
    <3>1. quota'[leg] = {Day(time)}
      BY <1>1, <2>3 DEF RangeInv, RangeTypeOK
    <3>2. Day(time) \notin quota[leg]
      BY <1>11, <2>3 DEF Allowed
    <3>3. Kept(ranges, {Day(time)}, h.lostRange, IsDay, TwoDays)
      BY <1>3, <1>8, <2>1, <2>3, <3>2 DEF Kept, IsDay, TwoDays
    <3> QED
      BY <1>1, <1>13, <3>1, <3>3 DEF RangesKept, Kept, IsDay, TwoDays
  <2> QED
    BY <2>2, <2>3
<1>18. FilesAgree(leg)'
  <2>1. lastSetupTs'[leg] = stamped
    BY <1>1 DEF RangeInv, RangeTypeOK
  <2>2. wrote => cooldownFile' = stamped
    <3>1. CASE answer.built = {}
      <4>1. stamped = lastSetupTs[leg]
        BY <1>5, <1>12, <3>1 DEF RangeInv, RangeTypeOK
      <4>2. cooldownFile' = cooldownFile
        BY <1>1, <3>1 DEF writes
      <4> QED
        BY <3>1, <4>1, <4>2 DEF wrote, RangeInv, FilesAgree, h
    <3>2. CASE answer.built # {}
      BY <1>1, <3>2 DEF wrote, writes
    <3> QED
      BY <3>1, <3>2
  <2>3. recorded => quotaFile'[leg] = quota'[leg]
    BY <1>1 DEF recorded, RangeInv, RangeTypeOK, FilesAgree, h
  <2> QED
    BY <1>13, <2>1, <2>2, <2>3 DEF FilesAgree
<1>19. ASSUME NEW other \in Legs, other # leg
       PROVE  SetupsKept(other)' /\ RangesKept(other)' /\ FilesAgree(other)'
  <2>1. lastSetupTs'[other] = lastSetupTs[other] /\ quota'[other] = quota[other] /\ quotaFile'[other] = quotaFile[other]
    BY <1>1, <1>19 DEF RangeInv, RangeTypeOK
  <2>2. SetupsKept(other) /\ RangesKept(other) /\ FilesAgree(other)
    BY DEF RangeInv
  <2>3. SetupsKept(other)'
    BY <1>1, <1>14, <1>19, <2>1, <2>2 DEF SetupsKept, Kept, IsTime, Cooldowns
  <2>4. RangesKept(other)'
    BY <1>1, <1>14, <1>19, <2>1, <2>2 DEF RangesKept, Kept, IsDay, TwoDays
  <2>5. FilesAgree(other)'
    BY <1>1, <1>14, <1>19, <2>1, <2>2 DEF FilesAgree
  <2> QED
    BY <2>3, <2>4, <2>5
<1> QED
  BY <1>15, <1>16, <1>17, <1>18, <1>19 DEF RangeInv

\* A restart loses what the files do not say.
LEMMA RestartKeepsLimits ==
  ASSUME RangeInv, NEW leg \in Legs, RestartLeg(leg)
  PROVE  RangeInv'
<1> DEFINE h == history[leg]
           lostSetups == IF h.wrote THEN h.lostSetups ELSE h.lostSetups \cup {time}
           lostRange == IF h.recorded THEN h.lostRange ELSE h.lostRange \cup {time}
<1>1. /\ lastSetupTs' = [lastSetupTs EXCEPT ![leg] = cooldownFile]
      /\ quota' = [quota EXCEPT ![leg] = quotaFile[leg]]
      /\ UNCHANGED <<time, cooldownFile, quotaFile>>
  BY DEF RestartLeg
<1>2. history' = [history EXCEPT
         ![leg] = [h EXCEPT !.lostSetups = lostSetups, !.lostRange = lostRange, !.wrote = TRUE, !.recorded = TRUE]]
  <2>1. h \in History
    BY DEF RangeInv, RangeTypeOK
  <2> QED
    BY <2>1 DEF RestartLeg, RangeInv, RangeTypeOK, History
<1>3. h \in History /\ history \in [Legs -> History] /\ time \in Nat
  BY DEF RangeInv, RangeTypeOK
<1>4. lostSetups \in SUBSET Nat /\ lostRange \in SUBSET Nat
  BY <1>3 DEF History
<1>5. /\ history'[leg].setups = h.setups /\ history'[leg].ranges = h.ranges
      /\ history'[leg].lostSetups = lostSetups /\ history'[leg].lostRange = lostRange
      /\ history'[leg] \in History
  <2> HIDE DEF lostSetups, lostRange
  <2>1. history'[leg] = [h EXCEPT !.lostSetups = lostSetups, !.lostRange = lostRange, !.wrote = TRUE, !.recorded = TRUE]
    BY <1>2, <1>3
  <2> HIDE DEF h
  <2> QED
    BY <1>3, <1>4, <2>1 DEF History
<1>6. \A other \in Legs : other # leg => history'[other] = history[other]
  BY <1>2, <1>3
<1>7. RangeTypeOK'
  <2>1. history' \in [Legs -> History]
    BY <1>2, <1>3, <1>5, <1>6
  <2> QED
    BY <1>1, <2>1 DEF RangeInv, RangeTypeOK
<1>8. lastSetupTs'[leg] = cooldownFile /\ quota'[leg] = quotaFile[leg]
  BY <1>1 DEF RangeInv, RangeTypeOK
<1>9. SetupsKept(leg)'
  <2> SUFFICES ASSUME NEW side \in Sides
               PROVE Kept(h.setups[side], cooldownFile[side], lostSetups, IsTime, Cooldowns)
    BY <1>1, <1>5, <1>8 DEF SetupsKept, Kept, IsTime, Cooldowns
  <2>1. Kept(h.setups[side], lastSetupTs[leg][side], h.lostSetups, IsTime, Cooldowns)
    BY DEF RangeInv, SetupsKept
  <2>2. h.wrote => cooldownFile = lastSetupTs[leg]
    BY DEF RangeInv, FilesAgree
  <2>3. CASE h.wrote
    BY <2>1, <2>2, <2>3
  <2>4. CASE ~h.wrote
    BY <1>3, <2>1, <2>4 DEF Kept
  <2> QED
    BY <2>3, <2>4
<1>10. RangesKept(leg)'
  <2>0. SUFFICES Kept(h.ranges, quotaFile[leg], lostRange, IsDay, TwoDays)
    BY <1>1, <1>5, <1>8 DEF RangesKept, Kept, IsDay, TwoDays
  <2>1. Kept(h.ranges, quota[leg], h.lostRange, IsDay, TwoDays)
    BY DEF RangeInv, RangesKept
  <2>2. h.recorded => quotaFile[leg] = quota[leg]
    BY DEF RangeInv, FilesAgree
  <2>3. CASE h.recorded
    BY <2>1, <2>2, <2>3
  <2>4. CASE ~h.recorded
    BY <1>3, <2>1, <2>4 DEF Kept
  <2> QED
    BY <2>3, <2>4
<1>11. FilesAgree(leg)'
  BY <1>1, <1>8 DEF FilesAgree
<1>12. ASSUME NEW other \in Legs, other # leg
       PROVE  SetupsKept(other)' /\ RangesKept(other)' /\ FilesAgree(other)'
  <2>1. lastSetupTs'[other] = lastSetupTs[other] /\ quota'[other] = quota[other]
    BY <1>1, <1>12 DEF RangeInv, RangeTypeOK
  <2>2. SetupsKept(other) /\ RangesKept(other) /\ FilesAgree(other)
    BY DEF RangeInv
  <2>3. SetupsKept(other)'
    BY <1>1, <1>6, <1>12, <2>1, <2>2 DEF SetupsKept, Kept, IsTime, Cooldowns
  <2>4. RangesKept(other)'
    BY <1>1, <1>6, <1>12, <2>1, <2>2 DEF RangesKept, Kept, IsDay, TwoDays
  <2>5. FilesAgree(other)'
    BY <1>1, <1>6, <1>12, <2>1, <2>2 DEF FilesAgree
  <2> QED
    BY <2>3, <2>4, <2>5
<1> QED
  BY <1>7, <1>9, <1>10, <1>11, <1>12 DEF RangeInv

\* Time passes, and what was lost before is still before.
LEMMA LaterKeepsLimits ==
  ASSUME RangeInv, time' \in Nat, time' >= time,
         UNCHANGED <<lastSetupTs, cooldownFile, quota, quotaFile, history>>
  PROVE  RangeInv'
<1>1. RangeTypeOK'
  BY DEF RangeInv, RangeTypeOK
<1>2. ASSUME NEW leg \in Legs PROVE SetupsKept(leg)' /\ RangesKept(leg)' /\ FilesAgree(leg)'
  <2>1. history[leg] \in History /\ time \in Nat
    BY DEF RangeInv, RangeTypeOK
  <2>2. SetupsKept(leg)'
    <3> SUFFICES ASSUME NEW side \in Sides
                 PROVE Kept(history[leg].setups[side], lastSetupTs[leg][side], history[leg].lostSetups, IsTime, Cooldowns)'
      BY DEF SetupsKept, Kept, IsTime, Cooldowns
    <3> DEFINE s == history[leg].setups[side]
               last == s[Len(s)]
    <3>1. Kept(s, lastSetupTs[leg][side], history[leg].lostSetups, IsTime, Cooldowns)
      BY DEF RangeInv, SetupsKept
    <3>2. Len(s) >= 1 => last \in Nat
      BY <2>1, ElementOfSeq, LenProperties DEF History, Pairs
    <3> QED
      BY <2>1, <3>1, <3>2 DEF Kept, IsTime, Cooldowns, History
  <2>3. RangesKept(leg)'
    <3> DEFINE s == history[leg].ranges
               last == s[Len(s)]
    <3>1. Kept(s, quota[leg], history[leg].lostRange, IsDay, TwoDays)
      BY DEF RangeInv, RangesKept
    <3>2. Len(s) >= 1 => last \in Nat
      BY <2>1, ElementOfSeq, LenProperties DEF History, Pairs
    <3> QED
      BY <2>1, <3>1, <3>2 DEF RangesKept, Kept, IsDay, TwoDays, History
  <2>4. FilesAgree(leg)'
    BY DEF RangeInv, FilesAgree
  <2> QED
    BY <2>2, <2>3, <2>4
<1> QED
  BY <1>1, <1>2 DEF RangeInv

LEMMA RangeStep == RangeInv /\ [RangeNext]_rangeVars => RangeInv'
<1> SUFFICES ASSUME RangeInv, [RangeNext]_rangeVars PROVE RangeInv'
  OBVIOUS
<1>1. CASE UNCHANGED rangeVars
  <2>1. time \in Nat /\ time' = time
    BY <1>1 DEF rangeVars, RangeInv, RangeTypeOK
  <2> QED
    BY <1>1, <2>1, LaterKeepsLimits DEF rangeVars
<1>2. CASE NextBar
  <2>1. time \in Nat /\ time' = time + 1
    BY <1>2 DEF NextBar, RangeInv, RangeTypeOK
  <2> QED
    BY <1>2, <2>1, LaterKeepsLimits DEF NextBar
<1>3. ASSUME NEW leg \in Legs, Cycle(leg) PROVE RangeInv'
  <2>1. PICK scene \in Scenes, tripped \in IF Asian(time) THEN BOOLEAN ELSE {FALSE} :
          \E blocked, saved \in BOOLEAN, content \in {{Day(time)}, quotaFile[leg], {}} :
            CycleWhole(leg, DetermineAction(leg, time, scene, tripped), blocked, saved, content)
    BY <1>3 DEF Cycle
  <2> QED
    BY <2>1, ActionIsAllowed, CycleKeepsLimits
<1>4. ASSUME NEW leg \in Legs, RestartLeg(leg) PROVE RangeInv'
  BY <1>4, RestartKeepsLimits
<1> QED
  BY <1>1, <1>2, <1>3, <1>4 DEF RangeNext

\* LimitsSurviveRestarts: two setups the range trader gives a leg in a direction are a
\* cooldown apart, and two Asian ranges of a leg are of two days, unless a restart between
\* the two found the file of the limit not written, or written by the other leg since; for
\* every market, cooldown and number of restarts and of writes that fail.
THEOREM RangeLimitsHold == RangeSpec => []LimitsSurviveRestarts
<1> QED
  BY RangeInitOK, RangeStep, RangeInvLimits, PTL DEF RangeSpec

-----------------------------------------------------------------------------
\* The stop of one setup.
OnLossSide(s) ==
  IF s.dir = "long" THEN s.sl < s.entry /\ s.entry < s.tp /\ s.tp <= s.ext
  ELSE s.ext <= s.tp /\ s.tp < s.entry /\ s.entry < s.sl

LEMMA SetupStop ==
  ASSUME NEW settings, NEW last, NEW b, IsRange(b), b.upper - b.lower >= 4, NEW scene \in Scenes,
         CheckBreakout(scene.price, b, scene.atr) = "none",
         NEW s \in GenerateRangeSetups(settings, last, time, b, scene)
  PROVE  OnLossSide(s)
<1>1. PICK side \in Sides : NearBorder(settings, b, side, scene)
                            /\ s \in BuildSetup(settings, last[side], time, b, side, scene)
  BY DEF GenerateRangeSetups
<1> DEFINE p == scene.price
           a == scene.atr
           u == b.upper
           l == b.lower
           buffer == SlBuffer(a, 75)
           sl == IF side = "long" THEN l - buffer ELSE u + buffer
           inset == (u - l) \div 10
           ext == IF side = "long" THEN u - inset ELSE l + inset
<1>2. p \in Int /\ a \in Nat /\ u \in Int /\ l \in Int /\ u - l >= 4
  BY TypedScene DEF IsRange
<1>3. buffer \in Int /\ buffer >= (75 * a) \div 100
  BY <1>2, MinBufferAssumption DEF SlBuffer, Most, MinBufferAssumption
<1>4. 4 * (p - u) <= a /\ 4 * (l - p) <= a
  BY <1>2 DEF CheckBreakout
<1>5. IF side = "long" THEN 100 * (p - l) <= 30 * (u - l) ELSE 100 * (u - p) <= 30 * (u - l)
  BY <1>1 DEF NearBorder, Band
<1>6. sl # p /\ s.dir = side /\ s.entry = p /\ s.sl = sl /\ s.tp = b.mid /\ s.ext = ext
  <2>1. s \in Priced(b, side, p, a)
    BY <1>1 DEF BuildSetup
  <2> QED
    BY <2>1 DEF Priced
<1>7. b.mid = (u + l) \div 2
  BY DEF IsRange
<1> HIDE DEF p, a, u, l, buffer
<1>8. CASE side = "long"
  <2>1. sl < p
    BY <1>2, <1>3, <1>4, <1>6, <1>8
  <2>2. p < (u + l) \div 2
    BY <1>2, <1>5, <1>8
  <2>3. (u + l) \div 2 <= u - inset
    BY <1>2
  <2> QED
    BY <1>6, <1>7, <1>8, <2>1, <2>2, <2>3 DEF OnLossSide
<1>9. CASE side = "short"
  <2>1. p < sl
    BY <1>2, <1>3, <1>4, <1>6, <1>9
  <2>2. (u + l) \div 2 < p
    BY <1>2, <1>5, <1>9
  <2>3. l + inset <= (u + l) \div 2
    BY <1>2
  <2> QED
    BY <1>6, <1>7, <1>9, <2>1, <2>2, <2>3 DEF OnLossSide
<1> QED
  BY <1>8, <1>9 DEF Sides

\* Every session of either instrument asks for a width that keeps the targets apart.
LEMMA GuardedWidth ==
  ASSUME NEW b, IsRange(b), NEW session, NEW bars, CheckBoundsOnlyGuards(b, session, bars)
  PROVE  b.upper - b.lower >= 4
<1>1. b.upper - b.lower >= Config.guardWidth[Profile(Config, session)]
  BY DEF CheckBoundsOnlyGuards
<1>2. Profile(Config, session) \in {"asian", "other"}
  BY DEF Profile
<1>3. Config.guardWidth["asian"] \in {4, 15} /\ Config.guardWidth["other"] \in {8, 15}
  BY DEF Config, GetInstrumentConfig, Xau, Btc
<1>4. b.upper - b.lower \in Int
  BY DEF IsRange
<1> QED
  BY <1>1, <1>2, <1>3, <1>4

LEMMA StopStep == RangeStopOnLossSide /\ [RangeNext]_rangeVars => RangeStopOnLossSide'
<1> SUFFICES ASSUME RangeStopOnLossSide, [RangeNext]_rangeVars PROVE \A s \in built' : OnLossSide(s)
  BY DEF RangeStopOnLossSide, OnLossSide
<1>1. CASE UNCHANGED rangeVars
  BY <1>1 DEF rangeVars, RangeStopOnLossSide, OnLossSide
<1>2. CASE NextBar
  BY <1>2 DEF NextBar
<1>3. ASSUME NEW leg \in Legs, RestartLeg(leg) PROVE \A s \in built' : OnLossSide(s)
  BY <1>3 DEF RestartLeg
<1>4. ASSUME NEW leg \in Legs, Cycle(leg) PROVE \A s \in built' : OnLossSide(s)
  <2>1. PICK scene \in Scenes, tripped \in IF Asian(time) THEN BOOLEAN ELSE {FALSE} :
          \E answer \in {DetermineAction(leg, time, scene, tripped)} :
            \E blocked, saved \in BOOLEAN, content \in {{Day(time)}, quotaFile[leg], {}} :
              CycleWhole(leg, answer, blocked, saved, content)
    BY <1>4, Zenon DEF Cycle
  <2> DEFINE answer == DetermineAction(leg, time, scene, tripped)
  <2>2. built' = answer.built
    <3>1. PICK blocked \in BOOLEAN, saved \in BOOLEAN, content \in {{Day(time)}, quotaFile[leg], {}} :
            CycleWhole(leg, answer, blocked, saved, content)
      BY <2>1, Zenon
    <3> HIDE DEF answer
    <3> QED
      BY <3>1, Zenon DEF CycleWhole
  <2>5. answer = DetermineAction(leg, time, scene, tripped)
    OBVIOUS
  <2> HIDE DEF answer
  <2>3. CASE answer.built = {}
    BY <2>2, <2>3
  <2>4. ASSUME NEW b \in DetectRange(LegSettings[leg], scene),
               CheckBoundsOnlyGuards(b, Session(time).name, scene.bars),
               answer = DetermineRanging(LegSettings[leg], lastSetupTs[leg], time, b, scene)
        PROVE  \A s \in built' : OnLossSide(s)
    <3> DEFINE made == GenerateRangeSetups(LegSettings[leg], lastSetupTs[leg], time, b, scene)
    <3>1. IsRange(b) /\ b.upper - b.lower >= 4
      BY <2>4, DetectedRange, GuardedWidth DEF AtMostOneRange
    <3>2. CheckBreakout(scene.price, b, scene.atr) = "none" => \A s \in made : OnLossSide(s)
      BY <3>1, SetupStop
    <3> HIDE DEF made
    <3>3. \/ answer.built = {}
          \/ CheckBreakout(scene.price, b, scene.atr) = "none" /\ answer.built = made
      BY <2>4 DEF DetermineRanging, Answer, Hold, made
    <3> QED
      BY <2>2, <3>2, <3>3
  <2> QED
    BY <2>2, <2>3, <2>4, <2>5, ActionCases
<1> QED
  BY <1>1, <1>2, <1>3, <1>4 DEF RangeNext

\* RangeStopOnLossSide: every range setup that generate_range_setups gives, whatever the
\* range and the price, has its stop on the side where the trade loses and its two targets
\* on the other, the nearer one first.
THEOREM RangeStopsLose == RangeSpec => []RangeStopOnLossSide
<1>1. RangeInit => RangeStopOnLossSide
  BY DEF RangeInit, RangeStopOnLossSide
<1> QED
  BY <1>1, StopStep, PTL DEF RangeSpec

-----------------------------------------------------------------------------
\* The order manager.

OrderSpec == OrderInit /\ [][OrderNext]_orderVars

Position == [dir : {"long", "short"}, open : Int, sl : Int, tp : Int]
Positions(p) ==
  /\ DOMAIN p \subseteq Tickets
  /\ p \in [DOMAIN p -> Position]

\* A call has only tickets left that the manager has, and looks up one of them at a time,
\* after the broker took a new stop for it: never while it closes all.
CallShape(c, known) ==
  /\ c \in [tickets : SUBSET known, price : Int, refresh : SUBSET known]
  /\ c.tickets \cap c.refresh = {} /\ (\A t, u \in c.refresh : t = u)
  /\ c.price = 0 => c.refresh = {}

\* The variables keep their types.
OrderTypeOK ==
  /\ price \in Int /\ issued \in Nat
  /\ Positions(broker) /\ Positions(local)
  /\ CallShape(call, DOMAIN local)
  /\ booked \subseteq Tickets /\ dropped \subseteq Tickets /\ unanswered \subseteq Tickets

\* The manager's copy of a position agrees with the broker's on the direction, and on
\* the stop unless the answer to a change was lost, or the change is to be looked up.
CopyOK ==
  \A t \in DOMAIN local \cap DOMAIN broker :
    /\ local[t].dir = broker[t].dir
    /\ t \in unanswered \cup call.refresh \/ local[t].sl = broker[t].sl

OrderInv == OrderTypeOK /\ EveryCloseIsKnown /\ CopyOK

-----------------------------------------------------------------------------
\* The two ways a book changes.
LEMMA WithoutOK ==
  ASSUME NEW p, Positions(p), NEW t
  PROVE  /\ Positions(Without(p, t)) /\ DOMAIN Without(p, t) = DOMAIN p \ {t}
         /\ \A u \in DOMAIN p \ {t} : Without(p, t)[u] = p[u]
  BY DEF Positions, Without, Restrict

LEMMA WithOK ==
  ASSUME NEW p, Positions(p), NEW t, NEW pos \in Position
  PROVE  /\ With(p, t, pos) \in [DOMAIN p \cup {t} -> Position] /\ DOMAIN With(p, t, pos) = DOMAIN p \cup {t}
         /\ \A u \in DOMAIN p : u # t => With(p, t, pos)[u] = p[u]
         /\ With(p, t, pos)[t] = pos
  BY DEF Positions, With

LEMMA OrderInitOK == OrderInit => OrderInv
<1> SUFFICES ASSUME OrderInit PROVE OrderInv
  OBVIOUS
<1>1. DOMAIN broker = {} /\ DOMAIN local = {} /\ issued = 0
  BY DEF OrderInit, NoPosition
<1>2. price \in Int
  BY OrderManagerAssumption DEF OrderInit, OrderManagerAssumption
<1>3. Positions(broker) /\ Positions(local)
  BY DEF OrderInit, NoPosition, Positions
<1>4. OrderTypeOK
  BY <1>1, <1>2, <1>3 DEF OrderInit, OrderTypeOK, Idle, CallShape
<1>5. Tickets = {}
  BY <1>1 DEF Tickets
<1> QED
  BY <1>1, <1>4, <1>5 DEF OrderInv, EveryCloseIsKnown, CopyOK

\* What a call has left stays among the tickets the manager has.
LEMMA AfterOK ==
  ASSUME NEW S, NEW c, CallShape(c, S)
  PROVE  CallShape(After(c), S) /\ After(c).refresh = c.refresh
  BY DEF CallShape, After, Idle

-----------------------------------------------------------------------------
\* A step that touches no book keeps the invariant.
LEMMA BooksRest ==
  ASSUME OrderInv, UNCHANGED <<broker, local, observed>>, price' \in Int,
         CallShape(call', DOMAIN local), call.refresh \subseteq call'.refresh
  PROVE  OrderInv'
<1>1. OrderTypeOK'
  BY DEF OrderInv, OrderTypeOK, Positions, Tickets, observed
<1>2. EveryCloseIsKnown'
  BY DEF OrderInv, EveryCloseIsKnown, Tickets, Untracked, ClosedByBroker, observed
<1>3. CopyOK'
  BY DEF OrderInv, CopyOK, observed
<1> QED
  BY <1>1, <1>2, <1>3 DEF OrderInv

\* A close at the broker, answered, refused or unanswered.
LEMMA CloseOK ==
  ASSUME OrderInv, NEW t \in call.tickets, NEW outcome \in Outcomes, ClosePosition(t, outcome),
         price' = price,
         call' = After([call EXCEPT !.tickets = @ \ {t}]), call.refresh = {}
  PROVE  OrderInv'
<1>1. t \in DOMAIN local /\ t \in Tickets
  BY DEF OrderInv, OrderTypeOK, Positions, CallShape
<1>2. Positions(broker') /\ Positions(local')
      /\ DOMAIN broker' \subseteq DOMAIN broker /\ DOMAIN broker \subseteq DOMAIN broker' \cup {t}
      /\ DOMAIN local' \subseteq DOMAIN local /\ DOMAIN local \subseteq DOMAIN local' \cup {t}
      /\ (\A u \in DOMAIN broker' : broker'[u] = broker[u])
      /\ (\A u \in DOMAIN local' : local'[u] = local[u])
  <2> USE DEF OrderInv, OrderTypeOK
  <2>1. broker' = broker \/ broker' = Without(broker, t)
    BY DEF ClosePosition
  <2>2. local' = local \/ local' = Without(local, t)
    BY DEF ClosePosition, BookClose
  <2>3. Positions(broker') /\ DOMAIN broker' \subseteq DOMAIN broker
        /\ DOMAIN broker \subseteq DOMAIN broker' \cup {t}
        /\ (\A u \in DOMAIN broker' : broker'[u] = broker[u])
    <3>1. CASE broker' = broker
      BY <3>1
    <3>2. CASE broker' = Without(broker, t)
      <4>1. DOMAIN broker' = DOMAIN broker \ {t}
        BY <3>2, WithoutOK
      <4> QED
        BY <3>2, <4>1, WithoutOK
    <3> QED
      BY <2>1, <3>1, <3>2
  <2>4. Positions(local') /\ DOMAIN local' \subseteq DOMAIN local
        /\ DOMAIN local \subseteq DOMAIN local' \cup {t}
        /\ (\A u \in DOMAIN local' : local'[u] = local[u])
    <3>1. CASE local' = local
      BY <3>1
    <3>2. CASE local' = Without(local, t)
      <4>1. DOMAIN local' = DOMAIN local \ {t}
        BY <3>2, WithoutOK
      <4> QED
        BY <3>2, <4>1, WithoutOK
    <3> QED
      BY <2>2, <3>1, <3>2
  <2> QED
    BY <2>3, <2>4
<1>3. UNCHANGED <<issued, dropped, unanswered>>
  BY DEF ClosePosition
<1>4. CallShape(call', DOMAIN local') /\ call'.refresh = {}
  <2>1. CallShape([call EXCEPT !.tickets = @ \ {t}], DOMAIN local')
    BY <1>2 DEF OrderInv, OrderTypeOK, CallShape
  <2>2. [call EXCEPT !.tickets = @ \ {t}].refresh = {}
    BY DEF OrderInv, OrderTypeOK, CallShape
  <2> QED
    BY <2>1, <2>2, AfterOK
<1>5. OrderTypeOK'
  <2>1. Positions(broker)' /\ Positions(local)'
    BY <1>2, <1>3 DEF Positions, Tickets
  <2>2. booked' \subseteq Tickets
    BY <1>1 DEF OrderInv, OrderTypeOK, ClosePosition, BookClose
  <2> QED
    BY <1>3, <1>4, <2>1, <2>2 DEF OrderInv, OrderTypeOK, Tickets
<1>6. EveryCloseIsKnown'
  <2>1. CASE outcome = "done"
    <3>1. DOMAIN broker' = DOMAIN broker \ {t} /\ DOMAIN local' = DOMAIN local \ {t}
          /\ booked' = booked \cup {t}
      BY <2>1, WithoutOK DEF OrderInv, OrderTypeOK, ClosePosition, BookClose, Carried
    <3> QED
      BY <1>3, <3>1 DEF OrderInv, EveryCloseIsKnown, Tickets, Untracked, ClosedByBroker
  <2>2. CASE outcome # "done"
    <3>1. local' = local /\ booked' = booked
      BY <2>2 DEF ClosePosition, BookClose
    <3> QED
      BY <1>1, <1>2, <1>3, <3>1 DEF OrderInv, EveryCloseIsKnown, Tickets, Untracked, ClosedByBroker
  <2> QED
    BY <2>1, <2>2
<1>7. CopyOK'
  BY <1>2, <1>3 DEF OrderInv, CopyOK
<1> QED
  BY <1>5, <1>6, <1>7 DEF OrderInv

-----------------------------------------------------------------------------
\* An order: its position gets the next ticket, which none has had.
LEMMA ExecuteSetupOK == OrderInv /\ ExecuteSetup => OrderInv'
<1> SUFFICES ASSUME OrderInv, ExecuteSetup PROVE OrderInv'
  OBVIOUS
<1> DEFINE ticket == issued + 1
           Filled(o) == [dir |-> o.dir, open |-> price, sl |-> o.sl, tp |-> o.tp]
<1>1. PICK o \in Orders, outcome \in Outcomes, seen \in BOOLEAN :
        /\ IF Carried(outcome)
           THEN /\ broker' = With(broker, ticket, Filled(o)) /\ issued' = ticket
                /\ local' = IF seen THEN With(local, ticket, Filled(o)) ELSE local
                /\ dropped' = IF seen THEN dropped ELSE dropped \cup {ticket}
           ELSE UNCHANGED <<broker, local, issued, dropped>>
        /\ UNCHANGED <<price, call, booked, unanswered>>
  BY DEF ExecuteSetup
<1>2. CASE ~Carried(outcome)
  BY <1>1, <1>2, BooksRest DEF OrderInv, OrderTypeOK, observed
<1>3. CASE Carried(outcome)
  <2>1. Filled(o) \in Position
    BY OrderManagerAssumption DEF OrderManagerAssumption, Position, OrderInv, OrderTypeOK
  <2>2. Positions(broker) /\ Positions(local) /\ issued \in Nat
    BY DEF OrderInv, OrderTypeOK
  <2>3. ticket \notin Tickets /\ Tickets' = Tickets \cup {ticket}
    BY <1>1, <1>3, <2>2 DEF Tickets
  <2>4. /\ DOMAIN broker' = DOMAIN broker \cup {ticket} /\ broker' \in [DOMAIN broker \cup {ticket} -> Position]
        /\ broker'[ticket] = Filled(o) /\ (\A u \in DOMAIN broker : u # ticket => broker'[u] = broker[u])
    <3>1. broker' = With(broker, ticket, Filled(o))
      BY <1>1, <1>3
    <3>2. DOMAIN broker' = DOMAIN broker \cup {ticket} /\ broker' \in [DOMAIN broker \cup {ticket} -> Position]
      BY <2>1, <2>2, <3>1, WithOK
    <3>3. broker'[ticket] = Filled(o) /\ (\A u \in DOMAIN broker : u # ticket => broker'[u] = broker[u])
      BY <3>1 DEF With
    <3> QED
      BY <3>2, <3>3
  <2>5. /\ DOMAIN local' = IF seen THEN DOMAIN local \cup {ticket} ELSE DOMAIN local
        /\ local' \in [DOMAIN local' -> Position]
        /\ (seen => local'[ticket] = Filled(o)) /\ (\A u \in DOMAIN local : u # ticket => local'[u] = local[u])
    <3>1. CASE seen
      <4>1. local' = With(local, ticket, Filled(o))
        BY <1>1, <1>3, <3>1
      <4>2. DOMAIN local' = DOMAIN local \cup {ticket}
        BY <2>1, <2>2, <4>1, WithOK
      <4>3. local' \in [DOMAIN local \cup {ticket} -> Position]
        BY <2>1, <2>2, <4>1, WithOK
      <4>4. local'[ticket] = Filled(o) /\ (\A u \in DOMAIN local : u # ticket => local'[u] = local[u])
        BY <4>1 DEF With
      <4> QED
        BY <3>1, <4>2, <4>3, <4>4
    <3>2. CASE ~seen
      BY <1>1, <1>3, <2>2, <3>2 DEF Positions
    <3> QED
      BY <3>1, <3>2
  <2>6. DOMAIN broker \subseteq Tickets /\ DOMAIN local \subseteq Tickets
    BY <2>2 DEF Positions
  <2>7. Positions(broker)' /\ Positions(local)'
    BY <2>3, <2>4, <2>5, <2>6 DEF Positions
  <2>8. OrderTypeOK'
    <3>1. CallShape(call, DOMAIN local')
      BY <2>5 DEF OrderInv, OrderTypeOK, CallShape
    <3> QED
      BY <1>1, <1>3, <2>2, <2>3, <2>7, <3>1 DEF OrderInv, OrderTypeOK
  <2>9. EveryCloseIsKnown'
    <3>1. ticket \notin booked
      BY <2>3 DEF OrderInv, OrderTypeOK
    <3>2. dropped' = IF seen THEN dropped ELSE dropped \cup {ticket}
      BY <1>1, <1>3
    <3> QED
      BY <1>1, <2>3, <2>4, <2>5, <2>6, <3>1, <3>2
         DEF OrderInv, EveryCloseIsKnown, Untracked, ClosedByBroker
  <2>10. CopyOK'
    BY <1>1, <2>3, <2>4, <2>5, <2>6 DEF OrderInv, CopyOK
  <2> QED
    BY <2>8, <2>9, <2>10 DEF OrderInv
<1> QED
  BY <1>2, <1>3

\* The market, and a call that starts, touch no book.
LEMMA MovePriceOK == OrderInv /\ MovePrice => OrderInv'
<1> SUFFICES ASSUME OrderInv, MovePrice PROVE OrderInv'
  OBVIOUS
<1>1. price' \in Int
  BY OrderManagerAssumption DEF OrderManagerAssumption, MovePrice
<1> QED
  BY <1>1, BooksRest DEF MovePrice, OrderInv, OrderTypeOK

LEMMA StartOK == OrderInv /\ (StartManaging \/ StartClosingAll) => OrderInv'
<1> SUFFICES ASSUME OrderInv, StartManaging \/ StartClosingAll PROVE OrderInv'
  OBVIOUS
<1>1. CallShape(call', DOMAIN local) /\ call.refresh = {} /\ call'.refresh = {} /\ price' \in Int
  BY DEF StartManaging, StartClosingAll, Idle, CallShape, OrderInv, OrderTypeOK
<1> QED
  BY <1>1, BooksRest DEF StartManaging, StartClosingAll

\* The broker closes: what it closes, the manager still has, or has dropped.
LEMMA ServerClosesOK == OrderInv /\ ServerCloses => OrderInv'
<1> SUFFICES ASSUME OrderInv, NEW t \in DOMAIN broker, broker' = Without(broker, t),
                    UNCHANGED <<price, local, call, faults, observed>>
             PROVE  OrderInv'
  BY DEF ServerCloses
<1>1. /\ Positions(broker') /\ DOMAIN broker' = DOMAIN broker \ {t}
      /\ \A u \in DOMAIN broker' : broker'[u] = broker[u]
  <2>1. Positions(broker)
    BY DEF OrderInv, OrderTypeOK
  <2>2. DOMAIN broker' = DOMAIN broker \ {t}
    BY <2>1, WithoutOK
  <2> QED
    BY <2>1, <2>2, WithoutOK
<1>2. OrderTypeOK'
  BY <1>1 DEF OrderInv, OrderTypeOK, Positions, Tickets, observed
<1>3. EveryCloseIsKnown'
  BY <1>1 DEF OrderInv, OrderTypeOK, EveryCloseIsKnown, Untracked, ClosedByBroker, Tickets, observed
<1>4. CopyOK'
  BY <1>1 DEF OrderInv, CopyOK, observed
<1> QED
  BY <1>2, <1>3, <1>4 DEF OrderInv

-----------------------------------------------------------------------------
\* The new stop of manage_open_positions is a whole price, on the profitable side of the
\* stop of the manager's copy.
LEMMA TrailingOK ==
  ASSUME NEW pos \in Position, NEW p \in Int, ComputeTrailingSl(pos, p) # {}
  PROVE  LET sl == CHOOSE x \in ComputeTrailingSl(pos, p) : TRUE
         IN  sl \in Int /\ (pos.sl = 0 \/ Toward(pos.dir, sl) >= Toward(pos.dir, pos.sl))
<1> DEFINE candidate == IF pos.dir = "long" THEN p - TrailingSl ELSE p + TrailingSl
           sl == CHOOSE x \in ComputeTrailingSl(pos, p) : TRUE
<1>1. ComputeTrailingSl(pos, p) = {candidate}
      /\ (Toward(pos.dir, candidate) > Toward(pos.dir, pos.sl) \/ pos.sl = 0)
  BY DEF ComputeTrailingSl
<1>2. sl = candidate
  BY <1>1
<1>3. candidate \in Int /\ pos.sl \in Int /\ pos.dir \in {"long", "short"}
  BY OrderManagerAssumption DEF OrderManagerAssumption, Position
<1>4. Toward(pos.dir, candidate) \in Int /\ Toward(pos.dir, pos.sl) \in Int
  BY <1>3 DEF Toward
<1> QED
  BY <1>1, <1>2, <1>3, <1>4

\* A change of the stop: the next lookup, or the lost answer, excuses the copy.
LEMMA ModifyOK ==
  ASSUME OrderInv, NEW t \in call.tickets, NEW sl \in Int, NEW outcome \in Outcomes,
         ModifyOrder(t, sl, outcome), price' = price, call.refresh = {}, call.price # 0,
         call' = LET rest == [call EXCEPT !.tickets = @ \ {t}]
                 IN  IF outcome = "done" THEN [rest EXCEPT !.refresh = {t}] ELSE After(rest)
  PROVE  OrderInv'
<1> DEFINE rest == [call EXCEPT !.tickets = @ \ {t}]
<1>1. t \in DOMAIN local /\ t \in Tickets /\ CallShape(call, DOMAIN local) /\ Positions(broker)
  BY DEF OrderInv, OrderTypeOK, Positions, CallShape
<1>2. UNCHANGED <<local, issued, booked, dropped>> /\ Tickets' = Tickets
  BY DEF ModifyOrder, Tickets
<1>3. CallShape(call', DOMAIN local) /\ (outcome = "done" => call'.refresh = {t})
  <2>1. CallShape(rest, DOMAIN local)
    BY <1>1 DEF CallShape
  <2>2. CASE outcome = "done"
    <3>1. call' = [rest EXCEPT !.refresh = {t}]
      BY <2>2
    <3>2. [rest EXCEPT !.refresh = {t}].refresh = {t} /\ CallShape([rest EXCEPT !.refresh = {t}], DOMAIN local)
      BY <1>1, <2>1 DEF CallShape
    <3> QED
      BY <3>1, <3>2
  <2>3. CASE outcome # "done"
    <3>1. call' = After(rest)
      BY <2>3
    <3> QED
      BY <2>1, <2>3, <3>1, AfterOK
  <2> QED
    BY <2>2, <2>3
<1>4. /\ Positions(broker') /\ DOMAIN broker' = DOMAIN broker
      /\ \A u \in DOMAIN broker : broker'[u].dir = broker[u].dir
                                  /\ (u # t \/ outcome = "refused" => broker'[u] = broker[u])
  <2>1. CASE Carried(outcome)
    <3>1. broker' = [broker EXCEPT ![t].sl = sl] /\ t \in DOMAIN broker /\ outcome # "refused"
      BY <2>1 DEF ModifyOrder, Carried
    <3>2. broker[t] \in Position /\ [broker[t] EXCEPT !.sl = sl] \in Position
          /\ [broker[t] EXCEPT !.sl = sl].dir = broker[t].dir
      BY <1>1, <3>1 DEF Positions, Position
    <3>3. broker' = [broker EXCEPT ![t] = [broker[t] EXCEPT !.sl = sl]]
      BY <3>1
    <3> QED
      BY <1>1, <1>2, <3>1, <3>2, <3>3 DEF Positions
  <2>2. CASE ~Carried(outcome)
    BY <1>1, <1>2, <2>2 DEF ModifyOrder, Positions
  <2> QED
    BY <2>1, <2>2
<1>5. unanswered' \subseteq Tickets /\ unanswered \subseteq unanswered'
      /\ (outcome = "lost" => t \in unanswered')
  BY <1>1 DEF ModifyOrder, OrderInv, OrderTypeOK
<1>6. OrderTypeOK'
  <2>1. Positions(broker)' /\ Positions(local)'
    BY <1>2, <1>4 DEF OrderInv, OrderTypeOK, Positions
  <2> QED
    BY <1>2, <1>3, <1>5, <2>1 DEF OrderInv, OrderTypeOK
<1>7. EveryCloseIsKnown'
  BY <1>2, <1>4 DEF OrderInv, EveryCloseIsKnown, Untracked, ClosedByBroker
<1>8. CopyOK'
  <2>1. outcome \in {"done", "refused", "lost"}
    BY DEF Outcomes
  <2> QED
    BY <1>2, <1>3, <1>4, <1>5, <2>1 DEF OrderInv, CopyOK
<1> QED
  BY <1>6, <1>7, <1>8 DEF OrderInv

\* One ticket of a call.
LEMMA ManageOneOK == OrderInv /\ ManageOne => OrderInv'
<1> SUFFICES ASSUME OrderInv, ManageOne PROVE OrderInv'
  OBVIOUS
<1> DEFINE Rest(t) == [call EXCEPT !.tickets = @ \ {t}]
           NewStops(t) == ComputeTrailingSl(local[t], call.price)
           NewSl(t) == CHOOSE sl \in NewStops(t) : TRUE
<1>1. PICK t \in call.tickets, outcome \in Outcomes :
        /\ call.price > 0 /\ call.refresh = {} /\ UNCHANGED price
        /\ \/ ClosePosition(t, outcome) /\ call' = After(Rest(t))
           \/ /\ NewStops(t) # {} /\ ModifyOrder(t, NewSl(t), outcome)
              /\ call' = IF outcome = "done" THEN [Rest(t) EXCEPT !.refresh = {t}] ELSE After(Rest(t))
           \/ call' = After(Rest(t)) /\ UNCHANGED <<broker, local, observed>>
  BY DEF ManageOne
<1>2. CallShape(call, DOMAIN local) /\ local[t] \in Position /\ call.price \in Int /\ call.price # 0
  BY <1>1 DEF OrderInv, OrderTypeOK, Positions, CallShape
<1>3. CASE ClosePosition(t, outcome) /\ call' = After(Rest(t))
  BY <1>1, <1>3, CloseOK
<1>4. CASE /\ NewStops(t) # {} /\ ModifyOrder(t, NewSl(t), outcome)
           /\ call' = IF outcome = "done" THEN [Rest(t) EXCEPT !.refresh = {t}] ELSE After(Rest(t))
  <2>1. NewSl(t) \in Int
    BY <1>2, <1>4, TrailingOK
  <2> QED
    BY <1>1, <1>2, <1>4, <2>1, ModifyOK
<1>5. CASE call' = After(Rest(t)) /\ UNCHANGED <<broker, local, observed>>
  <2>1. CallShape(Rest(t), DOMAIN local) /\ Rest(t).refresh = {}
    BY <1>1, <1>2 DEF CallShape
  <2>2. CallShape(call', DOMAIN local) /\ call'.refresh = {}
    BY <1>5, <2>1, AfterOK
  <2>3. price' \in Int
    BY <1>1 DEF OrderInv, OrderTypeOK
  <2> QED
    BY <1>1, <1>5, <2>2, <2>3, BooksRest
<1> QED
  BY <1>1, <1>3, <1>4, <1>5

LEMMA CloseOneOK == OrderInv /\ CloseOne => OrderInv'
<1> SUFFICES ASSUME OrderInv, CloseOne PROVE OrderInv'
  OBVIOUS
<1>1. PICK t \in call.tickets, outcome \in Outcomes :
        call.price = 0 /\ ClosePosition(t, outcome) /\ price' = price
        /\ call' = After([call EXCEPT !.tickets = @ \ {t}])
  BY DEF CloseOne
<1>2. call.refresh = {}
  BY <1>1 DEF OrderInv, OrderTypeOK, CallShape
<1> QED
  BY <1>1, <1>2, CloseOK

\* The lookup that follows an answered change.
LEMMA RefreshOK == OrderInv /\ RefreshPosition => OrderInv'
<1> SUFFICES ASSUME OrderInv, RefreshPosition PROVE OrderInv'
  OBVIOUS
<1>1. PICK t \in call.refresh :
        /\ \/ t \in DOMAIN broker /\ local' = [local EXCEPT ![t] = broker[t]] /\ UNCHANGED dropped
           \/ local' = Without(local, t) /\ dropped' = dropped \cup {t}
        /\ call' = After([call EXCEPT !.refresh = {}])
        /\ UNCHANGED <<price, broker, issued, booked, unanswered>>
  BY DEF RefreshPosition, Answered, NoPosition
<1>2. /\ CallShape(call, DOMAIN local) /\ Positions(broker) /\ Positions(local)
      /\ t \in DOMAIN local /\ t \in Tickets /\ call.refresh = {t} /\ Tickets' = Tickets
  BY <1>1 DEF OrderInv, OrderTypeOK, Positions, CallShape, Tickets
<1>3. /\ Positions(local') /\ DOMAIN local \ {t} \subseteq DOMAIN local' /\ DOMAIN local' \subseteq DOMAIN local
      /\ (\A u \in DOMAIN local' \ {t} : local'[u] = local[u])
      /\ (t \in DOMAIN local' => t \in DOMAIN broker /\ local'[t] = broker[t] /\ dropped' = dropped)
      /\ (t \notin DOMAIN local' => dropped' = dropped \cup {t})
  <2>1. CASE t \in DOMAIN broker /\ local' = [local EXCEPT ![t] = broker[t]] /\ UNCHANGED dropped
    BY <1>2, <2>1 DEF Positions
  <2>2. CASE local' = Without(local, t) /\ dropped' = dropped \cup {t}
    <3>1. DOMAIN local' = DOMAIN local \ {t} /\ Positions(local')
      BY <1>2, <2>2, WithoutOK
    <3>2. \A u \in DOMAIN local \ {t} : local'[u] = local[u]
      BY <1>2, <2>2, WithoutOK
    <3> QED
      BY <2>2, <3>1, <3>2
  <2> QED
    BY <1>1, <2>1, <2>2
<1>4. CallShape(call', DOMAIN local')
  <2>1. CallShape([call EXCEPT !.refresh = {}], DOMAIN local')
    BY <1>2, <1>3 DEF CallShape
  <2> QED
    BY <1>1, <2>1, AfterOK
<1>5. OrderTypeOK'
  <2>1. Positions(broker)' /\ Positions(local)'
    BY <1>1, <1>2, <1>3 DEF Positions
  <2>2. dropped' \subseteq Tickets
    BY <1>2, <1>3 DEF OrderInv, OrderTypeOK
  <2> QED
    BY <1>1, <1>2, <1>4, <2>1, <2>2 DEF OrderInv, OrderTypeOK
<1>6. EveryCloseIsKnown'
  BY <1>1, <1>2, <1>3 DEF OrderInv, EveryCloseIsKnown, Untracked, ClosedByBroker
<1>7. CopyOK'
  BY <1>1, <1>2, <1>3 DEF OrderInv, CopyOK
<1> QED
  BY <1>5, <1>6, <1>7 DEF OrderInv

-----------------------------------------------------------------------------
\* The books stay typed, every close known and the copies true.
THEOREM OrderInvariant == OrderSpec => []OrderInv
<1>1. OrderInv /\ [OrderNext]_orderVars => OrderInv'
  <2> SUFFICES ASSUME OrderInv, [OrderNext]_orderVars PROVE OrderInv'
    OBVIOUS
  <2>1. CASE UNCHANGED orderVars
    <3>1. UNCHANGED <<broker, local, observed>> /\ price' = price /\ call' = call
      BY <2>1 DEF orderVars, observed
    <3> QED
      BY <3>1, BooksRest DEF OrderInv, OrderTypeOK
  <2> QED
    BY <2>1, ExecuteSetupOK, MovePriceOK, StartOK, ServerClosesOK, ManageOneOK, CloseOneOK, RefreshOK
       DEF OrderNext
<1> QED
  BY <1>1, OrderInitOK, PTL DEF OrderSpec

\* EveryCloseIsKnown: whatever answers are lost and queries fail, a position that is gone
\* was booked once, is reported by reconcile, or had been dropped.
THEOREM ClosesAreKnown == OrderSpec => []EveryCloseIsKnown
  BY OrderInvariant, PTL DEF OrderInv

\* StopsOnlyTighten: the trailing stop never moves a stop of the broker's back, unless a
\* change of that stop had been carried out without an answer.
THEOREM StopsTighten == OrderSpec => StopsOnlyTighten
<1> DEFINE Tightens == \A t \in DOMAIN broker \cap DOMAIN broker' :
                         \/ broker[t].sl = 0
                         \/ Toward(broker[t].dir, broker'[t].sl) >= Toward(broker[t].dir, broker[t].sl)
                         \/ t \in unanswered
<1>1. OrderInv /\ [OrderNext]_orderVars => [Tightens]_orderVars
  <2> SUFFICES ASSUME OrderInv, OrderNext PROVE Tightens
    OBVIOUS
  <2>1. Positions(broker) /\ Positions(local)
    BY DEF OrderInv, OrderTypeOK
  <2>2. ASSUME \A t \in DOMAIN broker \cap DOMAIN broker' : broker'[t] = broker[t]
        PROVE  Tightens
    <3>1. \A t \in DOMAIN broker : Toward(broker[t].dir, broker[t].sl) \in Int
      BY <2>1 DEF Positions, Position, Toward
    <3> QED
      BY <2>2, <3>1
  <2>3. CASE ExecuteSetup
    <3>1. issued + 1 \notin DOMAIN broker
      BY <2>1 DEF Positions, Tickets, OrderInv, OrderTypeOK
    <3>2. broker' = broker \/ \E pos : broker' = With(broker, issued + 1, pos)
      BY <2>3 DEF ExecuteSetup
    <3> QED
      BY <2>2, <3>1, <3>2 DEF With
  <2>4. CASE MovePrice \/ StartManaging \/ StartClosingAll \/ RefreshPosition
    BY <2>2, <2>4 DEF MovePrice, StartManaging, StartClosingAll, RefreshPosition
  <2>5. ASSUME NEW t, broker' = Without(broker, t) \/ broker' = broker PROVE Tightens
    <3>1. \A u \in DOMAIN broker \cap DOMAIN broker' : broker'[u] = broker[u]
      BY <2>5 DEF Without, Restrict
    <3> QED
      BY <2>2, <3>1
  <2>6. CASE ServerCloses
    BY <2>5, <2>6 DEF ServerCloses
  <2>7. CASE CloseOne
    BY <2>5, <2>7 DEF CloseOne, ClosePosition
  <2>8. CASE ManageOne
    <3> DEFINE NewStops(t) == ComputeTrailingSl(local[t], call.price)
    <3>1. PICK t \in call.tickets, outcome \in Outcomes :
            /\ call.refresh = {}
            /\ \/ broker' = Without(broker, t) \/ broker' = broker
               \/ /\ NewStops(t) # {} /\ t \in DOMAIN broker
                  /\ broker' = [broker EXCEPT ![t].sl = CHOOSE sl \in NewStops(t) : TRUE]
      BY <2>8 DEF ManageOne, ClosePosition, ModifyOrder, observed, Carried, Outcomes
    <3>2. CASE broker' = Without(broker, t) \/ broker' = broker
      BY <2>5, <3>2
    <3>3. CASE /\ NewStops(t) # {} /\ t \in DOMAIN broker
               /\ broker' = [broker EXCEPT ![t].sl = CHOOSE sl \in NewStops(t) : TRUE]
      <4> DEFINE new == CHOOSE sl \in NewStops(t) : TRUE
      <4>1. /\ t \in DOMAIN local /\ local[t] \in Position /\ call.price \in Int
            /\ broker[t] \in Position
        BY <2>1, <3>1, <3>3 DEF OrderInv, OrderTypeOK, CallShape, Positions
      <4>2. new \in Int /\ (local[t].sl = 0 \/ Toward(local[t].dir, new) >= Toward(local[t].dir, local[t].sl))
        BY <3>3, <4>1, TrailingOK
      <4>3. local[t].dir = broker[t].dir /\ (t \in unanswered \/ local[t].sl = broker[t].sl)
        BY <3>1, <3>3, <4>1 DEF OrderInv, CopyOK
      <4>4. broker'[t].sl = new /\ (\A u \in DOMAIN broker : u # t => broker'[u] = broker[u])
        BY <2>1, <3>3, <4>1 DEF Positions, Position
      <4>5. \A u \in DOMAIN broker : Toward(broker[u].dir, broker[u].sl) \in Int
        BY <2>1 DEF Positions, Position, Toward
      <4> HIDE DEF new
      <4> QED
        BY <4>2, <4>3, <4>4, <4>5
    <3> QED
      BY <3>1, <3>2, <3>3
  <2> QED
    BY <2>3, <2>4, <2>6, <2>7, <2>8 DEF OrderNext
<1> QED
  BY <1>1, OrderInvariant, PTL DEF OrderSpec, StopsOnlyTighten

-----------------------------------------------------------------------------
\* The macro overlay.

MacroSpec == MacroInit /\ [][MacroNext]_macroVars

Reports == [at : Int, source : {"fred", "tip_etf"}]

\* The reports in the file are published, one of them at most; what the other two sources
\* answered was asked for in the past; and an answer without the index that is still served
\* was asked in vain.
MacroInv ==
  /\ macroNow \in Nat /\ macroNow >= ReportLag
  /\ cotFile \subseteq Published(macroNow) /\ \A n, m \in cotFile : n = m
  /\ \A y \in tipsFile : y.at \in Int /\ y.at <= macroNow
  /\ \A c \in context : c.at \in Int /\ (c.dxy \/ macroNow - c.at >= ContextTtl \/ c.at \in inVain)
  /\ OverlayIsCurrent

LEMMA PublishedReports ==
  ASSUME NEW t \in Nat, t >= ReportLag
  PROVE  LET newest == Max(Published(t))
         IN  /\ newest \in Published(t) /\ \A n \in Published(t) : n <= newest
             /\ Published(t) \subseteq Nat /\ Published(t) # {} /\ IsFiniteSet(Published(t))
<1>1. 0 .. t \in SUBSET Nat /\ IsFiniteSet(0 .. t)
  BY FS_Interval
<1>2. Published(t) \subseteq 0 .. t
  BY DEF Published
<1>3. 0 \in Published(t)
  BY MacroAssumption DEF MacroAssumption, Published
<1>4. IsFiniteSet(Published(t))
  BY <1>1, <1>2, FS_Subset
<1>5. Published(t) \in SUBSET Int /\ Published(t) \subseteq Nat
  BY <1>1, <1>2
<1> QED
  BY <1>3, <1>4, <1>5, MaxMin

LEMMA DivMonotone ==
  ASSUME NEW a \in Int, NEW b \in Int, NEW d \in Nat \ {0}, a <= b
  PROVE  a \div d <= b \div d
  OBVIOUS

LEMMA LaterReports ==
  ASSUME NEW t \in Nat PROVE Published(t) \subseteq Published(t + 1)
  BY MacroAssumption DEF Published, MacroAssumption

\* The parts of an answer.
LEMMA CotIsNewest ==
  ASSUME MacroInv, NEW up
  PROVE  /\ FetchCot(up) \subseteq Published(macroNow) /\ (\A n, m \in FetchCot(up) : n = m)
         /\ FetchCot(up) = {Max(Published(macroNow))} \/ "cftc" \notin up
<1> DEFINE fresh == FetchFromCftc(up)
           P == Published(macroNow)
<1>1. /\ Max(P) \in P /\ (\A n \in P : n <= Max(P)) /\ P \subseteq Nat /\ P # {} /\ IsFiniteSet(P)
  BY PublishedReports DEF MacroInv
<1>2. cotFile \subseteq P /\ \A n, m \in cotFile : n = m
  BY DEF MacroInv
<1>3. CASE fresh # {}
  <2>1. FetchCot(up) = {Max(cotFile \cup fresh)}
    BY <1>3 DEF FetchCot
  <2>2. cotFile \cup fresh = P
    BY <1>2, <1>3 DEF FetchFromCftc
  <2> QED
    BY <1>1, <2>1, <2>2
<1>4. CASE fresh = {}
  <2>1. FetchCot(up) = cotFile
    BY <1>4 DEF FetchCot
  <2>2. "cftc" \notin up
    BY <1>1, <1>4 DEF FetchFromCftc
  <2> QED
    BY <1>2, <2>1, <2>2
<1> QED
  BY <1>3, <1>4

LEMMA TipsAreToday ==
  ASSUME MacroInv, NEW up
  PROVE  /\ \A y \in FetchTips(up) : y.at \in Int /\ y.at <= macroNow
         /\ \/ \E y \in FetchTips(up) : y.at \div DayLen = macroNow \div DayLen
            \/ TipsNeedRefresh(tipsFile) /\ TipsSources(up) = {}
<1>1. DayLen \in Nat \ {0} /\ macroNow \in Nat /\ \A y \in tipsFile : y.at \in Int /\ y.at <= macroNow
  BY MacroAssumption DEF MacroAssumption, MacroInv
<1>2. CASE TipsSources(up) = {} /\ TipsNeedRefresh(tipsFile)
  BY <1>1, <1>2 DEF FetchTips
<1>3. CASE ~TipsNeedRefresh(tipsFile)
  <2>1. PICK y \in tipsFile : ~(y.at \div DayLen < macroNow \div DayLen)
    BY <1>3 DEF TipsNeedRefresh
  <2>2. y.at \div DayLen <= macroNow \div DayLen /\ y.at \div DayLen \in Int /\ macroNow \div DayLen \in Int
    BY <1>1, DivMonotone
  <2>3. FetchTips(up) = tipsFile
    BY <1>3 DEF FetchTips
  <2> QED
    BY <1>1, <2>1, <2>2, <2>3
<1>4. CASE TipsSources(up) # {} /\ TipsNeedRefresh(tipsFile)
  <2>1. \E s : FetchTips(up) = {[at |-> macroNow, source |-> s]}
    BY <1>4 DEF FetchTips
  <2> QED
    BY <1>1, <2>1
<1> QED
  BY <1>2, <1>3, <1>4

\* An index is served, or it was asked for in vain while that is cached.
LEMMA IndexOrInVain ==
  ASSUME MacroInv, NEW up, NEW moved, NEW answer, answer = FetchContext(up, moved),
         NEW vain, vain = IF ~ContextFresh /\ IndexOf(answer) = {} THEN inVain \cup {macroNow} ELSE inVain
  PROVE  /\ \A c \in answer : c.at \in Int /\ (c.dxy \/ macroNow - c.at >= ContextTtl \/ c.at \in vain)
         /\ IndexOf(answer) # {} \/ vain # {}
<1>1. macroNow \in Nat /\ ContextTtl \in Nat \ {0}
  BY MacroAssumption DEF MacroAssumption, MacroInv
<1>2. \A c \in context : c.at \in Int /\ (c.dxy \/ macroNow - c.at >= ContextTtl \/ c.at \in inVain)
  BY DEF MacroInv
<1>3. inVain \subseteq vain
  OBVIOUS
<1>4. CASE ContextFresh
  <2>1. answer = context
    BY <1>4 DEF FetchContext
  <2>2. PICK c \in context : macroNow - c.at < ContextTtl
    BY <1>4 DEF ContextFresh
  <2>3. c.dxy => c \in IndexOf(answer)
    BY <2>1, <2>2 DEF IndexOf
  <2>4. ~c.dxy => c.at \in vain
    BY <1>1, <1>2, <1>3, <2>2
  <2> QED
    BY <1>2, <1>3, <2>1, <2>3, <2>4
<1>5. CASE ~ContextFresh
  <2>1. CASE answer = context
    BY <1>2, <1>3, <1>5, <2>1
  <2>2. CASE answer # context
    <3>1. PICK index \in BOOLEAN : answer = {[at |-> macroNow, dxy |-> index]}
      BY <2>2 DEF FetchContext
    <3>2. index => [at |-> macroNow, dxy |-> index] \in IndexOf(answer)
      BY <1>1, <3>1 DEF IndexOf
    <3>3. ~index => IndexOf(answer) = {}
      BY <3>1 DEF IndexOf
    <3>4. ~index => macroNow \in vain
      BY <1>5, <3>3
    <3> QED
      BY <1>1, <3>1, <3>2, <3>4
  <2> QED
    BY <2>1, <2>2
<1> QED
  BY <1>4, <1>5

LEMMA MacroStep == MacroInv /\ [MacroNext]_macroVars => MacroInv'
<1> SUFFICES ASSUME MacroInv, [MacroNext]_macroVars PROVE MacroInv'
  OBVIOUS
<1>0. ContextTtl \in Nat \ {0} /\ macroNow \in Nat
  BY MacroAssumption DEF MacroAssumption, MacroInv
<1>1. CASE UNCHANGED macroVars
  BY <1>1 DEF macroVars, MacroInv, OverlayIsCurrent
<1>2. ASSUME NEW up \in Reachable, NEW moved \in BOOLEAN, ComputeMacroBias(up, moved) PROVE MacroInv'
  <2> DEFINE reports == FetchCot(up)
             yields == FetchTips(up)
             answer == FetchContext(up, moved)
  <2>1. /\ cotFile' \in {reports, cotFile} /\ tipsFile' \in {yields, tipsFile} /\ context' = answer
        /\ inVain' = IF ~ContextFresh /\ IndexOf(answer) = {} THEN inVain \cup {macroNow} ELSE inVain
        /\ overlay' = {[cot |-> reports, tips |-> yields, dxy |-> IndexOf(answer),
                        lost |-> Lost(up)]}
        /\ macroNow' = macroNow
    BY <1>2 DEF ComputeMacroBias
  <2>2. /\ reports \subseteq Published(macroNow) /\ (\A n, m \in reports : n = m)
        /\ reports = {Max(Published(macroNow))} \/ "cftc" \notin up
    BY CotIsNewest
  <2>3. /\ \A y \in yields : y.at \in Int /\ y.at <= macroNow
        /\ \/ \E y \in yields : y.at \div DayLen = macroNow \div DayLen
           \/ TipsNeedRefresh(tipsFile) /\ TipsSources(up) = {}
    BY TipsAreToday
  <2>4. /\ \A c \in context' : c.at \in Int /\ (c.dxy \/ macroNow - c.at >= ContextTtl \/ c.at \in inVain')
        /\ IndexOf(answer) # {} \/ inVain' # {}
    BY <2>1, IndexOrInVain
  <2> HIDE DEF reports, yields, answer
  <2>5. OverlayIsCurrent'
    <3>1. \A o \in overlay' : o.cot = reports /\ o.tips = yields /\ o.dxy = IndexOf(answer) /\ o.lost = Lost(up)
      BY <2>1
    <3>2. /\ "cot" \in Lost(up) <=> "cftc" \notin up
          /\ "tips" \in Lost(up) <=> TipsNeedRefresh(tipsFile) /\ TipsSources(up) = {}
      BY DEF Lost
    <3> QED
      BY <2>1, <2>2, <2>3, <2>4, <3>1, <3>2 DEF OverlayIsCurrent, Published
  <2>6. Published(macroNow)' = Published(macroNow)
    BY <2>1 DEF Published
  <2> QED
    BY <2>1, <2>2, <2>3, <2>4, <2>5, <2>6 DEF MacroInv
<1>3. CASE MacroDies
  <2>1. /\ overlay' = {} /\ context' = {} /\ macroNow' = macroNow /\ inVain' = inVain
        /\ cotFile' \subseteq cotFile /\ tipsFile' \subseteq tipsFile
    BY <1>3 DEF MacroDies
  <2> QED
    BY <2>1 DEF MacroInv, OverlayIsCurrent, Published
<1>4. CASE MacroTick
  <2>1. /\ overlay' = {} /\ macroNow' = macroNow + 1 /\ cotFile' = cotFile /\ tipsFile' = tipsFile
        /\ context' = context /\ inVain' = {t \in inVain : macroNow + 1 - t < ContextTtl}
    BY <1>4 DEF MacroTick
  <2>2. Published(macroNow)' = Published(macroNow + 1)
    BY <2>1 DEF Published
  <2>3. cotFile' \subseteq Published(macroNow)'
    BY <1>0, <2>1, <2>2, LaterReports DEF MacroInv
  <2>4. \A c \in context' : c.at \in Int /\ (c.dxy \/ macroNow' - c.at >= ContextTtl \/ c.at \in inVain')
    BY <1>0, <2>1 DEF MacroInv
  <2>5. \A y \in tipsFile' : y.at \in Int /\ y.at <= macroNow'
    BY <1>0, <2>1 DEF MacroInv
  <2>6. macroNow' \in Nat /\ macroNow' >= ReportLag
    BY <1>0, <2>1, MacroAssumption DEF MacroInv, MacroAssumption
  <2> QED
    BY <2>1, <2>3, <2>4, <2>5, <2>6 DEF MacroInv, OverlayIsCurrent
<1> QED
  BY <1>1, <1>2, <1>3, <1>4 DEF MacroNext

\* OverlayIsCurrent: however the caches and files of the macro layer's three sources expire or
\* are lost, and whichever queries fail, the overlay rests on the newest report there is and
\* on yields asked for today, or the source was asked in this very call and failed; and it lacks the index
\* only if a call within the cache's lifetime asked for it in vain.
THEOREM OverlayCurrent == MacroSpec => []OverlayIsCurrent
<1>1. MacroInit => MacroInv
  BY MacroAssumption DEF MacroInit, MacroInv, OverlayIsCurrent, MacroAssumption
<1>2. MacroInv => OverlayIsCurrent
  BY DEF MacroInv
<1> QED
  BY <1>1, <1>2, MacroStep, PTL DEF MacroSpec

-----------------------------------------------------------------------------
\* The AI direction.

AiSpec == AiInit /\ [][LiveAiNext \/ CacheNext]_aiVars

LEMMA MinOfTwo ==
  ASSUME NEW a \in Int, NEW b \in Int
  PROVE  Min({a, b}) \in {a, b} /\ Min({a, b}) <= b
<1>1. \E x \in {a, b} : \A y \in {a, b} : x <= y
  <2>1. CASE a <= b
    BY <2>1
  <2>2. CASE ~(a <= b)
    BY <2>2
  <2> QED
    BY <2>1, <2>2
<1> QED
  BY <1>1 DEF Min

LEMMA MaxOfTwo ==
  ASSUME NEW a \in Int, NEW b \in Int
  PROVE  Max({a, b}) \in {a, b}
<1>1. \E x \in {a, b} : \A y \in {a, b} : x >= y
  <2>1. CASE a <= b
    BY <2>1
  <2>2. CASE ~(a <= b)
    BY <2>2
  <2> QED
    BY <2>1, <2>2
<1> QED
  BY <1>1 DEF Max

\* The engine is no surer than no macro evidence allows.
LEMMA EngineIsCapped == \A v \in DirectionAnswers : v.conf \in Int /\ v.conf <= MacroFreeCap
<1>1. \A v \in Views \cup {Neutral} : v.conf \in Int
  BY DEF Views, Neutral, View
<1>2. \A v \in RunDirectionDebate : v.conf \in Int /\ DOMAIN v = {"dir", "conf"}
  <2> TAKE v \in RunDirectionDebate
  <2>1. PICK w \in Views \cup {Neutral} : v = View(w.dir, Max({10, Min({95, w.conf})}))
    BY DEF RunDirectionDebate
  <2>2. w.conf \in Int
    BY <1>1
  <2>3. Min({95, w.conf}) \in Int
    <3>1. Min({95, w.conf}) \in {95, w.conf}
      BY <2>2, MinOfTwo
    <3> QED
      BY <2>2, <3>1
  <2>4. Max({10, Min({95, w.conf})}) \in Int
    BY <2>3, MaxOfTwo
  <2> QED
    BY <2>1, <2>4 DEF View
<1>3. \A v \in SmaDxyFallback : v.conf \in Int /\ DOMAIN v = {"dir", "conf"}
  BY DEF SmaDxyFallback, Neutral, View
<1>4. TAKE v \in DirectionAnswers
<1>5. PICK w \in RunDirectionDebate \cup SmaDxyFallback : v = [w EXCEPT !.conf = Min({@, MacroFreeCap})]
  BY DEF DirectionAnswers
<1>6. w.conf \in Int /\ DOMAIN w = {"dir", "conf"} /\ MacroFreeCap \in Int
  BY <1>2, <1>3, AiAssumption DEF AiAssumption
<1> DEFINE m == Min({w.conf, MacroFreeCap})
<1>7. m \in Int /\ m <= MacroFreeCap
  BY <1>6, MinOfTwo
<1>8. v = [w EXCEPT !.conf = m]
  BY <1>5
<1> HIDE DEF m
<1>9. v.conf = m
  BY <1>6, <1>8
<1> QED
  BY <1>7, <1>9

\* The analysis kept was made when updatedAt says, by the engine or because it failed, and
\* a cycle decides by it only before the next refresh is due.
Made(a) == a.at = updatedAt /\ (a.conf > MacroFreeCap => a.failed)
AnalysisInv ==
  /\ aiNow \in Nat /\ updatedAt \in Int
  /\ \A a \in analysis : Made(a)
  /\ taken # {} => taken = analysis /\ aiNow - updatedAt <= RefreshEvery

LEMMA AnalysisInvAccounts == AnalysisInv => AnalysisIsAccountedFor
  BY DEF AnalysisInv, AnalysisIsAccountedFor, Made

LEMMA AnalysisStep == AnalysisInv /\ [LiveAiNext \/ CacheNext]_aiVars => AnalysisInv'
<1> SUFFICES ASSUME AnalysisInv, [LiveAiNext \/ CacheNext]_aiVars PROVE AnalysisInv'
  OBVIOUS
<1>0. RefreshEvery \in Nat
  BY AiAssumption DEF AiAssumption
<1>1. CASE UNCHANGED liveAiVars
  BY <1>1 DEF AnalysisInv, Made, liveAiVars
<1>2. CASE AiCycle
  <2>1. taken' = analysis' /\ aiNow' = aiNow
    BY <1>2 DEF AiCycle
  <2>2. CASE RefreshDue
    <3>1. PICK a \in RunAiAnalysis : analysis' = {a} /\ updatedAt' = aiNow
      BY <1>2, <2>2 DEF AiCycle
    <3>2. a.at = aiNow /\ (a.conf > MacroFreeCap => a.failed)
      <4>1. CASE \E v \in DirectionAnswers : a = [dir |-> v.dir, conf |-> v.conf, at |-> aiNow, failed |-> FALSE]
        <5>1. PICK v \in DirectionAnswers : a = [dir |-> v.dir, conf |-> v.conf, at |-> aiNow, failed |-> FALSE]
          BY <4>1
        <5>2. ~(v.conf > MacroFreeCap)
          BY EngineIsCapped, AiAssumption DEF AiAssumption
        <5> QED
          BY <5>1, <5>2
      <4>2. CASE \E v \in Technical : a = [dir |-> v.dir, conf |-> v.conf, at |-> aiNow, failed |-> TRUE]
        BY <4>2
      <4> QED
        BY <4>1, <4>2 DEF RunAiAnalysis
    <3> QED
      BY <1>0, <2>1, <3>1, <3>2 DEF AnalysisInv, Made
  <2>3. CASE ~RefreshDue
    BY <1>0, <1>2, <2>1, <2>3 DEF AiCycle, RefreshDue, AnalysisInv, Made
  <2> QED
    BY <2>2, <2>3
<1>3. CASE AiCycleFails
  BY <1>1, <1>3 DEF AiCycleFails
<1>4. CASE NextCycle
  BY <1>0, <1>4 DEF NextCycle, AnalysisInv, Made
<1>5. UNCHANGED aiVars \/ CacheNext => UNCHANGED liveAiVars
  BY DEF aiVars, liveAiVars, CacheNext
<1> QED
  BY <1>1, <1>2, <1>3, <1>4, <1>5 DEF LiveAiNext

\* AnalysisIsAccountedFor: whatever fails and restarts, a cycle decides by an analysis that
\* was made when updated_at says and no longer ago than it may be, and by one surer than the
\* cap without macro evidence only where the engine had failed.
THEOREM AnalysisAccounted == AiSpec => []AnalysisIsAccountedFor
<1>1. AiInit => AnalysisInv
  BY AiAssumption DEF AiInit, AnalysisInv, AiAssumption
<1> QED
  BY <1>1, AnalysisStep, AnalysisInvAccounts, PTL DEF AiSpec

-----------------------------------------------------------------------------
\* What a backtest looks up: the binary search, the hours and the bars.

\* The search, as a function of what is left to be searched.
Stretches(n) == [lo : 0 .. n, hi : -1 .. n - 1, best : 0 .. n - 1]
Halved(r, ts) ==
  LET mid == (r.lo + r.hi) \div 2
  IN  IF EntryTime(mid) <= ts
      THEN [lo |-> mid + 1, hi |-> r.hi, best |-> mid]
      ELSE [r EXCEPT !.hi = mid - 1]
IsSearch(n, ts, search) ==
  search = [r \in Stretches(n) |-> IF r.lo > r.hi THEN r.best ELSE search[Halved(r, ts)]]

LEMMA SearchIsSearch ==
  ASSUME NEW n \in Nat, NEW ts \in Int
  PROVE  \E search : /\ Search(n, ts) = search[[lo |-> 0, hi |-> n - 1, best |-> 0]]
                     /\ search = CHOOSE f : IsSearch(n, ts, f)
<1>1. \E search : /\ Search(n, ts) = search[[lo |-> 0, hi |-> n - 1, best |-> 0]]
        /\ search = CHOOSE f : f = [r \in Stretches(n) |->
                      IF r.lo > r.hi THEN r.best ELSE f[Halved(r, ts)]]
  BY DEF Search, Stretches, Halved
<1> QED
  BY <1>1 DEF IsSearch

LEMMA EntriesInOrder ==
  /\ H4 \in Nat \ {0} /\ Lookback \in Nat
  /\ \A i \in Int : EntryTime(i) \in Int
  /\ \A i, j \in Int : i < j => EntryTime(i) + H4 <= EntryTime(j)
<1>1. H4 \in Nat \ {0} /\ Lookback \in Nat
  BY AiAssumption DEF AiAssumption
<1>2. \A i \in Int : EntryTime(i) \in Int
  BY <1>1 DEF EntryTime
<1>3. ASSUME NEW i \in Int, NEW j \in Int, i < j PROVE EntryTime(i) + H4 <= EntryTime(j)
  <2>1. PICK k \in Nat : j = i + 1 + k
    <3>1. j - i - 1 \in Nat /\ j = i + 1 + (j - i - 1)
      BY <1>3
    <3> QED
      BY <3>1
  <2>2. j * H4 = i * H4 + H4 + k * H4
    BY <1>1, <2>1
  <2>3. k * H4 >= 0
    BY <1>1
  <2>4. i * H4 \in Int /\ j * H4 \in Int /\ k * H4 \in Int
    BY <1>1
  <2> QED
    BY <1>1, <2>2, <2>3, <2>4 DEF EntryTime
<1> QED
  BY <1>1, <1>2, <1>3

LEMMA HalvesAreOpen ==
  ASSUME NEW n \in Nat, NEW r \in Stretches(n), NEW ts \in Int, r.lo <= r.hi
  PROVE  /\ (r.lo + r.hi) \div 2 \in r.lo .. r.hi
         /\ Halved(r, ts) \in Stretches(n)
<1>1. r.lo \in 0 .. n /\ r.hi \in -1 .. n - 1 /\ r.best \in 0 .. n - 1
      /\ r = [lo |-> r.lo, hi |-> r.hi, best |-> r.best]
  BY DEF Stretches
<1> DEFINE mid == (r.lo + r.hi) \div 2
<1>2. mid \in r.lo .. r.hi
  BY <1>1
<1> HIDE DEF mid
<1>3. [lo |-> mid + 1, hi |-> r.hi, best |-> mid] \in Stretches(n)
  BY <1>1, <1>2 DEF Stretches
<1>4. [r EXCEPT !.hi = mid - 1] \in Stretches(n)
  BY <1>1, <1>2 DEF Stretches
<1> QED
  BY <1>2, <1>3, <1>4 DEF mid, Halved

\* What it finds, in a form that shows there is such a function.
Known(r, ts) == {i \in r.lo .. r.hi : EntryTime(i) <= ts}
LastKnown(r, ts) == IF Known(r, ts) = {} THEN r.best ELSE Max(Known(r, ts))

LEMMA LargestKnown ==
  ASSUME NEW n \in Nat, NEW r \in Stretches(n), NEW ts \in Int, NEW m \in Known(r, ts),
         \A i \in Known(r, ts) : i <= m
  PROVE  LastKnown(r, ts) = m
<1>1. Known(r, ts) \subseteq Int
  BY DEF Known, Stretches
<1>2. \A x \in Known(r, ts) : (\A y \in Known(r, ts) : x >= y) => x = m
  BY <1>1
<1>3. \A y \in Known(r, ts) : m >= y
  BY <1>1
<1> QED
  BY <1>2, <1>3 DEF LastKnown, Max

LEMMA HalvingFinds ==
  ASSUME NEW n \in Nat, NEW r \in Stretches(n), NEW ts \in Int, r.lo <= r.hi
  PROVE  LastKnown(r, ts) = LastKnown(Halved(r, ts), ts)
<1> DEFINE mid == (r.lo + r.hi) \div 2
           next == Halved(r, ts)
<1>a. mid \in r.lo .. r.hi /\ next \in Stretches(n)
  BY HalvesAreOpen
<1>0. mid \in r.lo .. r.hi /\ next \in Stretches(n) /\ r.lo \in Int /\ r.hi \in Int
  BY <1>a DEF Stretches
<1> SUFFICES LastKnown(r, ts) = LastKnown(next, ts)
  OBVIOUS
<1>1. CASE EntryTime(mid) <= ts
  <2>1. next = [lo |-> mid + 1, hi |-> r.hi, best |-> mid]
    BY <1>1 DEF Halved
  <2> HIDE DEF mid, next
  <2>2. Known(next, ts) = {i \in mid + 1 .. r.hi : EntryTime(i) <= ts}
    BY <2>1 DEF Known
  <2>3. Known(next, ts) \subseteq Known(r, ts) /\ mid \in Known(r, ts)
        /\ \A i \in Known(r, ts) : i \in Known(next, ts) \/ i <= mid
    BY <1>0, <1>1, <2>2 DEF Known
  <2>4. CASE Known(next, ts) = {}
    <3>1. LastKnown(r, ts) = mid
      BY <1>0, <2>3, <2>4, LargestKnown
    <3> QED
      BY <2>1, <2>4, <3>1 DEF LastKnown
  <2>5. CASE Known(next, ts) # {}
    <3>1. IsFiniteSet(Known(next, ts)) /\ Known(next, ts) \subseteq Int
      <4>1. IsFiniteSet(mid + 1 .. r.hi)
        BY <1>0, FS_Interval
      <4>2. Known(next, ts) \subseteq mid + 1 .. r.hi
        BY <2>2
      <4> QED
        BY <1>0, <4>1, <4>2, FS_Subset
    <3>2. PICK m \in Known(next, ts) : \A i \in Known(next, ts) : i <= m
      BY <2>5, <3>1, FiniteIsBounded DEF Bounded
    <3>3. LastKnown(next, ts) = m
      BY <1>0, <3>2, LargestKnown
    <3>4. m \in Known(r, ts) /\ \A i \in Known(r, ts) : i <= m
      BY <1>0, <2>2, <2>3, <3>2
    <3>5. LastKnown(r, ts) = m
      BY <3>4, LargestKnown
    <3> QED
      BY <3>3, <3>5
  <2> QED
    BY <2>4, <2>5
<1>2. CASE ~(EntryTime(mid) <= ts)
  <2>1. next = [r EXCEPT !.hi = mid - 1]
    BY <1>2 DEF Halved
  <2>2. next.lo = r.lo /\ next.hi = mid - 1 /\ next.best = r.best
    BY <2>1 DEF Stretches
  <2> HIDE DEF mid, next
  <2>3. \A i \in r.lo .. r.hi : EntryTime(i) <= ts => i \in r.lo .. mid - 1
    <3> SUFFICES ASSUME NEW i \in r.lo .. r.hi, EntryTime(i) <= ts, ~(i <= mid - 1) PROVE FALSE
      BY <1>0
    <3>1. i = mid \/ mid < i
      BY <1>0
    <3> QED
      BY <1>0, <1>2, <3>1, EntriesInOrder
  <2>4. Known(next, ts) = Known(r, ts)
    BY <1>0, <2>2, <2>3 DEF Known
  <2> QED
    BY <2>2, <2>4 DEF LastKnown
<1> QED
  BY <1>1, <1>2

LEMMA SearchExists ==
  ASSUME NEW n \in Nat, NEW ts \in Int
  PROVE  \E search : IsSearch(n, ts, search)
<1> DEFINE search == [r \in Stretches(n) |-> LastKnown(r, ts)]
<1>1. ASSUME NEW r \in Stretches(n)
      PROVE  LastKnown(r, ts) = IF r.lo > r.hi THEN r.best ELSE search[Halved(r, ts)]
  <2>1. CASE r.lo > r.hi
    <3>1. Known(r, ts) = {}
      BY <2>1 DEF Known, Stretches
    <3> QED
      BY <2>1, <3>1 DEF LastKnown
  <2>2. CASE ~(r.lo > r.hi)
    <3>1. r.lo <= r.hi
      BY <2>2 DEF Stretches
    <3>2. Halved(r, ts) \in Stretches(n) /\ LastKnown(r, ts) = LastKnown(Halved(r, ts), ts)
      BY <3>1, HalvesAreOpen, HalvingFinds
    <3> QED
      BY <2>2, <3>2
  <2> QED
    BY <2>1, <2>2
<1>2. IsSearch(n, ts, search)
  BY <1>1 DEF IsSearch
<1> QED
  BY <1>2

\* The rightmost entry at or before ts.
Rightmost(n, ts, i) ==
  /\ i \in 0 .. n - 1 /\ EntryTime(i) <= ts
  /\ i = n - 1 \/ ts < EntryTime(i + 1)

LEMMA SearchFinds ==
  ASSUME NEW n \in Nat \ {0}, NEW ts \in Int, EntryTime(0) <= ts
  PROVE  Rightmost(n, ts, Search(n, ts))
<1>1. PICK search : /\ Search(n, ts) = search[[lo |-> 0, hi |-> n - 1, best |-> 0]]
                    /\ search = CHOOSE f : IsSearch(n, ts, f)
  BY SearchIsSearch
<1>2. IsSearch(n, ts, search)
  BY <1>1, SearchExists
<1> DEFINE Open(r) == /\ EntryTime(r.best) <= ts
                      /\ (r.lo = 0 /\ r.best = 0) \/ r.lo = r.best + 1
                      /\ r.lo <= r.hi + 1 /\ (r.hi = n - 1 \/ ts < EntryTime(r.hi + 1))
           S == {k \in Nat : \A r \in Stretches(n) :
                   Open(r) /\ r.hi - r.lo + 1 <= k => Rightmost(n, ts, search[r])}
<1>3. 0 \in S
  <2> SUFFICES ASSUME NEW r \in Stretches(n), Open(r), r.hi - r.lo + 1 <= 0
               PROVE  Rightmost(n, ts, search[r])
    OBVIOUS
  <2>1. r.lo \in 0 .. n /\ r.hi \in -1 .. n - 1 /\ r.best \in 0 .. n - 1
    BY DEF Stretches
  <2>2. r.lo > r.hi /\ r.lo = r.hi + 1
    BY <2>1
  <2>3. search[r] = r.best
    BY <1>2, <2>2 DEF IsSearch
  <2>4. r.lo = r.best + 1
    <3>1. CASE r.lo = 0 /\ r.best = 0
      <4>1. r.hi = -1 /\ r.hi + 1 = 0
        BY <2>1, <2>2, <3>1
      <4> QED
        BY <3>1, <4>1, EntriesInOrder
    <3> QED
      BY <3>1
  <2>5. r.best = r.hi
    BY <2>1, <2>2, <2>4
  <2> QED
    BY <2>1, <2>3, <2>5 DEF Rightmost
<1>4. ASSUME NEW k \in Nat, k \in S PROVE k + 1 \in S
  <2> SUFFICES ASSUME NEW r \in Stretches(n), Open(r), r.hi - r.lo + 1 <= k + 1
               PROVE  Rightmost(n, ts, search[r])
    OBVIOUS
  <2>1. r.lo \in 0 .. n /\ r.hi \in -1 .. n - 1 /\ r.best \in 0 .. n - 1
        /\ r = [lo |-> r.lo, hi |-> r.hi, best |-> r.best]
    BY DEF Stretches
  <2>2. CASE r.lo > r.hi
    <3>1. r.hi - r.lo + 1 <= k
      BY <2>1, <2>2
    <3> QED
      BY <1>4, <3>1
  <2>3. CASE r.lo <= r.hi
    <3> DEFINE mid == (r.lo + r.hi) \div 2
               next == Halved(r, ts)
    <3>1. mid \in r.lo .. r.hi /\ next \in Stretches(n)
      BY <2>3, HalvesAreOpen
    <3>2. search[r] = search[next]
      BY <1>2, <2>1, <2>3 DEF IsSearch
    <3>3. next = IF EntryTime(mid) <= ts THEN [lo |-> mid + 1, hi |-> r.hi, best |-> mid]
                 ELSE [lo |-> r.lo, hi |-> mid - 1, best |-> r.best]
      BY <2>1 DEF Halved
    <3> HIDE DEF mid, next
    <3>4. EntryTime(mid) \in Int /\ mid - 1 + 1 = mid
      BY <2>1, <3>1, EntriesInOrder
    <3>5. Open(next)
      <4>1. CASE EntryTime(mid) <= ts
        <5>1. next.lo = mid + 1 /\ next.hi = r.hi /\ next.best = mid
          BY <3>3, <4>1
        <5> QED
          BY <2>1, <3>1, <4>1, <5>1
      <4>2. CASE ~(EntryTime(mid) <= ts)
        <5>1. next.lo = r.lo /\ next.hi = mid - 1 /\ next.best = r.best
          BY <3>3, <4>2
        <5>2. ts < EntryTime(next.hi + 1) /\ next.lo <= next.hi + 1
          BY <2>1, <3>1, <3>4, <4>2, <5>1
        <5> QED
          BY <5>1, <5>2
      <4> QED
        BY <4>1, <4>2
    <3>6. next.hi - next.lo + 1 <= k
      BY <2>1, <3>1, <3>3
    <3>7. Rightmost(n, ts, search[next])
      BY <1>4, <3>1, <3>5, <3>6
    <3> QED
      BY <3>2, <3>7
  <2> QED
    BY <2>1, <2>2, <2>3
<1> DEFINE all == [lo |-> 0, hi |-> n - 1, best |-> 0]
<1>5. all \in Stretches(n) /\ Open(all) /\ all.hi - all.lo + 1 <= n
  BY DEF Stretches
<1>6. n \in S
  <2> HIDE DEF S
  <2>1. Nat \subseteq S
    BY <1>3, <1>4, NatInd
  <2> QED
    BY <2>1
<1>7. Rightmost(n, ts, search[all])
  BY <1>5, <1>6
<1> QED
  BY <1>1, <1>7

\* Multiples and division.
LEMMA WholeMultiple ==
  ASSUME NEW a \in Nat, NEW d \in Nat \ {0}, a % d = 0
  PROVE  \E k \in Nat : a = k * d
<1>1. a \div d \in Nat /\ a = d * (a \div d) + (a % d)
  OBVIOUS
<1>2. a = (a \div d) * d
  BY <1>1
<1> QED
  BY <1>1, <1>2

LEMMA MultiplesOrder ==
  ASSUME NEW a \in Int, NEW b \in Int, NEW d \in Nat \ {0}, a * d < b * d
  PROVE  a < b /\ a * d + d <= b * d
<1>1. a < b
  <2> SUFFICES ASSUME b <= a PROVE FALSE
    OBVIOUS
  <2>1. a - b \in Nat /\ a = b + (a - b)
    OBVIOUS
  <2>2. PICK k \in Nat : a = b + k
    BY <2>1
  <2>3. a * d = b * d + k * d /\ k * d >= 0 /\ b * d \in Int /\ k * d \in Int
    BY <2>2
  <2> QED
    BY <2>3
<1>2. PICK k \in Nat : b = a + 1 + k
  <2>1. b - a - 1 \in Nat /\ b = a + 1 + (b - a - 1)
    BY <1>1
  <2> QED
    BY <2>1
<1>3. b * d = a * d + d + k * d /\ k * d >= 0 /\ a * d \in Int /\ k * d \in Int
  BY <1>2
<1> QED
  BY <1>1, <1>3

LEMMA MultipleBelow ==
  ASSUME NEW a \in Nat, NEW k \in Nat, NEW d \in Nat \ {0}
  PROVE  k * d <= a <=> k <= a \div d
<1> DEFINE q == a \div d
           r == a % d
<1>1. q \in Nat /\ r \in 0 .. d - 1 /\ a = d * q + r
  OBVIOUS
<1> HIDE DEF q, r
<1>2. d * q = q * d /\ q * d \in Int /\ k * d \in Int
  BY <1>1
<1>3. ASSUME k <= q PROVE k * d <= a
  <2>1. CASE k = q
    BY <1>1, <1>2, <2>1
  <2>2. CASE k < q
    <3>1. ~(q * d < k * d)
      BY <1>1, <2>2, MultiplesOrder
    <3> QED
      BY <1>1, <1>2, <3>1
  <2> QED
    BY <1>1, <1>3, <2>1, <2>2
<1>4. ASSUME q < k PROVE a < k * d
  <2>1. PICK j \in Nat : k = q + 1 + j
    <3>1. k - q - 1 \in Nat /\ k = q + 1 + (k - q - 1)
      BY <1>1, <1>4
    <3> QED
      BY <3>1
  <2>2. k * d = q * d + d + j * d /\ j * d >= 0 /\ j * d \in Int
    BY <1>1, <2>1
  <2> QED
    BY <1>1, <1>2, <2>2
<1>5. k * d <= a => k <= q
  BY <1>1, <1>2, <1>4
<1> QED
  BY <1>3, <1>5 DEF q

LEMMA DownToMultiple ==
  ASSUME NEW a \in Nat, NEW d \in Nat \ {0}
  PROVE  /\ a - (a % d) = (a \div d) * d /\ a \div d \in Nat
         /\ a - (a % d) \in Nat /\ a - (a % d) <= a /\ a < a - (a % d) + d
<1>1. a \div d \in Nat /\ a % d \in 0 .. d - 1 /\ a = d * (a \div d) + (a % d)
  OBVIOUS
<1>2. d * (a \div d) = (a \div d) * d /\ (a \div d) * d \in Nat
  BY <1>1
<1> QED
  BY <1>1, <1>2

\* The lengths of bars divide each other, and the lookback.
LEMMA Lengths ==
  /\ {HourLen, H4, D1, Lookback} \subseteq Nat \ {0} /\ DataEnd \in Nat /\ Lookback <= DataEnd
  /\ \E k \in Nat : H4 = k * HourLen
  /\ \E k \in Nat : D1 = k * H4
  /\ \E k \in Nat : Lookback = k * D1
  BY AiAssumption, WholeMultiple DEF AiAssumption

LEMMA OfMultiples ==
  ASSUME NEW length \in {H4, D1}
  PROVE  /\ length \in Nat \ {0}
         /\ \E k \in Nat : length = k * H4
         /\ \E k \in Nat : Lookback = k * length
<1>1. length \in Nat \ {0}
  BY Lengths
<1>2. \E k \in Nat : length = k * H4
  <2>1. H4 = 1 * H4
    BY Lengths
  <2> QED
    BY <2>1, Lengths
<1>3. \E k \in Nat : Lookback = k * length
  <2>1. PICK k \in Nat, j \in Nat : Lookback = k * D1 /\ D1 = j * H4
    BY Lengths
  <2>2. Lookback = (k * j) * H4 /\ k * j \in Nat
    BY <2>1, Lengths
  <2> QED
    BY <2>1, <2>2
<1> QED
  BY <1>1, <1>2, <1>3

\* A file has an entry, and its entries reach the last bar of its timeframe.
LEMMA FileReaches ==
  ASSUME NEW length \in {H4, D1}
  PROVE  /\ Entries(length) \in Nat \ {0} /\ LastOpen(length) \in Nat
         /\ LastOpen(length) < EntryTime(Entries(length))
<1>1. length \in Nat \ {0} /\ H4 \in Nat \ {0} /\ Lookback \in Nat /\ DataEnd \in Nat
  BY OfMultiples, Lengths
<1>2. LastOpen(length) = (DataEnd \div length) * length /\ LastOpen(length) \in Nat
  BY <1>1, DownToMultiple DEF LastOpen
<1>3. PICK k \in Nat : Lookback = k * length
  BY OfMultiples
<1>4. Lookback <= LastOpen(length)
  <2>1. k <= DataEnd \div length
    BY <1>1, <1>3, MultipleBelow, Lengths
  <2>2. DataEnd \div length \in Nat
    BY <1>1
  <2>3. ~((DataEnd \div length) * length < k * length)
    BY <1>1, <2>1, <2>2, MultiplesOrder
  <2> QED
    BY <1>1, <1>2, <1>3, <2>3
<1> DEFINE span == LastOpen(length) - Lookback
           n == span \div H4
<1>5. span \in Nat
  BY <1>1, <1>2, <1>4
<1>6. n \in Nat /\ span < (n + 1) * H4
  <2> HIDE DEF span
  <2>1. n \in Nat /\ span < n * H4 + H4
    BY <1>1, <1>5, DownToMultiple
  <2> QED
    BY <1>1, <2>1
<1>7. Entries(length) = n + 1
  BY <1>6 DEF Entries
<1>8. EntryTime(Entries(length)) = Lookback + (n + 1) * H4
  BY <1>7 DEF EntryTime
<1> HIDE DEF n
<1>9. (n + 1) * H4 \in Nat
  BY <1>1, <1>6
<1> QED
  BY <1>1, <1>2, <1>6, <1>7, <1>8, <1>9

LEMMA LookupFinds ==
  ASSUME NEW length \in {H4, D1}, NEW ts \in Nat
  PROVE  /\ ts < Lookback => Lookup(length, ts) = {}
         /\ Lookback <= ts =>
              \E i : Rightmost(Entries(length), ts, i) /\ Lookup(length, ts) = {CacheEntry(length, i)}
<1>1. EntryTime(0) = Lookback /\ Lookback \in Nat
  BY Lengths DEF EntryTime
<1>2. CASE ts < Lookback
  BY <1>1, <1>2 DEF Lookup
<1>3. CASE Lookback <= ts
  <2>1. Rightmost(Entries(length), ts, Search(Entries(length), ts))
    BY <1>1, <1>3, FileReaches, SearchFinds
  <2>2. Lookup(length, ts) = {CacheEntry(length, Search(Entries(length), ts))}
    BY <1>1, <1>3 DEF Lookup
  <2> QED
    BY <1>1, <1>3, <2>1, <2>2
<1> QED
  BY <1>1, <1>2, <1>3

LEMMA OneRightmost ==
  ASSUME NEW n \in Nat, NEW ts \in Int, NEW i, NEW j, Rightmost(n, ts, i), Rightmost(n, ts, j)
  PROVE  i = j
<1>1. ASSUME NEW a, NEW b, Rightmost(n, ts, a), Rightmost(n, ts, b), a < b PROVE FALSE
  <2>1. a \in Int /\ b \in Int /\ a # n - 1 /\ a + 1 \in Int
    BY <1>1 DEF Rightmost
  <2>2. ts < EntryTime(a + 1) /\ EntryTime(b) <= ts
    BY <1>1, <2>1 DEF Rightmost
  <2>3. EntryTime(a + 1) <= EntryTime(b)
    <3>1. CASE a + 1 = b
      BY <2>1, <3>1, EntriesInOrder
    <3>2. CASE a + 1 < b
      BY <2>1, <3>2, EntriesInOrder
    <3> QED
      BY <1>1, <2>1, <3>1, <3>2
  <2> QED
    BY <2>1, <2>2, <2>3, EntriesInOrder
<1>2. i \in Int /\ j \in Int
  BY DEF Rightmost
<1> QED
  BY <1>1, <1>2

\* Entries are dated at full hours: a bar finds what every bar of its hour finds.
LEMMA EntryAtFullHour ==
  ASSUME NEW i \in Nat
  PROVE  \E k \in Nat : EntryTime(i) = k * HourLen
<1>1. PICK h \in Nat, d \in Nat, l \in Nat : H4 = h * HourLen /\ D1 = d * H4 /\ Lookback = l * D1
  BY Lengths
<1>2. HourLen \in Nat
  BY Lengths
<1>3. D1 = (d * h) * HourLen
  BY <1>1, <1>2
<1>4. Lookback = (l * (d * h)) * HourLen
  BY <1>1, <1>2, <1>3
<1>5. i * H4 = (i * h) * HourLen
  BY <1>1, <1>2
<1>6. l * (d * h) \in Nat /\ i * h \in Nat
  BY <1>1
<1>7. EntryTime(i) = (l * (d * h) + i * h) * HourLen
  BY <1>2, <1>4, <1>5, <1>6 DEF EntryTime
<1> QED
  BY <1>6, <1>7

LEMMA SameHour ==
  ASSUME NEW s \in Nat, NEW t \in Nat, HourKey(s) = HourKey(t)
  PROVE  Lookup(H4, s) = Lookup(H4, t)
<1>1. HourLen \in Nat \ {0} /\ Lookback \in Nat
  BY Lengths
<1>2. \A i \in Nat : EntryTime(i) <= s <=> EntryTime(i) <= t
  <2> TAKE i \in Nat
  <2>1. PICK k \in Nat : EntryTime(i) = k * HourLen
    BY EntryAtFullHour
  <2>2. k * HourLen <= s <=> k <= s \div HourLen
    BY <1>1, MultipleBelow
  <2>3. k * HourLen <= t <=> k <= t \div HourLen
    BY <1>1, MultipleBelow
  <2> QED
    BY <2>1, <2>2, <2>3 DEF HourKey
<1>3. Lookback <= s <=> Lookback <= t
  <2>1. EntryTime(0) = Lookback
    BY <1>1, Lengths DEF EntryTime
  <2>2. 0 \in Nat
    OBVIOUS
  <2> QED
    BY <1>2, <2>1, <2>2
<1>4. CASE s < Lookback
  <2>1. t < Lookback
    BY <1>1, <1>3, <1>4
  <2> QED
    BY <1>4, <2>1, LookupFinds
<1>5. CASE Lookback <= s
  <2>1. PICK i : Rightmost(Entries(H4), s, i) /\ Lookup(H4, s) = {CacheEntry(H4, i)}
    BY <1>5, LookupFinds
  <2>2. PICK j : Rightmost(Entries(H4), t, j) /\ Lookup(H4, t) = {CacheEntry(H4, j)}
    BY <1>3, <1>5, LookupFinds
  <2>3. Entries(H4) \in Nat
    BY FileReaches
  <2>4. Rightmost(Entries(H4), s, j)
    <3>1. j \in Nat /\ j + 1 \in Nat /\ EntryTime(j + 1) \in Int
      BY <2>2, <2>3, EntriesInOrder DEF Rightmost
    <3>2. j = Entries(H4) - 1 \/ ~(EntryTime(j + 1) <= t)
      BY <2>2, <3>1 DEF Rightmost
    <3>3. j = Entries(H4) - 1 \/ ~(EntryTime(j + 1) <= s)
      BY <1>2, <3>1, <3>2
    <3> QED
      BY <1>2, <2>2, <3>1, <3>3 DEF Rightmost
  <2>5. i = j
    BY <2>1, <2>3, <2>4, OneRightmost
  <2> QED
    BY <2>1, <2>2, <2>5
<1> QED
  BY <1>1, <1>4, <1>5

\* A bar that opened before an entry opened H4 before it.
LEMMA BarIsPast ==
  ASSUME NEW length \in {H4, D1}, NEW i \in Nat
  PROVE  OpenedBefore(length, EntryTime(i)) \in Nat
         /\ OpenedBefore(length, EntryTime(i)) + H4 <= EntryTime(i)
<1>1. length \in Nat \ {0} /\ H4 \in Nat \ {0} /\ Lookback \in Nat \ {0}
  BY OfMultiples, Lengths
<1>2. PICK k \in Nat, d \in Nat : Lookback = k * H4 /\ length = d * H4
  BY OfMultiples
<1> DEFINE t == EntryTime(i)
           opens == {o \in 0 .. t - 1 : o % length = 0}
<1>3. t = (k + i) * H4 /\ t \in Nat \ {0}
  <2>1. t = (k + i) * H4
    BY <1>1, <1>2 DEF EntryTime
  <2>2. i * H4 \in Nat
    BY <1>1
  <2> QED
    BY <1>1, <2>1, <2>2 DEF EntryTime
<1> HIDE DEF t
<1>4. 0 \in opens
  BY <1>1, <1>3
<1>5. IsFiniteSet(opens) /\ opens \subseteq Int
  <2>1. IsFiniteSet(0 .. t - 1)
    BY <1>3, FS_Interval
  <2> QED
    BY <1>3, <2>1, FS_Subset
<1>6. \E m \in opens : \A o \in opens : m >= o
  <2> HIDE DEF opens
  <2> QED
    BY <1>4, <1>5, FiniteIsBounded DEF Bounded
<1>7. Max(opens) \in opens
  <2> HIDE DEF opens
  <2> QED
    BY <1>6 DEF Max
<1>8. PICK m \in opens : m = OpenedBefore(length, EntryTime(i))
  BY <1>7 DEF OpenedBefore, t
<1>9. PICK j \in Nat : m = j * length
  <2>1. m \in Nat /\ m % length = 0
    BY <1>3
  <2> QED
    BY <1>1, <2>1, WholeMultiple
<1>10. m = (j * d) * H4 /\ j * d \in Int
  BY <1>1, <1>2, <1>9
<1>11. (j * d) * H4 + H4 <= (k + i) * H4
  <2>1. (j * d) * H4 < (k + i) * H4 /\ k + i \in Int
    BY <1>3, <1>10
  <2> QED
    BY <1>1, <1>10, <2>1, MultiplesOrder
<1> QED
  BY <1>3, <1>8, <1>10, <1>11 DEF t

LEMMA EntryIsPast ==
  ASSUME NEW length \in {H4, D1}, NEW ts \in Nat
  PROVE  /\ Lookup(length, ts) = {} <=> ts < Lookback
         /\ \A e \in Lookup(length, ts) :
              /\ e.ts \in Int /\ e.bar \in Int /\ e.ts <= ts /\ e.bar + H4 <= ts
              /\ e.ts + H4 <= ts => e.ts + H4 > LastOpen(length)
<1>1. CASE ts < Lookback
  BY <1>1, LookupFinds
<1>2. CASE Lookback <= ts
  <2>1. PICK i : Rightmost(Entries(length), ts, i) /\ Lookup(length, ts) = {CacheEntry(length, i)}
    BY <1>2, LookupFinds
  <2>2. i \in Nat /\ i + 1 \in Nat /\ Entries(length) \in Nat
    BY <2>1, FileReaches DEF Rightmost
  <2> DEFINE bar == OpenedBefore(length, EntryTime(i))
  <2>3. bar \in Nat /\ bar + H4 <= EntryTime(i) /\ H4 \in Nat /\ EntryTime(i) \in Int
    <3>1. bar \in Nat /\ bar + H4 <= EntryTime(i)
      BY <2>2, BarIsPast
    <3>2. H4 \in Nat /\ EntryTime(i) \in Int
      BY <2>2, EntriesInOrder
    <3> QED
      BY <3>1, <3>2
  <2>4. EntryTime(i) <= ts /\ EntryTime(i + 1) = EntryTime(i) + H4
    <3>1. (i + 1) * H4 = i * H4 + H4 /\ i * H4 \in Int /\ Lookback \in Int
      BY <2>2, <2>3, EntriesInOrder
    <3>2. EntryTime(i + 1) = EntryTime(i) + H4
      BY <2>3, <3>1 DEF EntryTime
    <3> QED
      BY <2>1, <3>2 DEF Rightmost
  <2>5. EntryTime(i) + H4 <= ts => EntryTime(i) + H4 > LastOpen(length)
    <3>1. SUFFICES ASSUME EntryTime(i) + H4 <= ts PROVE EntryTime(i) + H4 > LastOpen(length)
      OBVIOUS
    <3>2. i + 1 = Entries(length)
      BY <2>1, <2>2, <2>3, <2>4, <3>1 DEF Rightmost
    <3> QED
      BY <2>3, <2>4, <3>2, FileReaches
  <2>6. CacheEntry(length, i) = [ts |-> EntryTime(i), bar |-> bar]
    BY DEF CacheEntry
  <2> HIDE DEF bar
  <2>7. ~(ts < Lookback)
    BY <1>2, EntriesInOrder
  <2> QED
    BY <2>1, <2>3, <2>4, <2>5, <2>6, <2>7
<1> QED
  BY <1>1, <1>2, EntriesInOrder

\* What an engine remembers of an hour is what every bar of that hour finds.
CacheInv ==
  /\ \A ts \in 0 .. DataEnd : HourKey(ts) \in DOMAIN memory => memory[HourKey(ts)] = Lookup(H4, ts)
  /\ \A a \in answered : \E ts \in 0 .. DataEnd :
       a = [ts |-> ts, direction |-> Lookup(H4, ts), regime |-> Lookup(D1, ts)]

LEMMA CacheInvPast == CacheInv => CachesSeeThePast
<1> SUFFICES ASSUME CacheInv, NEW a \in answered
             PROVE  /\ (a.direction = {} <=> a.ts < Lookback) /\ (a.regime = {} <=> a.ts < Lookback)
                    /\ \A e \in a.direction \cup a.regime : e.ts <= a.ts
                    /\ \A e \in a.direction :
                         e.bar + H4 <= a.ts /\ (e.ts + H4 <= a.ts => e.ts + H4 > LastOpen(H4))
                    /\ \A e \in a.regime :
                         e.bar <= a.ts - H4 /\ (e.ts + H4 <= a.ts => e.ts + H4 > LastOpen(D1))
  BY DEF CachesSeeThePast
<1>1. PICK ts \in 0 .. DataEnd :
        a = [ts |-> ts, direction |-> Lookup(H4, ts), regime |-> Lookup(D1, ts)]
  BY DEF CacheInv
<1>2. ts \in Nat /\ a.ts = ts /\ a.direction = Lookup(H4, ts) /\ a.regime = Lookup(D1, ts)
  BY <1>1, Lengths
<1>3. H4 \in Nat /\ \A e : e.bar \in Int /\ e.bar + H4 <= ts => e.bar <= ts - H4
  BY <1>2, Lengths
<1>4. /\ a.direction = {} <=> a.ts < Lookback
      /\ \A e \in a.direction : /\ e.ts <= a.ts /\ e.bar + H4 <= a.ts
                                /\ e.ts + H4 <= a.ts => e.ts + H4 > LastOpen(H4)
  BY <1>2, EntryIsPast
<1>5. /\ a.regime = {} <=> a.ts < Lookback
      /\ \A e \in a.regime : /\ e.ts <= a.ts /\ e.bar \in Int /\ e.bar + H4 <= a.ts
                             /\ e.ts + H4 <= a.ts => e.ts + H4 > LastOpen(D1)
  BY <1>2, EntryIsPast
<1>6. \A e \in a.regime : e.bar <= a.ts - H4
  BY <1>2, <1>3, <1>5
<1> QED
  BY <1>4, <1>5, <1>6

LEMMA CacheStep == CacheInv /\ [LiveAiNext \/ CacheNext]_aiVars => CacheInv'
<1> SUFFICES ASSUME CacheInv, [LiveAiNext \/ CacheNext]_aiVars PROVE CacheInv'
  OBVIOUS
<1>1. CASE UNCHANGED cacheVars
  BY <1>1 DEF CacheInv, cacheVars
<1>2. CASE NewEngine
  BY <1>2 DEF NewEngine, CacheInv
<1>3. ASSUME NEW ts \in 0 .. DataEnd, NEW hit \in BOOLEAN, Ask(ts, hit) PROVE CacheInv'
  <2> DEFINE direction == GetDirection(ts, hit)
  <2>1. direction = Lookup(H4, ts)
    BY <1>3 DEF GetDirection, CacheInv, Ask
  <2>2. /\ memory' = [h \in DOMAIN memory \cup {HourKey(ts)} |->
                        IF h = HourKey(ts) THEN direction ELSE memory[h]]
        /\ answered' = {[ts |-> ts, direction |-> direction, regime |-> Lookup(D1, ts)]}
    BY <1>3 DEF Ask
  <2> HIDE DEF direction
  <2>3. ASSUME NEW s \in 0 .. DataEnd, HourKey(s) \in DOMAIN memory'
        PROVE  memory'[HourKey(s)] = Lookup(H4, s)
    <3>1. CASE HourKey(s) = HourKey(ts)
      <4>1. s \in Nat /\ ts \in Nat
        BY Lengths
      <4>2. Lookup(H4, s) = Lookup(H4, ts)
        BY <3>1, <4>1, SameHour
      <4> QED
        BY <2>1, <2>2, <3>1, <4>2
    <3>2. CASE HourKey(s) # HourKey(ts)
      <4>1. HourKey(s) \in DOMAIN memory /\ memory'[HourKey(s)] = memory[HourKey(s)]
        BY <2>2, <2>3, <3>2
      <4> QED
        BY <4>1 DEF CacheInv
    <3> QED
      BY <3>1, <3>2
  <2> QED
    BY <2>1, <2>2, <2>3 DEF CacheInv
<1>4. UNCHANGED aiVars \/ LiveAiNext => UNCHANGED cacheVars
  BY DEF aiVars, cacheVars, LiveAiNext
<1> QED
  BY <1>1, <1>2, <1>3, <1>4 DEF CacheNext

\* CachesSeeThePast: for every length of bars and of the lookback, and whatever an engine was
\* asked before, a bar is answered by the newest entry of the files at or before it, and a
\* direction by bars that had closed.
THEOREM CachesArePast == AiSpec => []CachesSeeThePast
<1>1. AiInit => CacheInv
  BY DEF AiInit, CacheInv
<1> QED
  BY <1>1, CacheStep, CacheInvPast, PTL DEF AiSpec

-----------------------------------------------------------------------------
\* The margin the order path commits.

PathSpec == PathInit /\ [][PathNext]_pathVars

\* The attempts a sender may still make, each of which may become a position.
Pending(s) ==
  CASE stage[s] = "checked" -> MaxAttempts
    [] stage[s] = "sending" -> MaxAttempts - attempt[s]
    [] OTHER -> 0
Committed == [s \in Senders |-> open[s] + Pending(s)]
PerCall == MarginOf([s \in Senders |-> MaxAttempts])
LeastMargin == Min({Margin[s] : s \in Senders})

PathInv ==
  /\ open \in [Senders -> Nat] /\ stage \in [Senders -> {"idle", "checked", "sending"}]
  /\ attempt \in [Senders -> 0 .. MaxAttempts]
  /\ MarginOf(Committed) <= Cap + PerCall - LeastMargin

LEMMA MarginTerms ==
  ASSUME NEW c \in [Senders -> Nat]
  PROVE  /\ [s \in Senders |-> Margin[s] * c[s]] \in [Senders -> Nat]
         /\ MarginOf(c) \in Nat
<1> DEFINE g == [s \in Senders |-> Margin[s] * c[s]]
<1>1. g \in [Senders -> Nat]
  BY OrderPathAssumption
<1> HIDE DEF g
<1>2. SumFunction(g) \in Nat
  BY <1>1, SumOfNats, OrderPathAssumption
<1> QED
  BY <1>1, <1>2 DEF g, MarginOf

LEMMA LeastIsLeast ==
  /\ LeastMargin \in Nat /\ \A s \in Senders : LeastMargin <= Margin[s]
<1> DEFINE M == {Margin[s] : s \in Senders}
<1>1. M \subseteq Int /\ M # {}
  BY OrderPathAssumption
<1>2. IsFiniteSet({Margin[s] : s \in DOMAIN Margin}) /\ DOMAIN Margin = Senders
  BY OrderPathAssumption, ImageIsFinite
<1>3. IsFiniteSet(M)
  BY <1>2
<1>4. \A s \in Senders : Margin[s] \in M
  OBVIOUS
<1>5. \A m \in M : m \in Nat
  BY OrderPathAssumption
<1> HIDE DEF M
<1>6. Min(M) \in M /\ \A y \in M : Min(M) <= y
  BY <1>1, <1>3, MaxMin
<1>7. LeastMargin = Min(M)
  BY DEF LeastMargin, M
<1> QED
  BY <1>4, <1>5, <1>6, <1>7

\* What one sender's count becomes decides what the margin becomes.
LEMMA MarginChanges ==
  ASSUME NEW c \in [Senders -> Nat], NEW d \in [Senders -> Nat], NEW t \in Senders,
         \A s \in Senders \ {t} : c[s] = d[s]
  PROVE  MarginOf(d) - Margin[t] * d[t] = MarginOf(c) - Margin[t] * c[t]
<1> DEFINE f == [s \in Senders |-> Margin[s] * c[s]]
           g == [s \in Senders |-> Margin[s] * d[s]]
<1>1. f \in [Senders -> Nat] /\ g \in [Senders -> Nat]
  BY MarginTerms
<1>2. /\ f[t] = Margin[t] * c[t] /\ g[t] = Margin[t] * d[t]
      /\ \A s \in Senders \ {t} : f[s] = g[s]
  OBVIOUS
<1> HIDE DEF f, g
<1>3. f \in [Senders -> Int] /\ g \in [Senders -> Int]
  BY <1>1
<1>4. SumFunction(f) - f[t] = SumFunction(g) - g[t]
  BY <1>2, <1>3, SumFunctionChanges, OrderPathAssumption
<1> QED
  BY <1>2, <1>4 DEF f, g, MarginOf

LEMMA MarginShrinks ==
  ASSUME NEW c \in [Senders -> Nat], NEW d \in [Senders -> Nat], NEW t \in Senders,
         \A s \in Senders \ {t} : c[s] = d[s], d[t] <= c[t]
  PROVE  MarginOf(d) <= MarginOf(c)
<1>1. MarginOf(d) - Margin[t] * d[t] = MarginOf(c) - Margin[t] * c[t]
  BY MarginChanges
<1>2. Margin[t] * d[t] <= Margin[t] * c[t] /\ Margin[t] * d[t] \in Nat /\ Margin[t] * c[t] \in Nat
  BY OrderPathAssumption
<1>3. MarginOf(c) \in Nat /\ MarginOf(d) \in Nat
  BY MarginTerms
<1> QED
  BY <1>1, <1>2, <1>3

LEMMA MarginAdds ==
  ASSUME NEW c \in [Senders -> Nat], NEW d \in [Senders -> Nat], NEW e \in [Senders -> Nat],
         \A s \in Senders : c[s] <= d[s] + e[s]
  PROVE  MarginOf(c) <= MarginOf(d) + MarginOf(e)
<1> DEFINE f == [s \in Senders |-> Margin[s] * c[s]]
           g == [s \in Senders |-> Margin[s] * d[s]]
           k == [s \in Senders |-> Margin[s] * e[s]]
<1>1. f \in [Senders -> Nat] /\ g \in [Senders -> Nat] /\ k \in [Senders -> Nat]
  BY MarginTerms
<1>2. \A s \in Senders : f[s] <= g[s] + k[s]
  <2> TAKE s \in Senders
  <2>1. Margin[s] \in Nat /\ c[s] \in Nat /\ d[s] \in Nat /\ e[s] \in Nat /\ c[s] <= d[s] + e[s]
    BY OrderPathAssumption
  <2>2. \A m, x, y, z \in Nat : x <= y + z => m * x <= m * y + m * z
    OBVIOUS
  <2> QED
    BY <2>1, <2>2
<1> HIDE DEF f, g, k
<1>3. f \in [Senders -> Int] /\ g \in [Senders -> Int] /\ k \in [Senders -> Int]
  BY <1>1
<1>4. SumFunction(f) <= SumFunction(g) + SumFunction(k)
  BY <1>2, <1>3, SumFunctionAtMost, OrderPathAssumption
<1> QED
  BY <1>4 DEF f, g, k, MarginOf

LEMMA CommittedIsNat ==
  ASSUME open \in [Senders -> Nat], stage \in [Senders -> {"idle", "checked", "sending"}],
         attempt \in [Senders -> 0 .. MaxAttempts]
  PROVE  /\ Committed \in [Senders -> Nat]
         /\ \A s \in Senders : /\ Pending(s) \in 0 .. MaxAttempts /\ open[s] \in Nat
                               /\ Committed[s] = open[s] + Pending(s)
<1>1. \A s \in Senders : Pending(s) \in 0 .. MaxAttempts
  BY OrderPathAssumption DEF Pending
<1>2. \A s \in Senders : open[s] + Pending(s) \in Nat
  BY <1>1, OrderPathAssumption
<1> QED
  BY <1>1, <1>2 DEF Committed

LEMMA PerCallIsNat == PerCall \in Nat
<1> DEFINE k == [s \in Senders |-> MaxAttempts]
<1>1. k \in [Senders -> Nat]
  BY OrderPathAssumption
<1> HIDE DEF k
<1> QED
  BY <1>1, MarginTerms DEF PerCall, k

LEMMA PathStart == PathInit => PathInv
<1> SUFFICES ASSUME PathInit PROVE PathInv
  OBVIOUS
<1>1. /\ open \in [Senders -> Nat] /\ stage \in [Senders -> {"idle", "checked", "sending"}]
      /\ attempt \in [Senders -> 0 .. MaxAttempts] /\ \A s \in Senders : Committed[s] = 0
  BY OrderPathAssumption DEF PathInit, Committed, Pending
<1>2. MarginOf(Committed) = 0
  <2> DEFINE g == [s \in Senders |-> Margin[s] * Committed[s]]
  <2>1. g \in [Senders -> Int] /\ \A s \in Senders : g[s] = 0
    BY <1>1, OrderPathAssumption
  <2> HIDE DEF g
  <2>2. SumFunction(g) = 0
    BY <2>1, SumOfZeros, OrderPathAssumption
  <2> QED
    BY <2>2 DEF MarginOf, g
<1>3. LeastMargin <= PerCall
  <2>1. PICK t \in Senders : TRUE
    BY OrderPathAssumption
  <2> DEFINE c == [s \in Senders |-> MaxAttempts]
             d == [c EXCEPT ![t] = 0]
  <2>2. /\ c \in [Senders -> Nat] /\ d \in [Senders -> Nat] /\ c[t] = MaxAttempts /\ d[t] = 0
        /\ \A s \in Senders \ {t} : c[s] = d[s]
    BY OrderPathAssumption
  <2>3. PerCall = MarginOf(c)
    BY DEF PerCall
  <2> HIDE DEF c, d
  <2>4. MarginOf(d) - Margin[t] * d[t] = MarginOf(c) - Margin[t] * c[t]
    BY <2>2, MarginChanges
  <2>5. MarginOf(d) \in Nat /\ MarginOf(c) \in Nat
    BY <2>2, MarginTerms
  <2>6. /\ Margin[t] * d[t] = 0 /\ Margin[t] <= Margin[t] * c[t] /\ Margin[t] * c[t] \in Nat
        /\ Margin[t] \in Nat
    BY <2>2, OrderPathAssumption
  <2>7. LeastMargin <= Margin[t] /\ LeastMargin \in Nat
    BY LeastIsLeast
  <2> QED
    BY <2>3, <2>4, <2>5, <2>6, <2>7
<1> QED
  BY <1>1, <1>2, <1>3, PerCallIsNat, LeastIsLeast, OrderPathAssumption DEF PathInv

\* A step that adds nothing to what is committed keeps the bound.
LEMMA CommitsNoMore ==
  ASSUME PathInv, NEW t \in Senders,
         open' \in [Senders -> Nat], stage' \in [Senders -> {"idle", "checked", "sending"}],
         attempt' \in [Senders -> 0 .. MaxAttempts],
         \A s \in Senders \ {t} : open'[s] = open[s] /\ stage'[s] = stage[s] /\ attempt'[s] = attempt[s],
         open'[t] + Pending(t)' <= open[t] + Pending(t)
  PROVE  PathInv'
<1>1. Committed \in [Senders -> Nat] /\ \A s \in Senders : Committed[s] = open[s] + Pending(s)
  BY CommittedIsNat DEF PathInv
<1>2. Committed' = [s \in Senders |-> open'[s] + Pending(s)']
  BY DEF Committed
<1>3. \A s \in Senders : Pending(s)' \in 0 .. MaxAttempts /\ open'[s] \in Nat
  BY OrderPathAssumption DEF Pending
<1>4. Committed' \in [Senders -> Nat] /\ \A s \in Senders : Committed'[s] = open'[s] + Pending(s)'
  BY <1>2, <1>3
<1>5. \A s \in Senders \ {t} : Committed'[s] = Committed[s]
  <2> TAKE s \in Senders \ {t}
  <2>1. open'[s] = open[s] /\ Pending(s)' = Pending(s)
    BY DEF Pending
  <2> QED
    BY <1>1, <1>4, <2>1
<1>6. Committed'[t] <= Committed[t]
  BY <1>1, <1>4
<1> DEFINE c == Committed
           d == Committed'
<1>7. MarginOf(d) <= MarginOf(c) /\ MarginOf(d) \in Nat /\ MarginOf(c) \in Nat
  <2>1. /\ c \in [Senders -> Nat] /\ d \in [Senders -> Nat]
        /\ \A s \in Senders \ {t} : c[s] = d[s] /\ d[t] <= c[t]
    BY <1>1, <1>4, <1>5, <1>6
  <2>2. d[t] <= c[t]
    BY <1>6
  <2> HIDE DEF c, d
  <2> QED
    BY <2>1, <2>2, MarginShrinks, MarginTerms
<1>8. PerCall' = PerCall /\ LeastMargin' = LeastMargin /\ MarginOf(Committed)' = MarginOf(d)
  BY DEF PerCall, LeastMargin, MarginOf
<1>9. MarginOf(c) <= Cap + PerCall - LeastMargin
  BY DEF PathInv
<1>10. MarginOf(Committed)' <= Cap + PerCall - LeastMargin
  <2> HIDE DEF c, d
  <2> QED
    BY <1>7, <1>8, <1>9, PerCallIsNat, LeastIsLeast, OrderPathAssumption
<1> QED
  BY <1>8, <1>10 DEF PathInv

\* Whoever finds room for his order adds no more than a call, and what the others may
\* still send is no more than a call of each.
LEMMA CheckKeepsRoom ==
  ASSUME PathInv, NEW t \in Senders, CheckMarginCap(t)
  PROVE  PathInv'
<1>0. /\ open \in [Senders -> Nat] /\ stage \in [Senders -> {"idle", "checked", "sending"}]
      /\ attempt \in [Senders -> 0 .. MaxAttempts]
  BY DEF PathInv
<1>1. /\ open' = open /\ attempt' = attempt
      /\ stage' \in [Senders -> {"idle", "checked", "sending"}]
      /\ MarginOf(open) + Margin[t] <= Cap
  BY <1>0 DEF CheckMarginCap, Advance, WithinCap, MarginUsed
<1>2. \A s \in Senders : Pending(s)' \in 0 .. MaxAttempts
  BY <1>0, <1>1, OrderPathAssumption DEF Pending
<1> DEFINE d == Committed'
           k == [s \in Senders |-> MaxAttempts]
<1>3. d = [s \in Senders |-> open[s] + Pending(s)']
  BY <1>1 DEF Committed
<1>4. /\ d \in [Senders -> Nat] /\ k \in [Senders -> Nat]
      /\ \A s \in Senders : d[s] <= open[s] + k[s]
  BY <1>0, <1>2, <1>3, OrderPathAssumption
<1>5. PerCall = MarginOf(k)
  BY DEF PerCall
<1> HIDE DEF d, k
<1>6. MarginOf(d) <= MarginOf(open) + MarginOf(k)
  BY <1>0, <1>4, MarginAdds
<1>7. MarginOf(d) \in Nat /\ MarginOf(open) \in Nat /\ LeastMargin <= Margin[t] /\ LeastMargin \in Nat
  BY <1>0, <1>4, MarginTerms, LeastIsLeast
<1>8. MarginOf(d) <= Cap + PerCall - LeastMargin
  BY <1>1, <1>5, <1>6, <1>7, PerCallIsNat, OrderPathAssumption
<1>9. PerCall' = PerCall /\ LeastMargin' = LeastMargin /\ MarginOf(Committed)' = MarginOf(d)
  BY DEF PerCall, LeastMargin, MarginOf, d
<1> QED
  BY <1>0, <1>1, <1>8, <1>9 DEF PathInv

LEMMA PathStep == PathInv /\ [PathNext]_pathVars => PathInv'
<1> SUFFICES ASSUME PathInv, [PathNext]_pathVars PROVE PathInv'
  OBVIOUS
<1>0. /\ open \in [Senders -> Nat] /\ stage \in [Senders -> {"idle", "checked", "sending"}]
      /\ attempt \in [Senders -> 0 .. MaxAttempts]
      /\ MaxAttempts \in Nat \ {0}
  BY OrderPathAssumption DEF PathInv
<1>1. CASE UNCHANGED pathVars
  <2>1. PICK t \in Senders : TRUE
    BY OrderPathAssumption
  <2>2. Pending(t)' = Pending(t) /\ open' = open /\ stage' = stage /\ attempt' = attempt
    BY <1>1 DEF pathVars, Pending
  <2>3. open'[t] + Pending(t)' <= open[t] + Pending(t)
    BY <1>0, <2>2, CommittedIsNat
  <2> QED
    BY <1>0, <2>2, <2>3, CommitsNoMore
<1>2. CASE PathNext
  <2>1. PICK t \in Senders :
          \/ CheckMarginCap(t) \/ BeginSend(t) \/ SendDone(t) \/ SendMarketClosed(t)
          \/ SendFailed(t) \/ OpenCircuit(t) \/ ResetCircuitBreaker(t) \/ PositionCloses(t)
    BY <1>2 DEF PathNext
  <2>2. CASE CheckMarginCap(t)
    BY <2>2, CheckKeepsRoom
  <2> DEFINE Frame == \A s \in Senders \ {t} :
                        open'[s] = open[s] /\ stage'[s] = stage[s] /\ attempt'[s] = attempt[s]
             Types == /\ open' \in [Senders -> Nat] /\ stage' \in [Senders -> {"idle", "checked", "sending"}]
                      /\ attempt' \in [Senders -> 0 .. MaxAttempts]
             Less == open'[t] + Pending(t)' <= open[t] + Pending(t)
  <2>3. Frame /\ Types /\ Less => PathInv'
    BY CommitsNoMore
  <2>4. CASE BeginSend(t)
    <3>1. Frame /\ Types
      BY <1>0, <2>4 DEF BeginSend, Advance
    <3>2. Less
      BY <1>0, <2>4 DEF BeginSend, Advance, Pending
    <3> QED
      BY <2>3, <3>1, <3>2
  <2>5. CASE SendDone(t)
    <3>1. Frame /\ Types
      BY <1>0, <2>5 DEF SendDone, TryOnce, Advance
    <3>2. Less
      BY <1>0, <2>5 DEF SendDone, TryOnce, Advance, Pending
    <3> QED
      BY <2>3, <3>1, <3>2
  <2>6. CASE SendMarketClosed(t)
    <3>1. Frame /\ Types
      BY <1>0, <2>6 DEF SendMarketClosed, TryOnce, Advance
    <3>2. Less
      BY <1>0, <2>6 DEF SendMarketClosed, TryOnce, Advance, Pending
    <3> QED
      BY <2>3, <3>1, <3>2
  <2>7. CASE SendFailed(t)
    <3>1. Frame /\ Types
      BY <1>0, <2>7 DEF SendFailed, TryOnce
    <3>2. Less
      BY <1>0, <2>7 DEF SendFailed, TryOnce, Pending
    <3> QED
      BY <2>3, <3>1, <3>2
  <2>8. CASE OpenCircuit(t)
    <3>1. Frame /\ Types
      BY <1>0, <2>8 DEF OpenCircuit, Advance
    <3>2. Less
      BY <1>0, <2>8 DEF OpenCircuit, Advance, Pending
    <3> QED
      BY <2>3, <3>1, <3>2
  <2>9. CASE ResetCircuitBreaker(t)
    <3>1. Frame /\ Types
      BY <1>0, <2>9 DEF ResetCircuitBreaker
    <3>2. Less
      BY <1>0, <2>9 DEF ResetCircuitBreaker, Pending
    <3> QED
      BY <2>3, <3>1, <3>2
  <2>10. CASE PositionCloses(t)
    <3>1. Frame /\ Types
      BY <1>0, <2>10 DEF PositionCloses
    <3>2. Less
      BY <1>0, <2>10 DEF PositionCloses, Pending
    <3> QED
      BY <2>3, <3>1, <3>2
  <2> QED
    BY <2>1, <2>2, <2>4, <2>5, <2>6, <2>7, <2>8, <2>9, <2>10
<1> QED
  BY <1>1, <1>2

\* The margin in use never exceeds the cap by more than what one call of every sender can
\* send, less the smallest order: check_margin_cap holds nothing until the order is sent,
\* and send_with_retry may fill each of its attempts.  For every number of senders, every
\* margin of theirs and every number of attempts.
THEOREM ExposureIsBounded == PathSpec => []ExposureBounded
<1>1. PathInv => ExposureBounded
  <2> SUFFICES ASSUME PathInv PROVE ExposureBounded
    OBVIOUS
  <2>0. open \in [Senders -> Nat]
    BY DEF PathInv
  <2>1. Committed \in [Senders -> Nat] /\ \A s \in Senders : open[s] <= Committed[s]
    BY CommittedIsNat, OrderPathAssumption DEF PathInv
  <2> DEFINE none == [s \in Senders |-> 0]
  <2>2. none \in [Senders -> Nat] /\ \A s \in Senders : none[s] = 0
    OBVIOUS
  <2>3. MarginOf(none) = 0
    <3> DEFINE g == [s \in Senders |-> Margin[s] * none[s]]
    <3>1. g \in [Senders -> Int] /\ \A s \in Senders : g[s] = 0
      BY <2>2, OrderPathAssumption
    <3>2. MarginOf(none) = SumFunction(g)
      BY DEF MarginOf
    <3> HIDE DEF g
    <3> QED
      BY <3>1, <3>2, SumOfZeros, OrderPathAssumption
  <2> HIDE DEF none
  <2> DEFINE c == Committed
  <2>4. c \in [Senders -> Nat] /\ \A s \in Senders : open[s] <= c[s] + none[s]
    BY <2>0, <2>1, <2>2
  <2>5. MarginOf(c) <= Cap + PerCall - LeastMargin
    BY DEF PathInv
  <2> HIDE DEF c
  <2>6. MarginOf(open) <= MarginOf(c) + MarginOf(none)
    BY <2>0, <2>2, <2>4, MarginAdds
  <2>7. MarginOf(open) \in Nat /\ MarginOf(c) \in Nat
    BY <2>0, <2>4, MarginTerms
  <2>8. MarginOf(open) <= Cap + PerCall - LeastMargin
    BY <2>3, <2>5, <2>6, <2>7, PerCallIsNat, LeastIsLeast, OrderPathAssumption
  <2> QED
    BY <2>8 DEF ExposureBounded, MarginUsed, PerCall, LeastMargin
<1> QED
  BY <1>1, PathStart, PathStep, PTL DEF PathSpec
=============================================================================
