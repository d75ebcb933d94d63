------------------------- MODULE QueryMetricsProofs -------------------------
(***************************************************************************)
(* The windows of the metric loop lose and repeat no query, for any number *)
(* of query goroutines and any buckets.  The sums are folds, of which the  *)
(* first part shows that they exist and what changes them.                 *)
(***************************************************************************)
EXTENDS QueryMetrics, FiniteSetTheorems, WellFoundedInduction, TLAPS

-----------------------------------------------------------------------------
(* Induction over numbers and over finite sets, for a set of the things a  *)
(* claim holds of.                                                         *)

Less == {ss \in Nat \X Nat : ss[1] < ss[2]}

LEMMA LessIsWellFounded == IsWellFoundedOn(Less, Nat)
BY NatLessThanWellFounded DEF OpToRel, Less

LEMMA NumberInduction ==
  ASSUME NEW P, 0 \in P, \A n \in Nat : n \in P => n + 1 \in P
  PROVE  Nat \subseteq P
<1>. DEFINE T == Nat \ P
<1>. SUFFICES ASSUME T # {} PROVE FALSE
  OBVIOUS
<1>1. PICK x \in T : \A y \in T : ~(<<y, x>> \in Less)
  <2>. HIDE DEF T
  <2>1. T \subseteq Nat
    BY DEF T
  <2>. QED BY <2>1, LessIsWellFounded, WFMin
<1>2. x \in Nat /\ x # 0 /\ x - 1 \in Nat
  BY <1>1
<1>3. x - 1 \in P
  <2>1. <<x - 1, x>> \in Less
    BY <1>2, x - 1 < x DEF Less
  <2>. QED BY <1>1, <1>2, <2>1
<1>4. (x - 1) + 1 = x
  BY <1>2
<1>. QED BY <1>1, <1>2, <1>3, <1>4

LEMMA SubsetInduction ==
  ASSUME NEW S, IsFiniteSet(S), NEW P, {} \in P,
         \A s \in SUBSET S : s # {} /\ (\A x \in s : s \ {x} \in P) => s \in P
  PROVE  SUBSET S \subseteq P
<1>. DEFINE T == (SUBSET S) \ P
            R == StrictSubsetOrdering(S)
<1>. SUFFICES ASSUME T # {} PROVE FALSE
  OBVIOUS
<1>1. IsWellFoundedOn(R, SUBSET S)
  BY FS_StrictSubsetOrderingWellFounded, FS_FiniteSubsetsOfFinite
<1>2. PICK s \in T : \A r \in T : ~(<<r, s>> \in R)
  <2>. HIDE DEF T, R
  <2>1. T \subseteq SUBSET S
    BY DEF T
  <2>. QED BY <1>1, <2>1, WFMin
<1>3. ASSUME NEW x \in s
      PROVE  s \ {x} \in P
  <2>1. s \ {x} \in SUBSET S /\ s \ {x} \subseteq s /\ s \ {x} # s
    BY <1>2
  <2>2. <<s \ {x}, s>> \in R
    BY <1>2, <2>1 DEF StrictSubsetOrdering
  <2>. QED BY <1>2, <2>1, <2>2
<1>. QED BY <1>2, <1>3

\* Min, of any set of natural numbers.
LEMMA MinOf ==
  ASSUME NEW S \in SUBSET Nat, S # {}
  PROVE  Min(S) \in S /\ \A y \in S : Min(S) <= y
<1>1. PICK x \in S : \A y \in S : ~(<<y, x>> \in Less)
  BY LessIsWellFounded, WFMin
<1>2. ASSUME NEW y \in S
      PROVE  x <= y
  <2>1. <<y, x>> \notin Less
    BY <1>1
  <2>2. x \in Nat /\ y \in Nat /\ ~(y < x)
    BY <2>1 DEF Less
  <2>. QED BY <2>2
<1>. QED BY <1>1, <1>2 DEF Min

-----------------------------------------------------------------------------
(* Sums.                                                                   *)

Some(s) == CHOOSE x \in s : TRUE

\* g is the sum of f over every subset of S.
Sums(g, f, S) ==
  g = [s \in SUBSET S |-> IF s = {} THEN 0 ELSE f[Some(s)] + g[s \ {Some(s)}]]

LEMMA SumsExist ==
  ASSUME NEW S, IsFiniteSet(S), NEW f
  PROVE  \E g : Sums(g, f, S)
<1>. DEFINE Small(n) == {s \in SUBSET S : Cardinality(s) <= n}
            Upto(g, n) == \A s \in Small(n) :
              g[s] = IF s = {} THEN 0 ELSE f[Some(s)] + g[s \ {Some(s)}]
            P == {n \in Nat : \E g : Upto(g, n)}
<1>1. \A s \in SUBSET S : IsFiniteSet(s) /\ Cardinality(s) \in Nat
                         /\ Cardinality(s) <= Cardinality(S)
  BY FS_Subset, FS_CardinalityType
<1>2. \A s \in SUBSET S : Cardinality(s) = 0 => s = {}
  BY <1>1, FS_EmptySet
<1>3. 0 \in P
  <2>. DEFINE g == [s \in SUBSET S |-> 0]
  <2>1. \A s \in Small(0) : s = {} /\ g[s] = 0
    BY <1>1, <1>2
  <2>2. Upto(g, 0)
    BY <2>1
  <2>. QED BY <2>2
<1>4. ASSUME NEW n \in Nat, n \in P
      PROVE  n + 1 \in P
  <2>1. PICK g : Upto(g, n)
    BY <1>4
  <2>. DEFINE h == [s \in SUBSET S |-> IF s = {} THEN 0
                                       ELSE f[Some(s)] + g[s \ {Some(s)}]]
  <2>2. \A s \in Small(n) : h[s] = g[s]
    BY <2>1
  <2>3. ASSUME NEW s \in Small(n + 1), s # {}
        PROVE  s \ {Some(s)} \in Small(n)
    <3>1. Some(s) \in s
      BY <2>3 DEF Some
    <3>2. Cardinality(s \ {Some(s)}) = Cardinality(s) - 1
      BY <1>1, <3>1, FS_RemoveElement
    <3>. QED BY <1>1, <3>2
  <2>4. ASSUME NEW s \in Small(n + 1)
        PROVE  h[s] = IF s = {} THEN 0 ELSE f[Some(s)] + h[s \ {Some(s)}]
    BY <2>2, <2>3
  <2>5. Upto(h, n + 1)
    BY <2>4
  <2>6. \E k : Upto(k, n + 1)
    <3>. HIDE DEF Upto, h
    <3>. QED BY <2>5
  <2>7. n + 1 \in Nat
    OBVIOUS
  <2>. QED BY <2>6, <2>7
<1>5. Nat \subseteq P
  <2>. HIDE DEF P
  <2>. QED BY <1>3, <1>4, NumberInduction
<1>6. Cardinality(S) \in P
  BY <1>1, <1>5
<1>7. PICK g : Upto(g, Cardinality(S))
  BY <1>6
<1>. DEFINE h == [s \in SUBSET S |-> g[s]]
<1>8. \A s \in SUBSET S :
        g[s] = IF s = {} THEN 0 ELSE f[Some(s)] + g[s \ {Some(s)}]
  BY <1>1, <1>7
<1>9. Sums(h, f, S)
  BY <1>8 DEF Sums
<1>. QED BY <1>9

\* The fold is such a sum.
LEMMA SumIsFold ==
  ASSUME NEW S, IsFiniteSet(S), NEW f
  PROVE  \E g : Sums(g, f, S) /\ SumFunctionOnSet(f, S) = g[S]
<1>. DEFINE G == CHOOSE g : Sums(g, f, S)
<1>1. Sums(G, f, S)
  BY SumsExist
<1>2. SumFunctionOnSet(f, S) = G[S]
  BY DEF SumFunctionOnSet, FoldFunctionOnSet, MapThenFoldSet, Sums, Some
<1>. QED BY <1>1, <1>2

LEMMA SumsUnfold ==
  ASSUME NEW S, NEW f, NEW g, Sums(g, f, S)
  PROVE  /\ g[{}] = 0
         /\ \A s \in SUBSET S : s # {} =>
              Some(s) \in s /\ g[s] = f[Some(s)] + g[s \ {Some(s)}]
BY DEF Sums, Some

LEMMA SumIsNat ==
  ASSUME NEW S, IsFiniteSet(S), NEW f, \A x \in S : f[x] \in Nat
  PROVE  SumFunctionOnSet(f, S) \in Nat
<1>1. PICK g : Sums(g, f, S) /\ SumFunctionOnSet(f, S) = g[S]
  BY SumIsFold
<1>. DEFINE P == {s \in SUBSET S : g[s] \in Nat}
<1>2. {} \in P
  BY <1>1, SumsUnfold
<1>3. ASSUME NEW s \in SUBSET S, s # {}, \A x \in s : s \ {x} \in P
      PROVE  s \in P
  <2>1. Some(s) \in s /\ g[s] = f[Some(s)] + g[s \ {Some(s)}]
    BY <1>1, <1>3, SumsUnfold
  <2>2. s \ {Some(s)} \in P
    BY <1>3, <2>1
  <2>3. f[Some(s)] \in Nat
    BY <2>1
  <2>. QED BY <2>1, <2>2, <2>3
<1>4. SUBSET S \subseteq P
  <2>. HIDE DEF P
  <2>. QED BY <1>2, <1>3, SubsetInduction
<1>. QED BY <1>1, <1>4

LEMMA SumOfZeros ==
  ASSUME NEW S, IsFiniteSet(S), NEW f, \A x \in S : f[x] = 0
  PROVE  SumFunctionOnSet(f, S) = 0
<1>1. PICK g : Sums(g, f, S) /\ SumFunctionOnSet(f, S) = g[S]
  BY SumIsFold
<1>. DEFINE P == {s \in SUBSET S : g[s] = 0}
<1>2. {} \in P
  BY <1>1, SumsUnfold
<1>3. ASSUME NEW s \in SUBSET S, s # {}, \A x \in s : s \ {x} \in P
      PROVE  s \in P
  <2>1. Some(s) \in s /\ g[s] = f[Some(s)] + g[s \ {Some(s)}]
    BY <1>1, <1>3, SumsUnfold
  <2>2. s \ {Some(s)} \in P
    BY <1>3, <2>1
  <2>3. f[Some(s)] = 0
    BY <2>1
  <2>. QED BY <2>1, <2>2, <2>3
<1>4. SUBSET S \subseteq P
  <2>. HIDE DEF P
  <2>. QED BY <1>2, <1>3, SubsetInduction
<1>. QED BY <1>1, <1>4

LEMMA SumIsMonotone ==
  ASSUME NEW S, IsFiniteSet(S), NEW f, NEW h,
         \A x \in S : f[x] \in Nat /\ h[x] \in Nat /\ f[x] <= h[x]
  PROVE  SumFunctionOnSet(f, S) <= SumFunctionOnSet(h, S)
<1>1. PICK g : Sums(g, f, S) /\ SumFunctionOnSet(f, S) = g[S]
  BY SumIsFold
<1>2. PICK k : Sums(k, h, S) /\ SumFunctionOnSet(h, S) = k[S]
  BY SumIsFold
<1>. DEFINE P == {s \in SUBSET S : g[s] \in Nat /\ k[s] \in Nat /\ g[s] <= k[s]}
<1>3. {} \in P
  BY <1>1, <1>2, SumsUnfold
<1>4. ASSUME NEW s \in SUBSET S, s # {}, \A x \in s : s \ {x} \in P
      PROVE  s \in P
  <2>1. /\ Some(s) \in s /\ g[s] = f[Some(s)] + g[s \ {Some(s)}]
        /\ k[s] = h[Some(s)] + k[s \ {Some(s)}]
    BY <1>1, <1>2, <1>4, SumsUnfold
  <2>. QED BY <1>4, <2>1
<1>5. SUBSET S \subseteq P
  <2>. HIDE DEF P
  <2>. QED BY <1>3, <1>4, SubsetInduction
<1>. QED BY <1>1, <1>2, <1>5

LEMMA SumOfOneMore ==
  ASSUME NEW S, IsFiniteSet(S), NEW f, NEW h, NEW b \in S,
         \A x \in S : f[x] \in Nat /\ h[x] = IF x = b THEN f[x] + 1 ELSE f[x]
  PROVE  SumFunctionOnSet(h, S) = SumFunctionOnSet(f, S) + 1
<1>1. PICK g : Sums(g, f, S) /\ SumFunctionOnSet(f, S) = g[S]
  BY SumIsFold
<1>2. PICK k : Sums(k, h, S) /\ SumFunctionOnSet(h, S) = k[S]
  BY SumIsFold
<1>. DEFINE P == {s \in SUBSET S : g[s] \in Nat
                                 /\ k[s] = IF b \in s THEN g[s] + 1 ELSE g[s]}
<1>3. {} \in P
  BY <1>1, <1>2, SumsUnfold
<1>4. ASSUME NEW s \in SUBSET S, s # {}, \A x \in s : s \ {x} \in P
      PROVE  s \in P
  <2>1. Some(s) \in s /\ g[s] = f[Some(s)] + g[s \ {Some(s)}]
    BY <1>1, <1>4, SumsUnfold
  <2>2. k[s] = h[Some(s)] + k[s \ {Some(s)}]
    <3>1. Sums(k, h, S) /\ s # {}
      BY <1>2, <1>4
    <3>2. \A r \in SUBSET S : r # {} => k[r] = h[Some(r)] + k[r \ {Some(r)}]
      <4>. HIDE DEF P
      <4>. QED BY <3>1, SumsUnfold
    <3>. QED BY <3>1, <3>2
  <2>3. s \ {Some(s)} \in P
    BY <1>4, <2>1
  <2>4. f[Some(s)] \in Nat /\ h[Some(s)] = IF Some(s) = b THEN f[Some(s)] + 1 ELSE f[Some(s)]
    BY <2>1
  <2>5. CASE Some(s) = b
    BY <2>1, <2>2, <2>3, <2>4, <2>5
  <2>6. CASE Some(s) # b
    BY <2>1, <2>2, <2>3, <2>4, <2>6
  <2>. QED BY <2>5, <2>6
<1>5. SUBSET S \subseteq P
  <2>. HIDE DEF P
  <2>. QED BY <1>3, <1>4, SubsetInduction
<1>. QED BY <1>1, <1>2, <1>5

-----------------------------------------------------------------------------
(* Buckets and totals.                                                     *)

Counts == [Bucket -> Nat]
AtMost(f, h) == \A b \in Bucket : f[b] <= h[b]

LEMMA BucketFacts ==
  /\ Len(Bounds) \in Nat /\ DOMAIN Bounds = 1 .. Len(Bounds)
  /\ IsFiniteSet(Bucket) /\ Bucket \subseteq Nat
<1>1. Len(Bounds) \in Nat /\ DOMAIN Bounds = 1 .. Len(Bounds)
  BY BoundsAssumption DEF BoundsAssumption
<1>. QED BY <1>1, FS_Interval DEF Bucket

LEMMA BucketOfType == \A d \in Latency : BucketOf(d) \in Bucket
<1>. SUFFICES ASSUME NEW d \in Latency PROVE BucketOf(d) \in Bucket
  OBVIOUS
<1>. DEFINE S == {i \in DOMAIN Bounds : d <= Bounds[i]} \cup {Len(Bounds) + 1}
<1>1. S \in SUBSET Nat /\ S # {} /\ S \subseteq Bucket
  BY BucketFacts DEF Bucket
<1>2. Min(S) \in S
  <2>. HIDE DEF S
  <2>. QED BY <1>1, MinOf
<1>. QED BY <1>1, <1>2 DEF BucketOf

LEMMA Totals ==
  ASSUME NEW f \in Counts
  PROVE  /\ Total(f) \in Nat
         /\ (\A b \in Bucket : f[b] = 0) => Total(f) = 0
         /\ \A h \in Counts : AtMost(f, h) => Total(f) <= Total(h)
         /\ \A b \in Bucket : Total([f EXCEPT ![b] = @ + 1]) = Total(f) + 1
<1>1. \A h \in Counts : Total(h) = SumFunctionOnSet(h, Bucket)
  BY DEF Total, SumFunction, Counts
<1>2. \A b \in Bucket : f[b] \in Nat
  BY DEF Counts
<1>3. Total(f) \in Nat
  BY <1>1, <1>2, SumIsNat, BucketFacts
<1>4. ASSUME \A b \in Bucket : f[b] = 0
      PROVE  Total(f) = 0
  BY <1>1, <1>4, SumOfZeros, BucketFacts
<1>5. ASSUME NEW h \in Counts, AtMost(f, h)
      PROVE  Total(f) <= Total(h)
  <2>1. \A b \in Bucket : f[b] \in Nat /\ h[b] \in Nat /\ f[b] <= h[b]
    BY <1>5 DEF Counts, AtMost
  <2>. QED BY <1>1, <2>1, SumIsMonotone, BucketFacts
<1>6. ASSUME NEW b \in Bucket
      PROVE  Total([f EXCEPT ![b] = @ + 1]) = Total(f) + 1
  <2>. DEFINE h == [f EXCEPT ![b] = @ + 1]
  <2>1. h \in Counts
    BY DEF Counts
  <2>2. \A x \in Bucket : f[x] \in Nat /\ h[x] = IF x = b THEN f[x] + 1 ELSE f[x]
    BY DEF Counts
  <2>. HIDE DEF h
  <2>3. SumFunctionOnSet(h, Bucket) = SumFunctionOnSet(f, Bucket) + 1
    BY <2>2, SumOfOneMore, BucketFacts
  <2>4. Total(h) = Total(f) + 1
    BY <1>1, <2>1, <2>3
  <2>. QED BY <2>4 DEF h
<1>. QED BY <1>3, <1>4, <1>5, <1>6

-----------------------------------------------------------------------------
(* PercentileOf.                                                           *)

LEMMA RankFacts ==
  ASSUME NEW p \in Rank, NEW n \in Nat
  PROVE  /\ p[1] \in Nat /\ p[2] \in Nat \ {0}
         /\ (p[1] * n) \div p[2] \in Nat /\ (p[1] * n) \div p[2] <= n
         /\ ((p[1] * n) \div p[2]) * p[2] + p[2] > p[1] * n
<1>1. p[1] \in Nat /\ p[2] \in Nat \ {0} /\ p[1] <= p[2]
  BY NumbersAssumption DEF NumbersAssumption
<1>. DEFINE a == p[1] * n
            c == p[2]
            q == a \div c
<1>2. a \in Nat /\ a <= c * n
  BY <1>1
<1>. HIDE DEF a
<1>3. q \in Nat /\ c * q <= a /\ a < c * q + c
  BY <1>1, <1>2
<1>. HIDE DEF q
<1>4. q <= n
  <2>. SUFFICES ASSUME q >= n + 1 PROVE FALSE
    BY <1>3
  <2>. DEFINE m == n + 1
  <2>1. \A x, y, z \in Nat : x >= y => z * x >= z * y
    OBVIOUS
  <2>2. m \in Nat /\ c \in Nat /\ q \in Nat /\ q >= m
    BY <1>1, <1>3
  <2>3. c * m = c * n + c
    <3>1. \A x, y \in Nat : x * (y + 1) = x * y + x
      OBVIOUS
    <3>2. c \in Nat
      BY <1>1
    <3>. HIDE DEF c
    <3>. QED BY <3>1, <3>2
  <2>4. c * q >= c * m
    <3>. HIDE DEF c, m
    <3>. QED BY <2>1, <2>2
  <2>5. c * m \in Nat /\ c * n \in Nat /\ c * q \in Nat
    BY <1>1, <1>3
  <2>. HIDE DEF c, m
  <2>. QED BY <1>2, <1>3, <2>2, <2>3, <2>4, <2>5
<1>5. q * c = c * q
  BY <1>1, <1>3
<1>. QED BY <1>1, <1>3, <1>4, <1>5, <1>2 DEF a, q

LEMMA EstimateOf ==
  ASSUME NEW f \in Counts, NEW p \in Rank, Total(f) > 0
  PROVE  /\ Percentile(f, p) \in Bucket
         /\ Cumulated(f, Percentile(f, p)) * p[2] + p[2] > p[1] * Total(f)
<1>. DEFINE S == {b \in Bucket : Cumulated(f, b) >= Target(p, f)}
            last == Len(Bounds) + 1
<1>1. Total(f) \in Nat
  BY Totals
<1>2. /\ Target(p, f) \in Nat /\ Target(p, f) <= Total(f) /\ p[2] \in Nat /\ p[1] \in Nat
      /\ Target(p, f) * p[2] + p[2] > p[1] * Total(f)
  BY <1>1, RankFacts DEF Target
<1>3. \A b \in Bucket : Cumulated(f, b) \in Nat
  <2>. SUFFICES ASSUME NEW b \in Bucket PROVE Cumulated(f, b) \in Nat
    OBVIOUS
  <2>1. b \in Nat /\ 1 .. b \subseteq Bucket /\ IsFiniteSet(1 .. b)
    BY BucketFacts, FS_Interval DEF Bucket
  <2>2. \A x \in 1 .. b : f[x] \in Nat
    BY <2>1 DEF Counts
  <2>. QED BY <2>1, <2>2, SumIsNat DEF Cumulated
<1>4. last \in Bucket /\ Cumulated(f, last) = Total(f)
  BY BucketFacts DEF Bucket, Cumulated, Total, SumFunction, Counts
<1>5. S \in SUBSET Nat /\ S # {}
  BY <1>2, <1>4, BucketFacts
<1>6. Percentile(f, p) = Min(S)
  BY <1>1 DEF Percentile
<1>7. Min(S) \in S
  <2>. HIDE DEF S
  <2>. QED BY <1>5, MinOf
<1>. DEFINE e == Percentile(f, p)
<1>8. e \in Bucket /\ Cumulated(f, e) >= Target(p, f)
  BY <1>6, <1>7
<1>. HIDE DEF e
<1>9. Cumulated(f, e) * p[2] >= Target(p, f) * p[2]
  <2>1. \A x, y, z \in Nat : x >= y => x * z >= y * z
    OBVIOUS
  <2>. QED BY <1>2, <1>3, <1>8, <2>1
<1>10. Cumulated(f, e) * p[2] \in Nat /\ Target(p, f) * p[2] \in Nat /\ p[1] * Total(f) \in Nat
  BY <1>1, <1>2, <1>3, <1>8
<1>. QED BY <1>2, <1>8, <1>9, <1>10 DEF e

-----------------------------------------------------------------------------
(* The inductive invariant.                                                *)

Recorded == {q \in Queryer : worker[q].pc = "recorded"}

\* The buckets are ahead of the counter by what is recorded and not counted.
CounterBehind == Total(buckets) = queries + Cardinality(Recorded)

\* What a snapshot holds so far is between what there was when it began and
\* what there is now, and the counter read before it is behind both.
Snapshot ==
  /\ loop.pc \in {"prime", "load"} =>
       /\ AtMost(prevBuckets, begun) /\ loop.q <= Total(begun)
       /\ \A b \in Bucket :
            b < loop.next => begun[b] <= loop.snap[b] /\ loop.snap[b] <= buckets[b]
  /\ loop.pc = "tick" => AtMost(begun, prevBuckets)

LastWindow ==
  /\ windowed = prevBuckets
  /\ AtMost(begun, buckets) /\ AtMost(prevBuckets, buckets)
  /\ prevQ <= Total(prevBuckets)

MInv == TypeOK /\ CounterBehind /\ Snapshot /\ LastWindow

LoopType ==
  [pc : {"first", "prime", "tick", "load"}, next : 1 .. Len(Bounds) + 2,
   q : Nat, snap : Counts]

LEMMA RecordedFinite == IsFiniteSet(Recorded) /\ Cardinality(Recorded) \in Nat
<1>1. IsFiniteSet(Queryer) /\ Recorded \subseteq Queryer
  BY NumbersAssumption DEF NumbersAssumption, Recorded
<1>. QED BY <1>1, FS_Subset, FS_CardinalityType

LEMMA MTypes ==
  ASSUME TypeOK
  PROVE  /\ buckets \in Counts /\ prevBuckets \in Counts /\ begun \in Counts
         /\ windowed \in Counts /\ window \in Counts
         /\ loop \in LoopType /\ queries \in Nat /\ prevQ \in Nat /\ slow \in Nat
BY DEF TypeOK, Counts, LoopType

LEMMA InitMInv == Init => MInv
<1>. SUFFICES ASSUME Init PROVE MInv
  OBVIOUS
<1>1. Empty \in Counts /\ \A b \in Bucket : Empty[b] = 0
  BY DEF Empty, Counts
<1>2. Total(Empty) = 0
  BY <1>1, Totals
<1>3. TypeOK
  <2>1. 1 \in 1 .. Len(Bounds) + 2
    BY BucketFacts
  <2>. QED BY <1>1, <2>1 DEF Init, TypeOK, Counts
<1>4. CounterBehind
  <2>1. Recorded = {}
    BY DEF Init, Recorded
  <2>. QED BY <1>2, <2>1, FS_EmptySet DEF Init, CounterBehind
<1>5. Snapshot /\ LastWindow
  BY <1>1, <1>2 DEF Init, Snapshot, LastWindow, AtMost
<1>. QED BY <1>3, <1>4, <1>5 DEF MInv

-----------------------------------------------------------------------------
(* RecordQuery.                                                            *)

LEMMA RecordStep ==
  ASSUME MInv, NEW q \in Queryer, NEW d \in Latency, Record(q, d)
  PROVE  MInv'
<1>. DEFINE b == BucketOf(d)
<1>1. /\ b \in Bucket /\ buckets' = [buckets EXCEPT ![b] = @ + 1]
      /\ worker' = [worker EXCEPT ![q] = [pc |-> "recorded", d |-> d]]
      /\ worker[q].pc = "idle"
      /\ UNCHANGED <<queries, slow, loop, prevQ, prevBuckets, window, begun, windowed>>
  BY BucketOfType DEF Record, loopVars
<1>. HIDE DEF b
<1>2. buckets \in Counts /\ buckets' \in Counts
  BY <1>1, MTypes DEF MInv, Counts
<1>3. \A x \in Bucket : buckets[x] \in Nat /\ buckets'[x] \in Nat /\ buckets[x] <= buckets'[x]
  BY <1>1, <1>2 DEF Counts
<1>4. TypeOK'
  <2>1. worker' \in [Queryer -> [pc : {"idle", "recorded", "counted"}, d : Latency \cup {0}]]
    BY <1>1 DEF MInv, TypeOK
  <2>. QED BY <1>1, <1>2, <2>1 DEF MInv, TypeOK, Counts
<1>5. CounterBehind'
  <2>1. Total(buckets') = Total(buckets) + 1
    BY <1>1, <1>2, Totals
  <2>2. Recorded' = Recorded \cup {q} /\ q \notin Recorded
    BY <1>1 DEF Recorded, MInv, TypeOK
  <2>3. Cardinality(Recorded') = Cardinality(Recorded) + 1
    BY <2>2, RecordedFinite, FS_AddElement
  <2>. QED BY <1>1, <2>1, <2>3, RecordedFinite, MTypes DEF MInv, CounterBehind
<1>6. Snapshot'
  <2>1. ASSUME loop.pc \in {"prime", "load"}, NEW x \in Bucket, x < loop.next
        PROVE  begun[x] <= loop.snap[x] /\ loop.snap[x] <= buckets'[x]
    <3>1. loop.snap[x] \in Nat
      BY MTypes DEF MInv, LoopType, Counts
    <3>. QED BY <1>3, <2>1, <3>1 DEF MInv, Snapshot
  <2>. QED BY <1>1, <2>1 DEF MInv, Snapshot
<1>7. LastWindow'
  <2>1. \A x \in Bucket : begun[x] \in Nat /\ prevBuckets[x] \in Nat
    BY MTypes DEF MInv, Counts
  <2>. QED BY <1>1, <1>3, <2>1 DEF MInv, LastWindow, AtMost
<1>. QED BY <1>4, <1>5, <1>6, <1>7 DEF MInv

LEMMA CountStep ==
  ASSUME MInv, NEW q \in Queryer, CountQuery(q) \/ CountSlow(q)
  PROVE  MInv'
<1>1. UNCHANGED <<buckets, loop, prevQ, prevBuckets, window, begun, windowed>>
  BY DEF CountQuery, CountSlow, loopVars
<1>2. Snapshot' /\ LastWindow'
  BY <1>1 DEF MInv, Snapshot, LastWindow
<1>3. TypeOK'
  <2>. DEFINE How == [pc : {"idle", "recorded", "counted"}, d : Latency \cup {0}]
  <2>1. worker' \in [Queryer -> How]
    <3>1. worker \in [Queryer -> How] /\ worker[q] \in How
      BY DEF MInv, TypeOK
    <3>2. PICK pc \in {"idle", "counted"} :
            worker' = [worker EXCEPT ![q] = [worker[q] EXCEPT !.pc = pc]]
      BY DEF CountQuery, CountSlow
    <3>3. [worker[q] EXCEPT !.pc = pc] \in How
      BY <3>1
    <3>. HIDE DEF How
    <3>. QED BY <3>1, <3>2, <3>3
  <2>2. queries' \in Nat /\ slow' \in Nat
    BY MTypes DEF CountQuery, CountSlow, MInv
  <2>. QED BY <1>1, <2>1, <2>2 DEF MInv, TypeOK
<1>4. CASE CountQuery(q)
  <2>1. Recorded' = Recorded \ {q} /\ q \in Recorded
    BY <1>4 DEF CountQuery, Recorded, MInv, TypeOK
  <2>2. Cardinality(Recorded') = Cardinality(Recorded) - 1
    BY <2>1, RecordedFinite, FS_RemoveElement
  <2>3. CounterBehind'
    BY <1>1, <1>4, <2>2, RecordedFinite, MTypes DEF CountQuery, MInv, CounterBehind
  <2>. QED BY <1>2, <1>3, <2>3 DEF MInv
<1>5. CASE CountSlow(q)
  <2>1. Recorded' = Recorded
    BY <1>5 DEF CountSlow, Recorded, MInv, TypeOK
  <2>2. CounterBehind'
    BY <1>1, <1>5, <2>1 DEF CountSlow, MInv, CounterBehind
  <2>. QED BY <1>2, <1>3, <2>2 DEF MInv
<1>. QED BY <1>4, <1>5

-----------------------------------------------------------------------------
(* The metric loop.                                                        *)

LEMMA LoadCounterStep ==
  ASSUME MInv, LoadCounter
  PROVE  MInv'
<1>1. /\ UNCHANGED <<buckets, queries, slow, worker, prevQ, prevBuckets, window, windowed>>
      /\ begun' = buckets
  BY DEF LoadCounter
<1>2. /\ loop \in LoopType /\ buckets \in Counts
      /\ \A b \in Bucket : buckets[b] \in Nat /\ ~(b < 1)
  BY MTypes, BucketFacts DEF MInv, Counts, Bucket
<1>3. /\ loop'.pc \in {"prime", "load"} /\ loop'.next = 1 /\ loop'.q = queries
      /\ loop'.snap = loop.snap
  BY <1>2 DEF LoadCounter, LoopType
<1>4. TypeOK'
  <2>1. 1 \in 1 .. Len(Bounds) + 2
    BY BucketFacts
  <2>2. loop' = [pc |-> loop'.pc, next |-> 1, q |-> queries, snap |-> loop.snap]
    BY <1>2, <1>3 DEF LoadCounter, LoopType
  <2>3. queries \in Nat /\ loop.snap \in Counts
    BY <1>2, MTypes DEF MInv, LoopType
  <2>4. loop' \in LoopType
    BY <1>3, <2>1, <2>2, <2>3 DEF LoopType
  <2>. QED BY <1>1, <1>2, <2>4 DEF MInv, TypeOK, LoopType, Counts
<1>5. CounterBehind'
  BY <1>1 DEF MInv, CounterBehind, Recorded
<1>6. queries <= Total(buckets)
  BY RecordedFinite, MTypes DEF MInv, CounterBehind
<1>7. Snapshot'
  BY <1>1, <1>2, <1>3, <1>6 DEF MInv, Snapshot, LastWindow, AtMost
<1>8. LastWindow'
  BY <1>1, <1>2 DEF MInv, LastWindow, AtMost
<1>. QED BY <1>4, <1>5, <1>7, <1>8 DEF MInv

LEMMA LoadBucketStep ==
  ASSUME MInv, LoadBucket
  PROVE  MInv'
<1>. DEFINE i == loop.next
<1>1. /\ UNCHANGED <<buckets, queries, slow, worker, prevQ, prevBuckets, window, begun, windowed>>
      /\ i \in Bucket /\ loop.pc \in {"prime", "load"}
  BY DEF LoadBucket
<1>2. /\ loop \in LoopType /\ loop.snap \in Counts /\ buckets \in Counts /\ begun \in Counts
      /\ i \in Nat /\ i + 1 \in 1 .. Len(Bounds) + 2
  <2>1. i + 1 \in 1 .. Len(Bounds) + 2
    BY <1>1, BucketFacts DEF Bucket
  <2>. QED BY <1>1, <2>1, MTypes, BucketFacts DEF MInv, LoopType
<1>3. loop' = [pc |-> loop.pc, next |-> i + 1, q |-> loop.q,
               snap |-> [loop.snap EXCEPT ![i] = buckets[i]]]
  BY <1>2 DEF LoadBucket, LoopType
<1>4. TypeOK'
  <2>1. [loop.snap EXCEPT ![i] = buckets[i]] \in Counts
    BY <1>1, <1>2 DEF Counts
  <2>2. loop' \in LoopType
    BY <1>2, <1>3, <2>1 DEF LoopType
  <2>. QED BY <1>1, <2>2 DEF MInv, TypeOK, LoopType, Counts
<1>5. CounterBehind' /\ LastWindow'
  BY <1>1 DEF MInv, CounterBehind, Recorded, LastWindow
<1>6. Snapshot'
  <2>1. ASSUME NEW b \in Bucket, b < i + 1
        PROVE  begun[b] <= loop'.snap[b] /\ loop'.snap[b] <= buckets[b]
    <3>1. b \in Nat /\ buckets[b] \in Nat /\ begun[b] \in Nat /\ begun[b] <= buckets[b]
      BY <1>2, BucketFacts DEF Counts, MInv, LastWindow, AtMost
    <3>2. CASE b = i
      BY <1>2, <1>3, <3>1, <3>2 DEF Counts
    <3>3. CASE b # i
      <4>1. b < i /\ loop'.snap[b] = loop.snap[b]
        BY <1>2, <1>3, <2>1, <3>1, <3>3 DEF Counts
      <4>. QED BY <1>1, <4>1 DEF MInv, Snapshot
    <3>. QED BY <3>2, <3>3
  <2>2. loop'.pc = loop.pc /\ loop'.q = loop.q /\ loop'.next = i + 1
    BY <1>3
  <2>. QED BY <1>1, <2>1, <2>2 DEF MInv, Snapshot
<1>. QED BY <1>4, <1>5, <1>6 DEF MInv

LEMMA EndWindowStep ==
  ASSUME MInv, EndWindow
  PROVE  MInv'
<1>1. /\ UNCHANGED <<buckets, queries, slow, worker, begun>>
      /\ loop.pc \in {"prime", "load"} /\ loop.next \notin Bucket
      /\ prevQ' = loop.q /\ prevBuckets' = loop.snap
  BY DEF EndWindow
<1>2. /\ loop \in LoopType /\ loop.snap \in Counts /\ loop.q \in Nat
      /\ begun \in Counts /\ buckets \in Counts /\ prevBuckets \in Counts /\ window \in Counts
  BY MTypes DEF MInv, LoopType
<1>3. loop' = [pc |-> "tick", next |-> loop.next, q |-> loop.q, snap |-> loop.snap]
  BY <1>2 DEF EndWindow, LoopType
<1>4. \A b \in Bucket : b < loop.next
  BY <1>1, <1>2, BucketFacts DEF LoopType, Bucket
<1>5. ASSUME NEW b \in Bucket
      PROVE  /\ prevBuckets[b] \in Nat /\ begun[b] \in Nat /\ loop.snap[b] \in Nat
             /\ buckets[b] \in Nat /\ prevBuckets[b] <= begun[b]
             /\ begun[b] <= loop.snap[b] /\ loop.snap[b] <= buckets[b]
  BY <1>1, <1>2, <1>4 DEF Counts, MInv, Snapshot, AtMost
<1>6. Delta \in Counts
  <2>1. \A b \in Bucket : loop.snap[b] - prevBuckets[b] \in Nat
    BY <1>5
  <2>. QED BY <2>1 DEF Delta, Counts
<1>7. windowed' = loop.snap
  <2>1. windowed' = [b \in Bucket |-> prevBuckets[b] + (loop.snap[b] - prevBuckets[b])]
    BY DEF EndWindow, Delta, MInv, LastWindow
  <2>2. \A b \in Bucket : prevBuckets[b] + (loop.snap[b] - prevBuckets[b]) = loop.snap[b]
    BY <1>5
  <2>3. loop.snap = [b \in Bucket |-> loop.snap[b]]
    BY <1>2 DEF Counts
  <2>. QED BY <2>1, <2>2, <2>3
<1>8. TypeOK'
  <2>1. window' \in Counts
    BY <1>2, <1>6 DEF EndWindow
  <2>2. loop' \in LoopType
    BY <1>2, <1>3 DEF LoopType
  <2>. QED BY <1>1, <1>2, <1>7, <2>1, <2>2 DEF MInv, TypeOK, LoopType, Counts
<1>9. CounterBehind'
  BY <1>1 DEF MInv, CounterBehind, Recorded
<1>10. Snapshot'
  BY <1>1, <1>3, <1>5 DEF Snapshot, AtMost
<1>11. LastWindow'
  <2>1. loop.q <= Total(begun) /\ Total(begun) \in Nat /\ Total(loop.snap) \in Nat
    BY <1>1, <1>2, Totals DEF MInv, Snapshot
  <2>2. Total(begun) <= Total(loop.snap)
    BY <1>2, <1>5, Totals DEF AtMost
  <2>3. prevQ' <= Total(prevBuckets')
    BY <1>1, <1>2, <2>1, <2>2
  <2>4. AtMost(begun', buckets') /\ AtMost(prevBuckets', buckets')
    BY <1>1, <1>5 DEF AtMost, MInv, LastWindow
  <2>. QED BY <1>1, <1>7, <2>3, <2>4 DEF LastWindow
<1>. QED BY <1>8, <1>9, <1>10, <1>11 DEF MInv

-----------------------------------------------------------------------------
LEMMA NextMInv == MInv /\ [Next]_vars => MInv'
<1>. SUFFICES ASSUME MInv, [Next]_vars PROVE MInv'
  OBVIOUS
<1>1. ASSUME NEW q \in Queryer, NEW d \in Latency, Record(q, d) PROVE MInv'
  BY <1>1, RecordStep
<1>2. ASSUME NEW q \in Queryer, CountQuery(q) \/ CountSlow(q) PROVE MInv'
  BY <1>2, CountStep
<1>3. CASE LoadCounter \/ LoadBucket \/ EndWindow
  BY <1>3, LoadCounterStep, LoadBucketStep, EndWindowStep
<1>4. CASE UNCHANGED vars
  BY <1>4 DEF vars, loopVars, MInv, TypeOK, CounterBehind, Recorded, Snapshot, LastWindow, AtMost
<1>. QED BY <1>1, <1>2, <1>3, <1>4 DEF Next

LEMMA AlwaysMInv == Spec => []MInv
BY InitMInv, NextMInv, PTL DEF Spec

LEMMA MInvGivesWindowInv == MInv => WindowInv
<1>. SUFFICES ASSUME MInv PROVE WindowInv
  OBVIOUS
<1>1. TypeOK /\ RateBehindWindow
  BY DEF MInv, LastWindow, RateBehindWindow
<1>2. EveryQueryInOneWindow
  BY DEF MInv, Snapshot, LastWindow, AtMost, EveryQueryInOneWindow
<1>3. EstimateWithinOne
  BY EstimateOf, MTypes DEF MInv, EstimateWithinOne
<1>. QED BY <1>1, <1>2, <1>3 DEF WindowInv

(* The windows of metricLoop lose no query and repeat none, its rates stay *)
(* behind them and its percentiles round by less than one query, whatever  *)
(* the query goroutines record while a snapshot is taken, for any number   *)
(* of them and any buckets (Hist.Snapshot, RecordQuery, PercentileOf).     *)
THEOREM WindowsLoseNothing == Spec => []WindowInv
BY AlwaysMInv, MInvGivesWindowInv, PTL
=============================================================================
