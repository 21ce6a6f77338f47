------------------------ MODULE GasEstimationProofs ------------------------
(***************************************************************************)
(* Proofs about GasEstimation, for every fee history, every set of rewards *)
(* and base fees, every window and all tiers: the types and that the tip   *)
(* fits under the cap, that the cap covers the next block, that the tip    *)
(* covers most blocks, and that the estimate is the median that counting   *)
(* gives.                                                                  *)
(*                                                                         *)
(* The last two rest on lemmas about Sorted: the k-th reward has k paying  *)
(* blocks at or below it and fewer than k below it, the rewards ascend,    *)
(* and each paying block is at one position.                               *)
(***************************************************************************)
EXTENDS GasEstimation, FiniteSetTheorems, FunctionTheorems, SequenceTheorems, WellFoundedInduction, TLAPS

-----------------------------------------------------------------------------
(* Extreme elements of sets of natural numbers. *)

\* A set of natural numbers has a least element.
LEMMA LeastElement ==
  ASSUME NEW T, T \subseteq Nat, T # {}
  PROVE  \E x \in T : \A y \in T : x <= y
<1> DEFINE F == {{y \in T : y <= x} : x \in T}
<1>1. ASSUME NEW x \in T
      PROVE  IsFiniteSet({y \in T : y <= x}) /\ {y \in T : y <= x} \in SUBSET Nat
  <2> DEFINE V == {y \in T : y <= x}
  <2>1. x \in Nat /\ V \in SUBSET Nat /\ \A s \in V : s <= x
    OBVIOUS
  <2> HIDE DEF V
  <2>2. IsFiniteSet(V)
    BY <2>1, FS_BoundedSetOfNaturals
  <2> QED
    BY <2>1, <2>2 DEF V
<1>2. F \subseteq FiniteSubsetsOf(Nat) /\ F # {}
  BY <1>1 DEF FiniteSubsetsOf
<1>3. PICK W \in F : \A V \in F : ~(<<V, W>> \in StrictSubsetOrdering(Nat))
  <2> HIDE DEF F
  <2> QED
    BY <1>2, FS_StrictSubsetOrderingWellFounded, WFMin
<1>4. PICK x \in T : W = {y \in T : y <= x}
  OBVIOUS
<1>5. ASSUME NEW z \in T, z < x PROVE FALSE
  <2> DEFINE V == {y \in T : y <= z}
  <2>1. x \in Nat /\ z \in Nat /\ \A y \in T : y \in Nat
    OBVIOUS
  <2>2. (\A y \in T : y <= z => y <= x) /\ x <= x /\ ~(x <= z)
    BY <1>5, <2>1
  <2>3. V \subseteq W /\ x \in W /\ x \notin V
    BY <1>4, <2>2, Zenon
  <2>4. V \in F /\ V \in SUBSET Nat /\ W \in SUBSET Nat
    BY <1>4
  <2> HIDE DEF V, F
  <2>5. <<V, W>> \in StrictSubsetOrdering(Nat)
    BY <2>3, <2>4 DEF StrictSubsetOrdering
  <2> QED
    BY <1>3, <2>4, <2>5
<1> QED
  BY <1>5

\* A finite set of natural numbers has a greatest element.
LEMMA GreatestElement ==
  ASSUME NEW T, T \subseteq Nat, T # {}, IsFiniteSet(T)
  PROVE  \E x \in T : \A y \in T : x >= y
<1> DEFINE F == {{y \in T : y >= x} : x \in T}
<1>1. ASSUME NEW x \in T
      PROVE  IsFiniteSet({y \in T : y >= x}) /\ {y \in T : y >= x} \in SUBSET Nat
  <2> DEFINE V == {y \in T : y >= x}
  <2>1. V \in SUBSET T /\ V \in SUBSET Nat
    OBVIOUS
  <2> HIDE DEF V
  <2>2. IsFiniteSet(V)
    BY <2>1, FS_Subset
  <2> QED
    BY <2>1, <2>2 DEF V
<1>2. F \subseteq FiniteSubsetsOf(Nat) /\ F # {}
  BY <1>1 DEF FiniteSubsetsOf
<1>3. PICK W \in F : \A V \in F : ~(<<V, W>> \in StrictSubsetOrdering(Nat))
  <2> HIDE DEF F
  <2> QED
    BY <1>2, FS_StrictSubsetOrderingWellFounded, WFMin
<1>4. PICK x \in T : W = {y \in T : y >= x}
  OBVIOUS
<1>5. ASSUME NEW z \in T, z > x PROVE FALSE
  <2> DEFINE V == {y \in T : y >= z}
  <2>1. x \in Nat /\ z \in Nat /\ \A y \in T : y \in Nat
    OBVIOUS
  <2>2. (\A y \in T : y >= z => y >= x) /\ x >= x /\ ~(x >= z)
    BY <1>5, <2>1
  <2>3. V \subseteq W /\ x \in W /\ x \notin V
    BY <1>4, <2>2, Zenon
  <2>4. V \in F /\ V \in SUBSET Nat /\ W \in SUBSET Nat
    BY <1>4
  <2> HIDE DEF V, F
  <2>5. <<V, W>> \in StrictSubsetOrdering(Nat)
    BY <2>3, <2>4 DEF StrictSubsetOrdering
  <2> QED
    BY <1>3, <2>4, <2>5
<1> QED
  BY <1>5

\* What Min and Max return.
LEMMA MinIsLeast ==
  ASSUME NEW T, T \subseteq Nat, T # {}
  PROVE  Min(T) \in T /\ \A y \in T : Min(T) <= y
BY LeastElement DEF Min

\* The same for Max.
LEMMA MaxIsGreatest ==
  ASSUME NEW T, T \subseteq Nat, T # {}, IsFiniteSet(T)
  PROVE  Max(T) \in T /\ \A y \in T : Max(T) >= y
BY GreatestElement DEF Max

-----------------------------------------------------------------------------
(* The paying blocks in order. *)

\* The paying blocks are finitely many, and paid more than nothing.
LEMMA PayingFacts ==
  ASSUME NEW rs \in Seq(Nat)
  PROVE  /\ Len(rs) \in Nat /\ Paying(rs) \subseteq 1..Len(rs)
         /\ IsFiniteSet(Paying(rs)) /\ Cardinality(Paying(rs)) \in Nat
         /\ \A i \in Paying(rs) : i \in Nat /\ rs[i] \in Nat /\ rs[i] > 0
<1>1. Len(rs) \in Nat /\ \A i \in 1..Len(rs) : rs[i] \in Nat
  BY LenProperties, ElementOfSeq
<1>2. Paying(rs) \in SUBSET (1..Len(rs))
  BY DEF Paying
<1>3. IsFiniteSet(1..Len(rs))
  BY <1>1, FS_Interval
<1>4. IsFiniteSet(Paying(rs))
  BY <1>2, <1>3, FS_Subset
<1>5. Cardinality(Paying(rs)) \in Nat
  BY <1>4, FS_CardinalityType
<1> QED
  BY <1>1, <1>2, <1>4, <1>5 DEF Paying

\* Sets of paying blocks are finite, and larger sets are larger.
LEMMA PartsOfPaying ==
  ASSUME NEW rs \in Seq(Nat), NEW A \in SUBSET Paying(rs), NEW B \in SUBSET Paying(rs), A \subseteq B
  PROVE  /\ Cardinality(A) \in Nat /\ Cardinality(B) \in Nat
         /\ Cardinality(A) <= Cardinality(B)
         /\ A # B => Cardinality(A) < Cardinality(B)
<1>1. IsFiniteSet(A) /\ IsFiniteSet(B)
  BY PayingFacts, FS_Subset
<1>2. Cardinality(A) \in Nat /\ Cardinality(B) \in Nat
  BY <1>1, FS_CardinalityType
<1>3. /\ Cardinality(A) <= Cardinality(B)
      /\ Cardinality(B) = Cardinality(A) => B = A
  BY <1>1, FS_Subset
<1> QED
  BY <1>2, <1>3

\* The position of a block.
Position(rs, i) == Cardinality(UpTo(rs, i))

\* Positions count from one to the number of paying blocks.
LEMMA PositionFacts ==
  ASSUME NEW rs \in Seq(Nat), NEW i \in Paying(rs)
  PROVE  /\ UpTo(rs, i) \in SUBSET Paying(rs) /\ i \in UpTo(rs, i)
         /\ Position(rs, i) \in 1..Cardinality(Paying(rs))
<1>1. UpTo(rs, i) \in SUBSET Paying(rs) /\ i \in UpTo(rs, i)
  BY PayingFacts DEF UpTo
<1>2. Position(rs, i) \in Nat /\ Position(rs, i) <= Cardinality(Paying(rs))
  BY <1>1, PartsOfPaying DEF Position
<1>3. Cardinality({}) = 0 /\ {} \in SUBSET Paying(rs) /\ {} \subseteq UpTo(rs, i) /\ {} # UpTo(rs, i)
  BY <1>1, FS_EmptySet
<1>4. 0 < Position(rs, i)
  BY <1>1, <1>3, PartsOfPaying DEF Position
<1> QED
  BY <1>1, <1>2, <1>4, PayingFacts

\* A block that paid less, or the same earlier, has an earlier position.
LEMMA PositionsAscend ==
  ASSUME NEW rs \in Seq(Nat), NEW i \in Paying(rs), NEW j \in Paying(rs),
         rs[i] < rs[j] \/ (rs[i] = rs[j] /\ i < j)
  PROVE  Position(rs, i) < Position(rs, j)
<1>1. UpTo(rs, i) \subseteq UpTo(rs, j) /\ j \notin UpTo(rs, i)
  BY PayingFacts DEF UpTo
<1> QED
  BY <1>1, PositionFacts, PartsOfPaying DEF Position

\* Conversely: an earlier position is of a block that did not pay more.
LEMMA PositionsOrderRewards ==
  ASSUME NEW rs \in Seq(Nat), NEW i \in Paying(rs), NEW j \in Paying(rs)
  PROVE  /\ Position(rs, i) < Position(rs, j) => rs[i] <= rs[j]
         /\ Position(rs, i) = Position(rs, j) => i = j
<1>1. /\ rs[i] \in Nat /\ rs[j] \in Nat /\ i \in Nat /\ j \in Nat
      /\ Position(rs, i) \in Nat /\ Position(rs, j) \in Nat
  BY PayingFacts, PositionFacts
<1>2. /\ rs[i] < rs[j] => Position(rs, i) < Position(rs, j)
      /\ rs[j] < rs[i] => Position(rs, j) < Position(rs, i)
      /\ rs[i] = rs[j] /\ i < j => Position(rs, i) < Position(rs, j)
      /\ rs[i] = rs[j] /\ j < i => Position(rs, j) < Position(rs, i)
  BY PositionsAscend
<1> QED
  BY <1>1, <1>2

\* Every position is taken: the positions are as many as the paying blocks, and
\* no two blocks share one.
LEMMA EveryPositionIsTaken ==
  ASSUME NEW rs \in Seq(Nat), NEW k \in 1..Cardinality(Paying(rs))
  PROVE  Block(rs, k) \in Paying(rs) /\ Position(rs, Block(rs, k)) = k
<1> DEFINE n == Cardinality(Paying(rs))
           f == [i \in Paying(rs) |-> Position(rs, i)]
<1>1. f \in [Paying(rs) -> 1..n]
  BY PositionFacts
<1>2. \A i, j \in Paying(rs) : f[i] = f[j] => i = j
  BY PositionsOrderRewards
<1>3. f \in Injection(Paying(rs), 1..n)
  <2> HIDE DEF f
  <2> QED
    BY <1>1, <1>2, Fun_IsInj
<1>4. IsFiniteSet(1..n) /\ Cardinality(1..n) = n
  BY PayingFacts, FS_Interval
<1>5. f \in Surjection(Paying(rs), 1..n)
  <2> HIDE DEF f
  <2> QED
    BY <1>3, <1>4, FS_Injection
<1>6. PICK i \in Paying(rs) : f[i] = k
  <2> HIDE DEF f
  <2>1. \A t \in 1..n : \E i \in Paying(rs) : f[i] = t
    BY <1>5 DEF Surjection
  <2> QED
    BY <2>1
<1> QED
  BY <1>6 DEF Block, Position

\* The number of rewards, in what follows.
Count(rs) == Cardinality(Paying(rs))

\* The k-th reward, as counting sees it.
LEMMA SortedCounts ==
  ASSUME NEW rs \in Seq(Nat), NEW k \in 1..Count(rs)
  PROVE  /\ Sorted(rs)[k] \in Values(rs)
         /\ AtMost(rs, Sorted(rs)[k]) \in Nat /\ k <= AtMost(rs, Sorted(rs)[k])
         /\ Below(rs, Sorted(rs)[k]) \in Nat /\ Below(rs, Sorted(rs)[k]) < k
<1> DEFINE b == Block(rs, k)
           v == rs[b]
           A == {i \in Paying(rs) : rs[i] <= v}
           B == {i \in Paying(rs) : rs[i] < v}
<1>1. b \in Paying(rs) /\ Cardinality(UpTo(rs, b)) = k
  BY EveryPositionIsTaken DEF Position, Count
<1>2. Sorted(rs)[k] = v
  BY DEF Sorted, Count
<1>3. v \in Values(rs)
  BY <1>1 DEF Values
<1>4. /\ UpTo(rs, b) \in SUBSET Paying(rs) /\ b \in UpTo(rs, b)
      /\ \A i \in Paying(rs) : rs[i] \in Nat
  BY <1>1, PositionFacts, PayingFacts
<1>5. UpTo(rs, b) \subseteq A /\ B \subseteq UpTo(rs, b) /\ b \notin B
  BY <1>1, <1>4 DEF UpTo
<1>6. A \in SUBSET Paying(rs) /\ B \in SUBSET Paying(rs)
  OBVIOUS
<1>7. AtMost(rs, v) = Cardinality(A) /\ Below(rs, v) = Cardinality(B)
  BY DEF AtMost, Below
<1> HIDE DEF A, B, b, v
<1>8. Cardinality(A) \in Nat /\ k <= Cardinality(A)
  BY <1>1, <1>4, <1>5, <1>6, PartsOfPaying
<1>9. Cardinality(B) \in Nat /\ Cardinality(B) < k
  BY <1>1, <1>4, <1>5, <1>6, PartsOfPaying
<1> QED
  BY <1>2, <1>3, <1>7, <1>8, <1>9

\* The rewards ascend.
LEMMA SortedAscends ==
  ASSUME NEW rs \in Seq(Nat), NEW j \in 1..Count(rs), NEW k \in 1..Count(rs), j <= k
  PROVE  Sorted(rs)[j] <= Sorted(rs)[k]
<1>1. /\ Block(rs, j) \in Paying(rs) /\ Position(rs, Block(rs, j)) = j
      /\ Block(rs, k) \in Paying(rs) /\ Position(rs, Block(rs, k)) = k
  BY EveryPositionIsTaken DEF Count
<1>2. Sorted(rs)[j] = rs[Block(rs, j)] /\ Sorted(rs)[k] = rs[Block(rs, k)]
  BY DEF Sorted, Count
<1>3. rs[Block(rs, j)] \in Nat /\ rs[Block(rs, k)] \in Nat
  BY <1>1, PayingFacts
<1>4. CASE j = k
  BY <1>2, <1>3, <1>4
<1>5. CASE j < k
  BY <1>1, <1>2, <1>5, PositionsOrderRewards
<1>6. j \in Nat /\ k \in Nat
  BY PayingFacts DEF Count
<1> QED
  BY <1>4, <1>5, <1>6

\* Sorting gives a sequence of the paid rewards, all of them.
LEMMA SortedIsSeq ==
  ASSUME NEW rs \in Seq(Nat)
  PROVE  /\ Count(rs) \in Nat
         /\ Sorted(rs) \in Seq(Nat) /\ Len(Sorted(rs)) = Count(rs)
         /\ \A k \in 1..Count(rs) : Sorted(rs)[k] \in Nat /\ Sorted(rs)[k] > 0
         /\ \A v \in Values(rs) : v \in Nat /\ v > 0 /\ \E k \in 1..Count(rs) : Sorted(rs)[k] = v
<1>1. Count(rs) \in Nat
  BY PayingFacts DEF Count
<1>2. \A v \in Values(rs) : v \in Nat /\ v > 0
  BY PayingFacts DEF Values
<1>3. \A k \in 1..Count(rs) : Sorted(rs)[k] \in Nat /\ Sorted(rs)[k] > 0
  BY <1>2, SortedCounts
<1>4. Sorted(rs) = [k \in 1..Count(rs) |-> Sorted(rs)[k]]
  BY DEF Sorted, Count
<1>5. Sorted(rs) \in Seq(Nat) /\ Len(Sorted(rs)) = Count(rs)
  <2>1. Sorted(rs) \in [1..Count(rs) -> Nat]
    BY <1>3, <1>4
  <2>2. Sorted(rs) \in Seq(Nat)
    BY <1>1, <2>1, SeqDef
  <2> QED
    BY <1>1, <2>1, <2>2, LenProperties
<1>6. ASSUME NEW v \in Values(rs)
      PROVE  \E k \in 1..Count(rs) : Sorted(rs)[k] = v
  <2>1. PICK i \in Paying(rs) : rs[i] = v
    BY DEF Values
  <2> DEFINE k == Position(rs, i)
  <2>2. k \in 1..Count(rs)
    BY PositionFacts DEF Count
  <2>3. Block(rs, k) \in Paying(rs) /\ Position(rs, Block(rs, k)) = k
    BY <2>2, EveryPositionIsTaken DEF Count
  <2>4. Block(rs, k) = i
    BY <2>3, PositionsOrderRewards
  <2>5. Sorted(rs)[k] = v
    BY <2>1, <2>2, <2>4 DEF Sorted, Count
  <2> QED
    BY <2>2, <2>5
<1> QED
  BY <1>1, <1>2, <1>3, <1>5, <1>6

\* There are finitely many values.
LEMMA ValuesFinite ==
  ASSUME NEW rs \in Seq(Nat)
  PROVE  IsFiniteSet(Values(rs))
<1> DEFINE f == [i \in Paying(rs) |-> rs[i]]
<1>1. f \in [Paying(rs) -> Values(rs)] /\ \A v \in Values(rs) : \E i \in Paying(rs) : f[i] = v
  BY DEF Values
<1>2. f \in Surjection(Paying(rs), Values(rs))
  <2> HIDE DEF f
  <2> QED
    BY <1>1 DEF Surjection
<1> QED
  <2> HIDE DEF f
  <2> QED
    BY <1>2, PayingFacts, FS_Surjection

\* Where the rewards rise, counting finds the position and the next value.
LEMMA RiseIsCounted ==
  ASSUME NEW rs \in Seq(Nat), NEW k \in 1..(Count(rs) - 1), Sorted(rs)[k] < Sorted(rs)[k + 1]
  PROVE  /\ AtMost(rs, Sorted(rs)[k]) = k
         /\ NextValue(rs, Sorted(rs)[k]) = Sorted(rs)[k + 1]
         /\ Sorted(rs)[k] \in Jumps(rs)
         /\ Jump(rs, Sorted(rs)[k]) = Change(Sorted(rs), k)
<1> DEFINE a == Sorted(rs)[k]
           b == Sorted(rs)[k + 1]
           A == {i \in Paying(rs) : rs[i] <= a}
           N == {w \in Values(rs) : w > a}
<1>1. Count(rs) \in Nat /\ k \in 1..Count(rs) /\ k + 1 \in 1..Count(rs)
  BY SortedIsSeq
<1>2. a \in Nat /\ a > 0 /\ b \in Nat /\ a \in Values(rs) /\ b \in Values(rs) /\ a < b
  BY <1>1, SortedIsSeq, SortedCounts
<1>3. \A j \in 1..Count(rs) : (j <= k => Sorted(rs)[j] <= a) /\ (k + 1 <= j => b <= Sorted(rs)[j])
  BY <1>1, SortedAscends
<1>4. \A v \in Values(rs) : v \in Nat /\ (v <= a \/ b <= v)
  <2> SUFFICES ASSUME NEW v \in Values(rs) PROVE v \in Nat /\ (v <= a \/ b <= v)
    OBVIOUS
  <2>1. PICK j \in 1..Count(rs) : Sorted(rs)[j] = v
    BY SortedIsSeq
  <2>2. v \in Nat /\ (j <= k \/ k + 1 <= j)
    BY <1>1, SortedIsSeq
  <2> QED
    BY <1>3, <2>1, <2>2
<1>5. AtMost(rs, a) = k
  <2>1. AtMost(rs, a) \in Nat /\ k <= AtMost(rs, a) /\ Below(rs, b) \in Nat /\ Below(rs, b) < k + 1
    BY <1>1, SortedCounts
  <2>2. \A i \in Paying(rs) : rs[i] <= a <=> rs[i] < b
    BY <1>2, <1>4 DEF Values
  <2>3. AtMost(rs, a) = Below(rs, b)
    BY <2>2 DEF AtMost, Below
  <2> QED
    BY <1>1, <2>1, <2>3
<1>6. NextValue(rs, a) = b
  <2>1. N \subseteq Nat /\ b \in N /\ \A w \in N : b <= w
    BY <1>2, <1>4
  <2> HIDE DEF N
  <2>2. Min(N) \in N /\ \A w \in N : Min(N) <= w
    BY <2>1, MinIsLeast
  <2>3. Min(N) \in Nat /\ Min(N) <= b /\ b <= Min(N)
    BY <2>1, <2>2
  <2>4. Min(N) = b
    BY <1>2, <2>3
  <2> QED
    BY <2>4 DEF NextValue, N
<1>7. a \in Jumps(rs)
  <2>1. a # Max(Values(rs))
    <3>1. ASSUME a = Max(Values(rs)) PROVE FALSE
      <4>1. Values(rs) \subseteq Nat /\ Values(rs) # {} /\ IsFiniteSet(Values(rs))
        BY <1>2, <1>4, ValuesFinite
      <4>2. a >= b
        BY <1>2, <3>1, <4>1, MaxIsGreatest
      <4> QED
        BY <1>2, <4>2
    <3> QED
      BY <3>1
  <2> QED
    BY <1>2, <2>1 DEF Jumps
<1> QED
  BY <1>5, <1>6, <1>7 DEF Jump, Change

\* Each value but the greatest is where the rewards rise.
LEMMA JumpsAreRises ==
  ASSUME NEW rs \in Seq(Nat), NEW v \in Jumps(rs)
  PROVE  \E k \in 1..(Count(rs) - 1) : Sorted(rs)[k] = v /\ Sorted(rs)[k] < Sorted(rs)[k + 1]
<1> DEFINE T == {k \in 1..Count(rs) : Sorted(rs)[k] = v}
<1>1. v \in Values(rs) /\ v # Max(Values(rs))
  BY DEF Jumps
<1>2. Count(rs) \in Nat /\ \A k \in 1..Count(rs) : Sorted(rs)[k] \in Nat
  BY SortedIsSeq
<1>3. T \in SUBSET (1..Count(rs)) /\ T # {} /\ T \subseteq Nat
  <2>1. \E k \in 1..Count(rs) : Sorted(rs)[k] = v
    BY <1>1, SortedIsSeq
  <2>2. 1..Count(rs) \subseteq Nat
    BY <1>2
  <2> QED
    BY <2>1, <2>2
<1>4. IsFiniteSet(1..Count(rs))
  BY <1>2, FS_Interval
<1>5. IsFiniteSet(T)
  <2> HIDE DEF T
  <2> QED
    BY <1>3, <1>4, FS_Subset
<1>6. PICK k \in T : \A j \in T : k >= j
  <2> HIDE DEF T
  <2> QED
    BY <1>3, <1>5, GreatestElement
<1>7. k \in 1..Count(rs) /\ Sorted(rs)[k] = v
  OBVIOUS
<1>8. k # Count(rs)
  <2>1. ASSUME k = Count(rs) PROVE FALSE
    <3>1. \A w \in Values(rs) : w \in Nat /\ w <= v
      <4> SUFFICES ASSUME NEW w \in Values(rs) PROVE w \in Nat /\ w <= v
        OBVIOUS
      <4>1. PICK j \in 1..Count(rs) : Sorted(rs)[j] = w
        BY SortedIsSeq
      <4>2. j <= k
        BY <1>2, <2>1
      <4> QED
        BY <1>7, <4>1, <4>2, SortedAscends, SortedIsSeq
    <3>2. Max(Values(rs)) \in Values(rs) /\ Max(Values(rs)) >= v
      BY <1>1, <3>1, ValuesFinite, MaxIsGreatest
    <3>3. v \in Nat /\ Max(Values(rs)) \in Nat /\ Max(Values(rs)) <= v
      BY <1>1, <3>1, <3>2
    <3> QED
      BY <1>1, <3>2, <3>3
  <2> QED
    BY <2>1
<1>9. k \in 1..(Count(rs) - 1) /\ k + 1 \in 1..Count(rs) /\ k + 1 \notin T
  BY <1>2, <1>6, <1>7, <1>8
<1>10. Sorted(rs)[k] <= Sorted(rs)[k + 1] /\ Sorted(rs)[k + 1] # v
  BY <1>2, <1>7, <1>9, SortedAscends
<1> QED
  BY <1>2, <1>7, <1>9, <1>10

-----------------------------------------------------------------------------
(* The estimate. *)

\* What a change tells of its two rewards.
LEMMA ChangeFacts ==
  ASSUME NEW rs \in Seq(Nat), NEW k \in 1..(Count(rs) - 1)
  PROVE  /\ Change(Sorted(rs), k) \in Nat
         /\ Change(Sorted(rs), k) > 0 => Sorted(rs)[k] < Sorted(rs)[k + 1]
<1> DEFINE a == Sorted(rs)[k]
           b == Sorted(rs)[k + 1]
<1>1. a \in Nat \ {0} /\ b \in Nat /\ a <= b
  <2>1. Count(rs) \in Nat /\ k \in 1..Count(rs) /\ k + 1 \in 1..Count(rs) /\ k <= k + 1
    BY SortedIsSeq
  <2> QED
    BY <2>1, SortedIsSeq, SortedAscends
<1>2. (b - a) * 100 \in Nat
  BY <1>1
<1>3. \A x \in Nat, y \in Nat \ {0} : x \div y \in Nat /\ 0 \div y = 0
  OBVIOUS
<1>4. Change(Sorted(rs), k) = ((b - a) * 100) \div a
  BY DEF Change
<1> HIDE DEF a, b
<1>5. a = b => (b - a) * 100 = 0
  BY <1>1
<1>6. ((b - a) * 100) \div a \in Nat
  BY <1>1, <1>2, <1>3
<1>7. a = b => ((b - a) * 100) \div a = 0
  BY <1>1, <1>3, <1>5
<1> QED
  BY <1>1, <1>4, <1>6, <1>7 DEF a, b

\* The first of the largest changes.
Changes(s) == {Change(s, i) : i \in 1..Len(s) - 1}
FirstLargest(s) == Min({i \in 1..Len(s) - 1 : Change(s, i) = Max(Changes(s))})

\* No change is larger, and none before it as large.
LEMMA FirstLargestFacts ==
  ASSUME NEW rs \in Seq(Nat), Count(rs) > 1
  PROVE  LET m == FirstLargest(Sorted(rs)) IN
         /\ m \in 1..(Count(rs) - 1) /\ Change(Sorted(rs), m) = Max(Changes(Sorted(rs)))
         /\ \A k \in 1..(Count(rs) - 1) :
              /\ Change(Sorted(rs), k) <= Change(Sorted(rs), m)
              /\ Change(Sorted(rs), k) = Change(Sorted(rs), m) => m <= k
<1> DEFINE s == Sorted(rs)
           D == 1..(Count(rs) - 1)
           C == Changes(s)
           I == {i \in D : Change(s, i) = Max(C)}
<1>1. Count(rs) \in Nat /\ Len(s) = Count(rs) /\ 1 \in D /\ D \subseteq Nat
  BY SortedIsSeq
<1>2. C = {Change(s, i) : i \in D} /\ FirstLargest(s) = Min(I)
  BY <1>1 DEF Changes, FirstLargest
<1>3. IsFiniteSet(D)
  BY <1>1, FS_Interval
<1>4. IsFiniteSet(C) /\ C \subseteq Nat /\ C # {}
  <2> DEFINE f == [i \in D |-> Change(s, i)]
  <2>1. f \in Surjection(D, C)
    BY <1>2 DEF Surjection
  <2>2. IsFiniteSet(C)
    <3> HIDE DEF f, C, D
    <3> QED
      BY <1>3, <2>1, FS_Surjection
  <2>3. C \subseteq Nat /\ C # {}
    BY <1>1, <1>2, ChangeFacts
  <2> QED
    BY <2>2, <2>3
<1>5. Max(C) \in C /\ Max(C) \in Nat /\ \A c \in C : Max(C) >= c
  <2> HIDE DEF C
  <2> QED
    BY <1>4, MaxIsGreatest
<1>6. I \subseteq Nat /\ I # {}
  BY <1>1, <1>2, <1>5
<1>7. Min(I) \in I /\ \A i \in I : Min(I) <= i
  <2> HIDE DEF I
  <2> QED
    BY <1>6, MinIsLeast
<1>8. Min(I) \in D /\ Change(s, Min(I)) = Max(C)
  BY <1>7
<1>9. ASSUME NEW k \in D
      PROVE  /\ Change(s, k) <= Max(C)
             /\ Change(s, k) = Max(C) => Min(I) <= k
  <2>1. Change(s, k) \in C /\ Change(s, k) \in Nat
    BY <1>2, ChangeFacts
  <2> HIDE DEF C
  <2> QED
    BY <1>5, <1>7, <2>1
<1> QED
  BY <1>2, <1>8, <1>9

\* Whether the rewards before the first of the largest changes are dropped.
Cut(s) == Change(s, FirstLargest(s)) >= Threshold /\ FirstLargest(s) - 1 >= Len(s) \div 2

\* The estimate as a position of the sorted rewards.
LEMMA EstimateIsAt ==
  ASSUME NEW rs \in Seq(Nat), Count(rs) > 0
  PROVE  LET s == Sorted(rs)
             d == IF Count(rs) > 1 /\ Cut(s) THEN FirstLargest(s) - 1 ELSE 0
             k == d + (Count(rs) - d) \div 2 + 1
         IN  d \in 0..(Count(rs) - 1) /\ k \in 1..Count(rs) /\ EstimatePriorityFee(rs) = s[k]
<1> DEFINE s == Sorted(rs)
           n == Count(rs)
           m == FirstLargest(s)
<1>1. n \in Nat /\ n > 0 /\ s \in Seq(Nat) /\ Len(s) = n
  BY SortedIsSeq
<1>2. CASE n = 1
  <2>1. EstimatePriorityFee(rs) = s[1]
    BY <1>1, <1>2 DEF EstimatePriorityFee
  <2> QED
    BY <1>2, <2>1
<1>3. CASE n > 1
  <2>1. m \in 1..(n - 1) /\ Change(s, m) = Max(Changes(s))
    BY <1>3, FirstLargestFacts
  <2>2. Kept(s) = IF Cut(s) THEN SubSeq(s, m, Len(s)) ELSE s
    BY <2>1 DEF Kept, Cut, Changes, FirstLargest
  <2>3. EstimatePriorityFee(rs) = Kept(s)[Len(Kept(s)) \div 2 + 1]
    BY <1>1, <1>3 DEF EstimatePriorityFee, Median
  <2>4. CASE Cut(s)
    <3> DEFINE l == n - (m - 1)
    <3> HIDE DEF s, n, m
    <3>1. l \in Nat /\ l >= 2 /\ l \div 2 + 1 \in 1..l /\ l \div 2 \in Nat
      <4>1. l \in Nat /\ l >= 2
        BY <1>1, <2>1
      <4> HIDE DEF l
      <4>2. l \div 2 \in Nat /\ 2 * (l \div 2) <= l
        BY <4>1
      <4> QED
        BY <4>1, <4>2
    <3>3. Kept(s) = SubSeq(s, m, n)
      BY <1>1, <2>2, <2>4
    <3>4. Len(Kept(s)) = l /\ \A i \in 1..l : Kept(s)[i] = s[m + i - 1]
      <4>1. m \in Int /\ n \in Int /\ m <= n /\ n - m + 1 = l
        BY <1>1, <2>1
      <4>2. \A i \in m..n : s[i] \in Nat
        BY <1>1, <2>1, ElementOfSeq
      <4>3. /\ Len(SubSeq(s, m, n)) = IF m <= n THEN n - m + 1 ELSE 0
            /\ \A i \in 1..n - m + 1 : SubSeq(s, m, n)[i] = s[m + i - 1]
        BY <4>1, <4>2, SubSeqProperties
      <4> QED
        BY <3>3, <4>1, <4>3
    <3>5. EstimatePriorityFee(rs) = s[m + (l \div 2 + 1) - 1]
      BY <2>3, <3>1, <3>4
    <3>6. m + (l \div 2 + 1) - 1 = (m - 1) + l \div 2 + 1
      BY <2>1, <3>1
    <3>7. m - 1 \in 0..(n - 1) /\ (m - 1) + l \div 2 + 1 \in 1..n
      <4> DEFINE h == l \div 2
      <4>1. h \in Nat /\ h + 1 <= n - (m - 1)
        BY <3>1
      <4> HIDE DEF h, l
      <4>2. m - 1 \in 0..(n - 1) /\ (m - 1) + h + 1 \in 1..n
        BY <1>1, <2>1, <4>1
      <4> QED
        BY <4>2 DEF h
    <3> HIDE DEF l
    <3>8. EstimatePriorityFee(rs) = s[(m - 1) + l \div 2 + 1]
      BY <3>5, <3>6
    <3> QED
      BY <1>3, <2>4, <3>7, <3>8 DEF s, n, m, l
  <2>5. CASE ~Cut(s)
    <3>1. EstimatePriorityFee(rs) = s[n \div 2 + 1]
      BY <1>1, <2>2, <2>3, <2>5
    <3>2. 0 \in 0..(n - 1) /\ 0 + (n - 0) \div 2 + 1 = n \div 2 + 1 /\ n \div 2 + 1 \in 1..n
      BY <1>1, <1>3
    <3> QED
      BY <2>5, <3>1, <3>2
  <2> QED
    BY <2>4, <2>5
<1> QED
  BY <1>1, <1>2, <1>3

\* The values have an element when some block paid, and the greatest counts all.
LEMMA ValuesFacts ==
  ASSUME NEW rs \in Seq(Nat)
  PROVE  /\ Values(rs) = {} <=> Count(rs) = 0
         /\ Values(rs) # {} => AtMost(rs, Max(Values(rs))) = Count(rs)
<1>1. Values(rs) = {} <=> Paying(rs) = {}
  BY DEF Values
<1>2. Paying(rs) = {} <=> Count(rs) = 0
  BY PayingFacts, FS_EmptySet DEF Count
<1>3. ASSUME Values(rs) # {}
      PROVE  AtMost(rs, Max(Values(rs))) = Count(rs)
  <2>1. Values(rs) \subseteq Nat
    BY SortedIsSeq
  <2>2. Max(Values(rs)) \in Nat /\ \A v \in Values(rs) : Max(Values(rs)) >= v
    BY <1>3, <2>1, ValuesFinite, MaxIsGreatest
  <2>3. \A i \in Paying(rs) : rs[i] \in Nat /\ rs[i] <= Max(Values(rs))
    BY <2>1, <2>2 DEF Values
  <2>4. {i \in Paying(rs) : rs[i] <= Max(Values(rs))} = Paying(rs)
    BY <2>3
  <2> QED
    BY <2>4 DEF AtMost, Count
<1> QED
  BY <1>1, <1>2, <1>3

\* The cuts that counting finds are the one that the changes find.
LEMMA CutsAre ==
  ASSUME NEW rs \in Seq(Nat), Count(rs) > 0
  PROVE  LET s == Sorted(rs) IN
         Cuts(rs) = IF Count(rs) > 1 /\ Cut(s) THEN {s[FirstLargest(s)]} ELSE {}
<1> DEFINE s == Sorted(rs)
           n == Count(rs)
           m == FirstLargest(s)
<1>1. n \in Nat /\ n > 0 /\ Len(s) = n /\ AtMost(rs, Max(Values(rs))) = n
  BY SortedIsSeq, ValuesFacts
\* A value of Jumps as a position.
<1>2. ASSUME NEW v \in Jumps(rs)
      PROVE  \E k \in 1..(n - 1) : /\ v = s[k] /\ s[k] < s[k + 1]
                                   /\ Jump(rs, v) = Change(s, k) /\ Change(s, k) \in Nat
                                   /\ AtMost(rs, v) = k
  <2>1. PICK k \in 1..(n - 1) : s[k] = v /\ s[k] < s[k + 1]
    BY JumpsAreRises
  <2>2. Jump(rs, s[k]) = Change(s, k) /\ AtMost(rs, s[k]) = k
    BY <2>1, RiseIsCounted
  <2>3. Change(s, k) \in Nat
    BY ChangeFacts
  <2> QED
    BY <2>1, <2>2, <2>3
<1>3. CASE n = 1
  <2>1. Jumps(rs) = {}
    BY <1>2, <1>3
  <2> QED
    BY <1>3, <2>1 DEF Cuts
<1>4. CASE n > 1
  <2>1. /\ m \in 1..(n - 1)
        /\ \A k \in 1..(n - 1) : /\ Change(s, k) <= Change(s, m)
                                 /\ Change(s, k) = Change(s, m) => m <= k
    BY <1>4, FirstLargestFacts
  <2>2. /\ Change(s, m) \in Nat /\ s[m] \in Nat
        /\ Change(s, m) > 0 => s[m] < s[m + 1]
    <3>1. m \in 1..n
      BY <1>1, <2>1
    <3> QED
      BY <2>1, <3>1, ChangeFacts, SortedIsSeq
  <2>3. Change(s, m) > 0 => /\ AtMost(rs, s[m]) = m /\ s[m] \in Jumps(rs)
                            /\ Jump(rs, s[m]) = Change(s, m)
    BY <2>1, <2>2, RiseIsCounted
  \* No jump is larger than the first of the largest, and none as large comes before it.
  <2>4. ASSUME NEW w \in Jumps(rs)
        PROVE  /\ w \in Nat /\ Jump(rs, w) \in Nat
               /\ Jump(rs, w) < Change(s, m) \/ (Jump(rs, w) = Change(s, m) /\ s[m] <= w)
    <3>1. PICK k \in 1..(n - 1) : /\ w = s[k] /\ Jump(rs, w) = Change(s, k) /\ Change(s, k) \in Nat
      BY <1>2
    <3>2. k \in 1..n /\ m \in 1..n
      BY <1>1, <2>1
    <3>3. m <= k => s[m] <= s[k]
      BY <3>2, SortedAscends
    <3>4. w \in Nat
      BY <3>1, <3>2, SortedIsSeq
    <3> QED
      BY <2>1, <2>2, <3>1, <3>3, <3>4
  <2>5. Cut(s) <=> Change(s, m) >= Threshold /\ m - 1 >= n \div 2
    BY <1>1 DEF Cut
  <2>6. Threshold \in Nat /\ Threshold > 0
    BY GasAssumption
  <2>7. Change(s, m) > 0 => (s[m] \in Cuts(rs) <=> Cut(s))
    BY <1>1, <2>2, <2>3, <2>4, <2>5 DEF Cuts
  <2>8. ASSUME NEW v \in Cuts(rs)
        PROVE  Change(s, m) > 0 /\ v = s[m]
    <3>1. /\ v \in Jumps(rs) /\ Jump(rs, v) >= Threshold
          /\ \A w \in Jumps(rs) : Jump(rs, w) < Jump(rs, v) \/ (Jump(rs, w) = Jump(rs, v) /\ v <= w)
      BY DEF Cuts
    <3>2. /\ v \in Nat /\ Jump(rs, v) \in Nat
          /\ Jump(rs, v) < Change(s, m) \/ (Jump(rs, v) = Change(s, m) /\ s[m] <= v)
      BY <2>4, <3>1
    <3>3. Change(s, m) > 0
      BY <2>2, <2>6, <3>1, <3>2
    <3>4. Change(s, m) < Jump(rs, v) \/ (Change(s, m) = Jump(rs, v) /\ v <= s[m])
      BY <2>3, <3>1, <3>3
    <3> HIDE DEF s, m
    <3> QED
      BY <2>2, <3>2, <3>3, <3>4
  <2>9. Cut(s) => Change(s, m) > 0
    BY <2>2, <2>5, <2>6
  <2>10. Cuts(rs) = IF Cut(s) THEN {s[m]} ELSE {}
    BY <2>7, <2>8, <2>9
  <2> QED
    BY <1>4, <2>10
<1> QED
  BY <1>1, <1>3, <1>4

\* More than half of the paying blocks paid at most the estimate.
LEMMA EstimateCovers ==
  ASSUME NEW rs \in Seq(Nat), Count(rs) > 0
  PROVE  2 * AtMost(rs, EstimatePriorityFee(rs)) > Count(rs)
<1> DEFINE s == Sorted(rs)
           n == Count(rs)
           d == IF Count(rs) > 1 /\ Cut(s) THEN FirstLargest(s) - 1 ELSE 0
           k == d + (n - d) \div 2 + 1
<1>1. d \in 0..(n - 1) /\ k \in 1..n /\ EstimatePriorityFee(rs) = s[k]
  BY EstimateIsAt
<1>2. AtMost(rs, s[k]) \in Nat /\ k <= AtMost(rs, s[k])
  BY <1>1, SortedCounts
<1>3. n \in Nat
  BY SortedIsSeq
<1> HIDE DEF s, n, d
<1>4. 2 * k > n
  <2>1. n - d \in Nat /\ d \in Nat
    BY <1>1, <1>3
  <2>2. \A x \in Nat : x \div 2 \in Nat /\ 2 * (x \div 2) + 1 >= x
    OBVIOUS
  <2> DEFINE h == (n - d) \div 2
  <2>3. h \in Nat /\ 2 * h + 1 >= n - d
    BY <2>1, <2>2
  <2> HIDE DEF h
  <2>4. 2 * (d + h + 1) > n
    BY <1>3, <2>1, <2>3
  <2> QED
    BY <2>4 DEF h
<1> HIDE DEF k
<1>5. k \in Nat /\ 2 * AtMost(rs, s[k]) > n
  BY <1>1, <1>2, <1>3, <1>4
<1> QED
  BY <1>1, <1>5 DEF n

\* The estimate is the median by counting.
LEMMA EstimateCounts ==
  ASSUME rewards \in Seq(Nat)
  PROVE  EstimateIsMedian
<1> DEFINE rs == rewards
           e == EstimatePriorityFee(rs)
           n == Count(rs)
           s == Sorted(rs)
           m == FirstLargest(s)
           cut == n > 1 /\ Cut(s)
           dropped == IF Values(rs) # {} /\ Cuts(rs) # {}
                      THEN AtMost(rs, CHOOSE v \in Cuts(rs) : TRUE) - 1 ELSE 0
           left == n - dropped
<1>1. CASE Values(rs) = {}
  <2>1. Len(Sorted(rs)) = 0
    BY <1>1, ValuesFacts, SortedIsSeq
  <2> QED
    BY <1>1, <2>1 DEF EstimateIsMedian, EstimatePriorityFee
<1>2. CASE Values(rs) # {}
  <2>1. n \in Nat /\ n > 0
    BY <1>2, SortedIsSeq, ValuesFacts
  <2>2. Cuts(rs) = IF cut THEN {s[m]} ELSE {}
    BY <2>1, CutsAre
  <2>3. dropped = IF cut THEN m - 1 ELSE 0
    <3>1. CASE cut
      <4>1. m \in 1..(n - 1) /\ Change(s, m) \in Nat /\ Change(s, m) > 0
        <5>1. m \in 1..(n - 1)
          BY <3>1, FirstLargestFacts
        <5>2. Change(s, m) \in Nat
          BY <5>1, ChangeFacts
        <5>3. Change(s, m) >= Threshold /\ Threshold \in Nat /\ Threshold > 0
          BY <3>1, GasAssumption DEF Cut
        <5> QED
          BY <5>1, <5>2, <5>3
      <4>2. AtMost(rs, s[m]) = m
        BY <4>1, ChangeFacts, RiseIsCounted
      <4>3. Cuts(rs) = {s[m]} /\ (CHOOSE v \in Cuts(rs) : TRUE) = s[m]
        BY <2>2, <3>1
      <4> QED
        BY <1>2, <3>1, <4>2, <4>3
    <3>2. CASE ~cut
      BY <2>2, <3>2
    <3> QED
      BY <3>1, <3>2
  <2> HIDE DEF dropped
  <2> DEFINE k == dropped + (n - dropped) \div 2 + 1
  <2>4. dropped \in 0..(n - 1) /\ k \in 1..n /\ e = s[k]
    BY <2>1, <2>3, EstimateIsAt
  <2>5. /\ e \in Values(rs)
        /\ AtMost(rs, e) \in Nat /\ k <= AtMost(rs, e)
        /\ Below(rs, e) \in Nat /\ Below(rs, e) < k
    BY <2>4, SortedCounts
  <2> HIDE DEF e, n, s, m
  <2>6. dropped \in Nat /\ (n - dropped) \div 2 \in Int
    BY <2>1, <2>4
  <2>7. /\ Below(rs, e) - dropped <= (n - dropped) \div 2
        /\ (n - dropped) \div 2 < AtMost(rs, e) - dropped
    <3> DEFINE h == (n - dropped) \div 2
    <3>1. h \in Int /\ dropped + h + 1 <= AtMost(rs, e) /\ Below(rs, e) < dropped + h + 1
      BY <2>5, <2>6
    <3> HIDE DEF h
    <3>2. Below(rs, e) - dropped <= h /\ h < AtMost(rs, e) - dropped
      BY <2>5, <2>6, <3>1
    <3> QED
      BY <3>2 DEF h
  <2> QED
    BY <1>2, <2>5, <2>7 DEF EstimateIsMedian, e, n, dropped, Count
<1> QED
  BY <1>1, <1>2

-----------------------------------------------------------------------------
(* The transaction's fees. *)

\* The estimate is a fee: a reward that some block paid, or nothing.
LEMMA EstimateType ==
  ASSUME NEW rs \in Seq(Nat)
  PROVE  EstimatePriorityFee(rs) \in Nat
<1>1. Count(rs) \in Nat /\ Len(Sorted(rs)) = Count(rs)
  BY SortedIsSeq
<1>2. CASE Count(rs) = 0
  BY <1>1, <1>2 DEF EstimatePriorityFee
<1>3. CASE Count(rs) > 0
  <2>1. \E k \in 1..Count(rs) : EstimatePriorityFee(rs) = Sorted(rs)[k]
    BY <1>3, EstimateIsAt
  <2> QED
    BY <2>1, SortedIsSeq
<1> QED
  BY <1>1, <1>2, <1>3

\* Every tier leaves room for the largest rise of the base fee in one block: for
\* a rise by 1 of a small fee too, since no tier but the lowest is that small.
LEMMA SurgeCovers ==
  ASSUME NEW b \in Nat
  PROVE  BaseFeeSurged(b) \in Nat /\ (b # 0 => b + Rise(b) <= BaseFeeSurged(b))
<1>1. \A x \in {12, 14, 16} : (b * x) \div 10 \in Nat /\ (b >= 5 => b + Rise(b) <= (b * x) \div 10)
  BY DEF Rise
<1>2. b * 2 \in Nat /\ (b # 0 => b + Rise(b) <= b * 2)
  BY DEF Rise
<1>3. b <= Low \/ b >= 5
  BY GasAssumption
<1> QED
  BY <1>1, <1>2, <1>3 DEF BaseFeeSurged

\* The base fee since it was read: it has not changed before the next block, and
\* has risen once after it; the cap that was computed from it.
SinceRead ==
  /\ step = "block" => since = 0
  /\ step \in {"history", "send", "sent", "called"} =>
       /\ since = 0 => base = read
       /\ since = 1 => base <= read + Rise(read)
       /\ read # 0
  /\ step \in {"send", "sent"} => BaseFeeSurged(read) <= fee.cap

Inv == TypeOK /\ SinceRead

\* The initial states satisfy the invariant.
LEMMA InitInv ==
  ASSUME Init
  PROVE  Inv
<1>1. PICK n \in 0..Window : rewards \in [1..n -> Rewards]
  BY DEF Init
<1>2. n \in Nat /\ n <= Window
  BY GasAssumption
<1>3. rewards \in Seq(Rewards)
  BY <1>1, <1>2, SeqDef
<1>4. Len(rewards) = n
  BY <1>1, <1>2, <1>3, LenProperties
<1>5. base \in Nat \ {0} /\ 0 \in 0..MaxBlocks
  BY GasAssumption DEF Init
<1> QED
  BY <1>2, <1>3, <1>4, <1>5 DEF Init, Inv, TypeOK, SinceRead, NoFee

\* PremiumEstimation keeps the invariant.
LEMMA PremiumEstimationStep ==
  ASSUME Inv, PremiumEstimation
  PROVE  Inv'
<1> DEFINE tip == EstimatePriorityFee(rewards)
           surged == BaseFeeSurged(read)
<1>1. rewards \in Seq(Nat)
  BY GasAssumption, SeqMonotonic DEF Inv, TypeOK
<1>2. tip \in Nat /\ surged \in Nat
  BY <1>1, EstimateType, SurgeCovers DEF Inv, TypeOK
<1>3. /\ fee' = [tip |-> tip, cap |-> MaxFee(tip, surged)] /\ step' = "send" /\ step = "history"
      /\ UNCHANGED <<rewards, base, read, since>>
  BY DEF PremiumEstimation
<1> HIDE DEF tip
<1>4. MaxFee(tip, surged) \in Nat /\ tip <= MaxFee(tip, surged) /\ surged <= MaxFee(tip, surged)
  BY <1>2 DEF MaxFee
<1>5. TypeOK'
  BY <1>2, <1>3, <1>4 DEF Inv, TypeOK
<1>6. SinceRead'
  BY <1>3, <1>4 DEF Inv, SinceRead, BaseFeeSurged, Rise
<1> QED
  BY <1>5, <1>6 DEF Inv

\* NewBlock keeps the invariant.
LEMMA NewBlockStep ==
  ASSUME Inv, NewBlock
  PROVE  Inv'
<1>1. PICK r \in Rewards : rewards' = Append(IF Len(rewards) = Window THEN Tail(rewards) ELSE rewards, r)
  BY DEF NewBlock
<1>2. rewards \in Seq(Rewards) /\ Len(rewards) \in Nat /\ Len(rewards) <= Window /\ Window \in Nat /\ Window > 0
  BY LenProperties, GasAssumption DEF Inv, TypeOK
<1>3. rewards' \in Seq(Rewards) /\ Len(rewards') <= Window
  <2>1. CASE Len(rewards) = Window
    <3>1. rewards # <<>>
      BY <1>2, <2>1
    <3>2. Tail(rewards) \in Seq(Rewards) /\ Len(Tail(rewards)) = Len(rewards) - 1
      BY <1>2, <3>1, HeadTailProperties
    <3>3. Append(Tail(rewards), r) \in Seq(Rewards) /\ Len(Append(Tail(rewards), r)) = Len(Tail(rewards)) + 1
      BY <3>2, AppendProperties
    <3> QED
      BY <1>1, <1>2, <2>1, <3>2, <3>3
  <2>2. CASE Len(rewards) # Window
    <3>1. Append(rewards, r) \in Seq(Rewards) /\ Len(Append(rewards, r)) = Len(rewards) + 1
      BY <1>2, AppendProperties
    <3> QED
      BY <1>1, <1>2, <2>2, <3>1
  <2> QED
    BY <2>1, <2>2
<1>4. /\ base \in Nat /\ base' \in Nat \ {0} /\ base' <= base + Rise(base)
      /\ since \in 0..MaxBlocks /\ MaxBlocks \in Nat /\ since < MaxBlocks /\ since' = since + 1
      /\ step \notin {"block", "error"} /\ UNCHANGED <<step, read, fee>>
  BY GasAssumption DEF Inv, TypeOK, NewBlock, Grown
<1>5. TypeOK'
  BY <1>3, <1>4 DEF Inv, TypeOK
<1>6. SinceRead'
  <2>1. since' # 0 /\ (since' = 1 => since = 0)
    BY <1>4
  <2>2. (fee.cap)' = fee.cap /\ BaseFeeSurged(read)' = BaseFeeSurged(read)
    BY <1>4 DEF BaseFeeSurged
  <2> QED
    BY <1>4, <2>1, <2>2 DEF Inv, SinceRead, TypeOK, Rise
<1> QED
  BY <1>5, <1>6 DEF Inv

\* Every step keeps the invariant: one case per action.
LEMMA NextStep ==
  ASSUME Inv, [Next]_vars
  PROVE  Inv'
<1> USE DEF Inv, TypeOK, SinceRead, Rise
<1>1. CASE GetBlock
  BY <1>1 DEF GetBlock
<1>2. CASE PremiumEstimation
  BY <1>2, PremiumEstimationStep
<1>3. CASE SendValue
  BY <1>3 DEF SendValue, BaseFeeSurged
<1>4. CASE CallWithPremiumEstimation
  BY <1>4 DEF CallWithPremiumEstimation
<1>5. CASE Fails
  BY <1>5 DEF Fails
<1>6. CASE NewBlock
  BY <1>6, NewBlockStep
<1>7. CASE UNCHANGED vars
  BY <1>7 DEF vars, BaseFeeSurged
<1> QED
  BY <1>1, <1>2, <1>3, <1>4, <1>5, <1>6, <1>7 DEF Next

\* The invariant is one of the specification.
LEMMA Invariance == Spec => []Inv
BY InitInv, NextStep, PTL DEF Spec

\* premium_estimation always makes a valid transaction: fees are numbers, and
\* the tip is at most the cap.
THEOREM TypeCorrect == Spec => []TypeOK
<1>1. Inv => TypeOK
  BY DEF Inv
<1> QED
  BY <1>1, Invariance, PTL

\* The cap of send_value covers the base fee of the block after the one that was
\* read, in every tier and whatever happens between the two requests.
THEOREM CapsCoverTheNextBlock == Spec => []CapCoversNextBlock
<1>1. Inv => CapCoversNextBlock
  <2> SUFFICES ASSUME Inv, step = "sent", since <= 1 PROVE base <= fee.cap
    BY DEF CapCoversNextBlock
  <2>1. /\ base \in Nat /\ read \in Nat /\ fee.cap \in Nat /\ since \in Nat
        /\ since = 0 \/ since = 1
    BY GasAssumption DEF Inv, TypeOK
  <2>2. BaseFeeSurged(read) \in Nat /\ read + Rise(read) <= BaseFeeSurged(read)
    BY <2>1, SurgeCovers DEF Inv, SinceRead
  <2>3. base <= read + Rise(read) /\ BaseFeeSurged(read) <= fee.cap
    BY <2>1 DEF Inv, SinceRead, Rise
  <2>4. read + Rise(read) \in Nat
    BY <2>1 DEF Rise
  <2> QED
    BY <2>1, <2>2, <2>3, <2>4
<1> QED
  BY <1>1, Invariance, PTL

\* The tip of estimate_priority_fee is at least what more than half of the paying
\* blocks paid, however many rewards it drops.
THEOREM TipsCoverMostBlocks == Spec => []TipCoversMostBlocks
<1>1. Inv => TipCoversMostBlocks
  <2> SUFFICES ASSUME Inv, Values(rewards) # {}
               PROVE  2 * AtMost(rewards, EstimatePriorityFee(rewards)) > Cardinality(Paying(rewards))
    BY DEF TipCoversMostBlocks
  <2>1. rewards \in Seq(Nat)
    BY GasAssumption, SeqMonotonic DEF Inv, TypeOK
  <2>2. Count(rewards) > 0
    BY <2>1, ValuesFacts, SortedIsSeq
  <2> QED
    BY <2>1, <2>2, EstimateCovers DEF Count
<1> QED
  BY <1>1, Invariance, PTL

\* estimate_priority_fee computes, for every history, the upper median of the
\* rewards that are left when those before the largest jump are dropped.
THEOREM EstimatesAreMedians == Spec => []EstimateIsMedian
<1>1. Inv => EstimateIsMedian
  <2> SUFFICES ASSUME Inv PROVE EstimateIsMedian
    OBVIOUS
  <2>1. rewards \in Seq(Nat)
    BY GasAssumption, SeqMonotonic DEF Inv, TypeOK
  <2> QED
    BY <2>1, EstimateCounts
<1> QED
  BY <1>1, Invariance, PTL
=============================================================================
