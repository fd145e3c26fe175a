------------------------ MODULE ReserveOrdinalsProofs ------------------------
(***************************************************************************)
(* Proofs about ReserveOrdinals: scaling down by the ordinals that the walk*)
(* of resizeStatefulSet and getReserveIndex computes removes exactly the   *)
(* nodes the walk has picked, and never the master.                        *)
(***************************************************************************)
EXTENDS ReserveOrdinals, FiniteSetTheorems, TLAPS

-----------------------------------------------------------------------------
(* Counting the elements of a finite set of naturals *)

\* The smaller and the larger elements, and the place of x in ascending order.
Below(S, x) == {y \in S : y < x}
Above(S, x) == {y \in S : y > x}
Rank(S, x) == Cardinality(Below(S, x))

\* A larger element has a larger rank, and ranks are below the cardinality.
LEMMA RankMonotone ==
  ASSUME NEW S \in SUBSET Nat, IsFiniteSet(S)
  PROVE  /\ \A x \in S : Rank(S, x) \in 0..(Cardinality(S) - 1)
         /\ \A x, y \in S : x < y => Rank(S, x) < Rank(S, y)
<1>1. ASSUME NEW x \in S PROVE Rank(S, x) \in 0..(Cardinality(S) - 1)
  <2>1. Below(S, x) \in SUBSET (S \ {x})
    BY DEF Below
  <2>2. IsFiniteSet(S \ {x}) /\ Cardinality(S \ {x}) = Cardinality(S) - 1
    BY FS_RemoveElement
  <2>3. IsFiniteSet(Below(S, x)) /\ Cardinality(Below(S, x)) <= Cardinality(S \ {x})
    BY <2>1, <2>2, FS_Subset
  <2>4. Cardinality(Below(S, x)) \in Nat /\ Cardinality(S) \in Nat
    BY <2>3, FS_CardinalityType
  <2> QED
    BY <2>2, <2>3, <2>4 DEF Rank
<1>2. ASSUME NEW x \in S, NEW y \in S, x < y PROVE Rank(S, x) < Rank(S, y)
  <2>1. Below(S, x) \in SUBSET Below(S, y) /\ Below(S, x) # Below(S, y)
    <3>1. \A z \in S : z < x => z < y
      BY <1>2
    <3>2. x \in Below(S, y) /\ x \notin Below(S, x)
      BY <1>2 DEF Below
    <3>3. Below(S, x) \in SUBSET Below(S, y)
      BY <3>1, Zenon DEF Below
    <3> QED
      BY <3>2, <3>3
  <2>2. IsFiniteSet(Below(S, y))
    <3>1. Below(S, y) \in SUBSET S
      BY DEF Below
    <3> QED
      BY <3>1, FS_Subset
  <2>3. /\ Cardinality(Below(S, x)) <= Cardinality(Below(S, y))
        /\ Cardinality(Below(S, x)) # Cardinality(Below(S, y))
    BY <2>1, <2>2, FS_Subset
  <2> QED
    BY <1>1, <2>3 DEF Rank
<1> QED
  BY <1>1, <1>2

\* There are k numbers from 0 to k - 1.
LEMMA CountInitial ==
  ASSUME NEW k \in Nat
  PROVE  IsFiniteSet(0..(k - 1)) /\ Cardinality(0..(k - 1)) = k
<1>1. 0 \in Int /\ k - 1 \in Int
  OBVIOUS
<1>2. /\ IsFiniteSet(0..(k - 1))
      /\ Cardinality(0..(k - 1)) = IF 0 > k - 1 THEN 0 ELSE (k - 1) - 0 + 1
  BY <1>1, FS_Interval
<1> QED
  BY <1>2

\* What is left of a set without some of its elements.
LEMMA CountRest ==
  ASSUME NEW S, IsFiniteSet(S), NEW T \in SUBSET S
  PROVE  IsFiniteSet(S \ T) /\ Cardinality(S \ T) = Cardinality(S) - Cardinality(T)
<1>1. S \cap T = T
  OBVIOUS
<1> QED
  BY <1>1, FS_Difference

\* So every rank below the cardinality belongs to exactly one element.
LEMMA RankBijection ==
  ASSUME NEW S \in SUBSET Nat, IsFiniteSet(S)
  PROVE  [x \in S |-> Rank(S, x)] \in Bijection(S, 0..(Cardinality(S) - 1))
<1> DEFINE n == Cardinality(S)
           rank == [x \in S |-> Rank(S, x)]
<1>1. n \in Nat
  BY FS_CardinalityType
<1>2. rank \in [S -> 0..(n - 1)]
  BY RankMonotone
<1>3. ASSUME NEW x \in S, NEW y \in S, rank[x] = rank[y] PROVE x = y
  BY <1>3, RankMonotone
<1>4. rank \in Injection(S, 0..(n - 1))
  BY <1>2, <1>3 DEF Injection, IsInjective
<1>5. IsFiniteSet(0..(n - 1)) /\ Cardinality(0..(n - 1)) = n
  BY <1>1, CountInitial
<1>6. rank \in Surjection(S, 0..(n - 1))
  <2> HIDE DEF rank
  <2> QED
    BY <1>4, <1>5, FS_Injection
<1> QED
  BY <1>4, <1>6 DEF Bijection

\* The elements of the k lowest ranks are k.
LEMMA CountLowest ==
  ASSUME NEW S \in SUBSET Nat, IsFiniteSet(S), NEW k \in 0..Cardinality(S)
  PROVE  /\ IsFiniteSet({x \in S : Rank(S, x) < k})
         /\ Cardinality({x \in S : Rank(S, x) < k}) = k
<1> DEFINE low == {x \in S : Rank(S, x) < k}
           rank == [x \in S |-> Rank(S, x)]
           f == [x \in low |-> Rank(S, x)]
<1>1. Cardinality(S) \in Nat
  BY FS_CardinalityType
<1>2. IsFiniteSet(low)
  <2>1. low \in SUBSET S
    OBVIOUS
  <2> HIDE DEF low
  <2> QED
    BY <2>1, FS_Subset, Zenon
<1>3. f \in [low -> 0..(k - 1)]
  <2>1. ASSUME NEW x \in low PROVE Rank(S, x) \in 0..(k - 1)
    <3>1. Rank(S, x) \in 0..(Cardinality(S) - 1) /\ Rank(S, x) < k
      BY RankMonotone
    <3> QED
      BY <1>1, <3>1
  <2> QED
    BY <2>1, Zenon
<1>4. ASSUME NEW x \in low, NEW y \in low, f[x] = f[y] PROVE x = y
  BY <1>4, RankMonotone
<1>5. ASSUME NEW i \in 0..(k - 1) PROVE \E x \in low : f[x] = i
  <2>1. rank \in Surjection(S, 0..(Cardinality(S) - 1)) /\ i \in 0..(Cardinality(S) - 1)
    BY <1>1, RankBijection DEF Bijection
  <2>2. PICK x \in S : rank[x] = i
    BY <2>1, Zenon DEF Surjection
  <2> QED
    BY <2>2
<1>6. f \in Bijection(low, 0..(k - 1))
  <2>1. f \in Injection(low, 0..(k - 1))
    BY <1>3, <1>4 DEF Injection, IsInjective
  <2>2. f \in Surjection(low, 0..(k - 1))
    BY <1>3, <1>5 DEF Surjection
  <2> QED
    BY <2>1, <2>2 DEF Bijection
<1>7. Cardinality(0..(k - 1)) = k
  BY <1>1, CountInitial
<1>8. ExistsBijection(low, 0..(k - 1))
  BY <1>6 DEF ExistsBijection
<1> HIDE DEF low
<1>9. Cardinality(low) = k
  BY <1>2, <1>7, <1>8, FS_Bijection
<1> USE DEF low
<1> QED
  BY <1>2, <1>9

\* An element splits the others into those below and those above it.
LEMMA CountAbove ==
  ASSUME NEW S \in SUBSET Nat, IsFiniteSet(S), NEW x \in S
  PROVE  Cardinality(Above(S, x)) = Cardinality(S) - 1 - Rank(S, x)
<1>1. Above(S, x) = (S \ {x}) \ Below(S, x)
  <2>1. \A y \in S : y > x <=> y # x /\ ~(y < x)
    OBVIOUS
  <2> QED
    BY <2>1, Zenon DEF Above, Below
<1>2. (S \ {x}) \cap Below(S, x) = Below(S, x)
  BY DEF Below
<1>3. IsFiniteSet(S \ {x}) /\ Cardinality(S \ {x}) = Cardinality(S) - 1
  BY FS_RemoveElement
<1> QED
  BY <1>1, <1>2, <1>3, FS_Difference, ZenonT(60) DEF Rank

\* Ascending(S) is the sequence of the elements of S, the smallest first.
LEMMA AscendingFacts ==
  ASSUME NEW S \in SUBSET Nat, IsFiniteSet(S)
  PROVE  /\ Ascending(S) \in Seq(S)
         /\ Len(Ascending(S)) = Cardinality(S)
         /\ Range(Ascending(S)) = S
         /\ \A j, k \in 1..Cardinality(S) : j < k => Ascending(S)[j] < Ascending(S)[k]
<1> DEFINE n == Cardinality(S)
           asc == Ascending(S)
           rank == [x \in S |-> Rank(S, x)]
<1>1. n \in Nat
  BY FS_CardinalityType
<1>2. ASSUME NEW j \in 1..n PROVE asc[j] \in S /\ Rank(S, asc[j]) = j - 1
  <2>1. rank \in Surjection(S, 0..(n - 1)) /\ j - 1 \in 0..(n - 1)
    BY <1>1, RankBijection DEF Bijection
  <2>2. \E x \in S : Rank(S, x) = j - 1
    <3>1. PICK x \in S : rank[x] = j - 1
      BY <2>1, Zenon DEF Surjection
    <3> QED
      BY <3>1
  <2>3. asc[j] = CHOOSE x \in S : Rank(S, x) = j - 1
    BY Zenon DEF Ascending, Rank, Below
  <2> QED
    BY <2>2, <2>3
<1>3. asc \in [1..n -> S]
  <2>1. asc = [j \in 1..n |-> CHOOSE x \in S : Cardinality({y \in S : y < x}) = j - 1]
    BY DEF Ascending
  <2> HIDE DEF asc
  <2> QED
    BY <1>2, <2>1, Zenon
<1>4. asc \in Seq(S) /\ Len(asc) = n
  <2> HIDE DEF asc, n
  <2> QED
    BY <1>1, <1>3
<1>5. ASSUME NEW x \in S PROVE \E j \in 1..n : asc[j] = x
  <2>1. Rank(S, x) \in 0..(n - 1)
    BY RankMonotone
  <2>2. Rank(S, x) + 1 \in 1..n /\ (Rank(S, x) + 1) - 1 = Rank(S, x)
    BY <1>1, <2>1
  <2>3. asc[Rank(S, x) + 1] \in S /\ Rank(S, asc[Rank(S, x) + 1]) = Rank(S, x)
    BY <1>2, <2>2
  <2>4. \A y \in S : Rank(S, y) = Rank(S, x) => y = x
    BY RankMonotone
  <2>5. asc[Rank(S, x) + 1] = x
    BY <2>3, <2>4, Zenon
  <2> QED
    BY <2>2, <2>5
<1>6. Range(asc) = S
  <2>1. DOMAIN asc = 1..n
    BY <1>3
  <2> HIDE DEF asc, n
  <2> QED
    BY <1>2, <1>5, <2>1, Zenon DEF Range
<1>7. ASSUME NEW j \in 1..n, NEW k \in 1..n, j < k PROVE asc[j] < asc[k]
  <2>1. /\ asc[j] \in S /\ Rank(S, asc[j]) = j - 1
        /\ asc[k] \in S /\ Rank(S, asc[k]) = k - 1
    BY <1>2
  <2>2. asc[j] \in Nat /\ asc[k] \in Nat
    BY <2>1, Zenon
  <2>3. asc[k] < asc[j] => k - 1 < j - 1
    BY <2>1, RankMonotone, Zenon
  <2> QED
    BY <1>7, <2>1, <2>2, <2>3
<1> QED
  BY <1>4, <1>6, <1>7

\* s has the elements of S at its positions 1..n, in ascending order.
Enumerates(s, n, S) ==
  /\ \A j \in 1..n : s[j] \in S
  /\ \A x \in S : \E j \in 1..n : s[j] = x
  /\ \A j, k \in 1..n : j < k => s[j] < s[k]

\* There is only one way to list a set in ascending order.
LEMMA AscendingUnique ==
  ASSUME NEW S \in SUBSET Nat, IsFiniteSet(S), NEW n \in Nat, NEW s, Enumerates(s, n, S)
  PROVE  Cardinality(S) = n /\ \A j \in 1..n : Ascending(S)[j] = s[j]
<1> USE DEF Enumerates
<1>1. ASSUME NEW T \in SUBSET S, NEW k \in 0..n,
             \A j \in 1..n : s[j] \in T <=> j <= k
      PROVE  Cardinality(T) = k
  <2> DEFINE f == [j \in 1..k |-> s[j]]
  <2>1. 1..k \subseteq 1..n /\ \A j \in 1..n : j <= k <=> j \in 1..k
    OBVIOUS
  <2>2. \A j \in 1..k : s[j] \in T
    BY <1>1, <2>1
  <2>3. f \in [1..k -> T]
    BY <2>2
  <2>4. \A i, j \in 1..k : s[i] = s[j] => i = j
    <3> SUFFICES ASSUME NEW i \in 1..k, NEW j \in 1..k, s[i] = s[j] PROVE i = j
      OBVIOUS
    <3>1. s[i] \in Nat /\ s[j] \in Nat /\ i \in 1..n /\ j \in 1..n
      BY <2>1, Zenon
    <3>2. ~(s[i] < s[j]) /\ ~(s[j] < s[i])
      BY <3>1
    <3>3. ~(i < j) /\ ~(j < i)
      BY <3>1, <3>2, Zenon
    <3> QED
      BY <3>3
  <2>5. \A x \in T : \E j \in 1..k : f[j] = x
    <3> SUFFICES ASSUME NEW x \in T PROVE \E j \in 1..k : f[j] = x
      OBVIOUS
    <3>1. PICK j \in 1..n : s[j] = x
      BY Zenon
    <3>2. j \in 1..k
      BY <1>1, <2>1, <3>1, Zenon
    <3> QED
      BY <3>1, <3>2
  <2>6. f \in Bijection(1..k, T)
    <3>1. f \in Injection(1..k, T)
      BY <2>3, <2>4 DEF Injection, IsInjective
    <3>2. f \in Surjection(1..k, T)
      BY <2>3, <2>5 DEF Surjection
    <3> QED
      BY <3>1, <3>2 DEF Bijection
  <2>7. ExistsBijection(1..k, T)
    BY <2>6 DEF ExistsBijection
  <2>8. IsFiniteSet(1..k) /\ Cardinality(1..k) = k
    <3>1. 1 \in Int /\ k \in Int
      OBVIOUS
    <3>2. IsFiniteSet(1..k) /\ Cardinality(1..k) = IF 1 > k THEN 0 ELSE k - 1 + 1
      BY <3>1, FS_Interval, Zenon
    <3> QED
      BY <3>2
  <2> QED
    BY <2>7, <2>8, FS_Bijection, Zenon
<1>2. Cardinality(S) = n
  <2>1. S \in SUBSET S /\ n \in 0..n /\ \A j \in 1..n : s[j] \in S <=> j <= n
    OBVIOUS
  <2> QED
    BY <1>1, <2>1, Zenon
<1>3. ASSUME NEW j \in 1..n PROVE Rank(S, s[j]) = j - 1
  <2> DEFINE T == Below(S, s[j])
  <2>1. T \in SUBSET S
    BY DEF Below
  <2>2. ASSUME NEW i \in 1..n PROVE s[i] \in T <=> i <= j - 1
    <3>1. s[i] \in S /\ s[j] \in S /\ s[i] \in Nat /\ s[j] \in Nat
      OBVIOUS
    <3>2. s[i] \in T <=> s[i] < s[j]
      BY <3>1 DEF Below
    <3>3. CASE i < j
      <4>1. s[i] < s[j] /\ i <= j - 1
        BY <3>3
      <4> QED
        BY <3>2, <4>1
    <3>4. CASE ~(i < j)
      <4>1. i = j \/ j < i
        BY <3>4
      <4>2. ~(s[i] < s[j])
        BY <3>1, <4>1
      <4>3. ~(i <= j - 1)
        BY <3>4
      <4> QED
        BY <3>2, <4>2, <4>3
    <3> QED
      BY <3>3, <3>4
  <2>3. j - 1 \in 0..n
    OBVIOUS
  <2> HIDE DEF T
  <2>4. Cardinality(T) = j - 1
    BY <1>1, <2>1, <2>2, <2>3, Zenon
  <2> QED
    BY <2>4, Zenon DEF Rank, T
<1>4. ASSUME NEW j \in 1..n PROVE Ascending(S)[j] = s[j]
  <2>1. Ascending(S)[j] = CHOOSE x \in S : Rank(S, x) = j - 1
    BY <1>2, Zenon DEF Ascending, Rank, Below
  <2>2. s[j] \in S /\ Rank(S, s[j]) = j - 1
    BY <1>3
  <2>3. \A x, y \in S : Rank(S, x) = Rank(S, y) => x = y
    BY RankMonotone
  <2> QED
    BY <2>1, <2>2, <2>3, Zenon
<1> QED
  BY <1>2, <1>4

-----------------------------------------------------------------------------
(* Scaling down *)

\* The ordinals of a list of nodes.
IdxOf(nodes) == {nodes[j].idx : j \in 1..Len(nodes)}

\* A list of nodes in the order of their ordinals, with one master, at position m.
IsListing(nodes, m) ==
  /\ Len(nodes) \in Nat
  /\ IdxOf(nodes) \subseteq Nat
  /\ \A j, k \in 1..Len(nodes) : j < k => nodes[j].idx < nodes[k].idx
  /\ m \in 1..Len(nodes)
  /\ \A j \in 1..Len(nodes) : IsMaster(nodes[j]) <=> j = m

\* The positions the walk collects.
Picked(nodes, delta) ==
  {j \in 1..Len(nodes) : ~IsMaster(nodes[j]) /\ Walked(nodes, delta, j)}

\* No two positions of a listing have the same ordinal.
LEMMA ListingInjective ==
  ASSUME NEW nodes, NEW m, IsListing(nodes, m),
         NEW j \in 1..Len(nodes), NEW k \in 1..Len(nodes)
  PROVE  /\ nodes[j].idx = nodes[k].idx => j = k
         /\ nodes[j].idx < nodes[k].idx => j < k
         /\ nodes[j].idx \in Nat
<1>1. nodes[j].idx \in Nat /\ nodes[k].idx \in Nat
  BY Zenon DEF IsListing, IdxOf
<1>2. /\ j < k => nodes[j].idx < nodes[k].idx
      /\ k < j => nodes[k].idx < nodes[j].idx
  BY Zenon DEF IsListing
<1>3. j \in Nat /\ k \in Nat
  BY DEF IsListing
<1> QED
  BY <1>1, <1>2, <1>3

\* The walk stops when it has collected delta nodes, and there are so many that
\* are no masters.
LEMMA PickedCount ==
  ASSUME NEW nodes, NEW m, IsListing(nodes, m), NEW delta \in 0..(Len(nodes) - 1)
  PROVE  IsFiniteSet(Picked(nodes, delta)) /\ Cardinality(Picked(nodes, delta)) = delta
<1> DEFINE n == Len(nodes)
           others == (1..n) \ {m}
           low == {j \in others : Rank(others, j) < (n - 1) - delta}
<1>1. n \in Nat /\ m \in 1..n /\ \A j \in 1..n : IsMaster(nodes[j]) <=> j = m
  BY DEF IsListing
<1>2. IsFiniteSet(others) /\ Cardinality(others) = n - 1 /\ others \in SUBSET Nat
  <2>1. IsFiniteSet(1..n) /\ Cardinality(1..n) = n
    <3>1. 1 \in Int /\ n \in Int
      BY <1>1
    <3>2. IsFiniteSet(1..n) /\ Cardinality(1..n) = IF 1 > n THEN 0 ELSE n - 1 + 1
      BY <3>1, FS_Interval
    <3> QED
      BY <1>1, <3>2
  <2>2. {m} \in SUBSET (1..n) /\ Cardinality({m}) = 1
    BY <1>1, FS_Singleton, Zenon
  <2>3. IsFiniteSet(others) /\ Cardinality(others) = Cardinality(1..n) - Cardinality({m})
    BY <2>1, <2>2, CountRest
  <2> QED
    BY <1>1, <2>1, <2>2, <2>3
<1>3. ASSUME NEW j \in others
      PROVE  Walked(nodes, delta, j) <=> ~(Rank(others, j) < (n - 1) - delta)
  <2>1. {k \in (j + 1)..n : ~IsMaster(nodes[k])} = Above(others, j)
    <3>1. \A k : k \in (j + 1)..n <=> k \in 1..n /\ k > j
      BY <1>1
    <3>2. \A k \in 1..n : ~IsMaster(nodes[k]) <=> k # m
      BY <1>1
    <3> HIDE DEF n
    <3> QED
      BY <3>1, <3>2, Zenon DEF Above
  <2>2. Cardinality(Above(others, j)) = (n - 1) - 1 - Rank(others, j)
    <3> HIDE DEF others
    <3> QED
      BY <1>2, CountAbove
  <2>3. Rank(others, j) \in 0..((n - 1) - 1)
    <3> HIDE DEF others
    <3> QED
      BY <1>2, RankMonotone
  <2>4. Walked(nodes, delta, j) <=> (n - 1) - 1 - Rank(others, j) < delta
    BY <2>1, <2>2, Zenon DEF Walked
  <2> HIDE DEF others, n
  <2> QED
    BY <1>1, <2>3, <2>4
<1>4. Picked(nodes, delta) = others \ low
  <2>1. \A j \in 1..n : j \in others <=> ~IsMaster(nodes[j])
    BY <1>1
  <2>2. \A j \in Picked(nodes, delta) : j \in others /\ j \notin low
    BY <1>3, <2>1, Zenon DEF Picked
  <2>3. \A j \in others : j \notin low => j \in Picked(nodes, delta)
    BY <1>3, <2>1, Zenon DEF Picked
  <2> HIDE DEF others, low
  <2> QED
    BY <2>2, <2>3, Zenon
<1>5. IsFiniteSet(low) /\ Cardinality(low) = (n - 1) - delta /\ low \in SUBSET others
  <2>1. (n - 1) - delta \in 0..Cardinality(others)
    BY <1>1, <1>2
  <2> HIDE DEF others, n
  <2> QED
    BY <1>2, <2>1, CountLowest, Zenon
<1>6. /\ IsFiniteSet(others \ low)
      /\ Cardinality(others \ low) = Cardinality(others) - Cardinality(low)
  <2> HIDE DEF others, low
  <2> QED
    BY <1>2, <1>5, CountRest, Zenon
<1> HIDE DEF others, low
<1> QED
  BY <1>1, <1>2, <1>4, <1>5, <1>6

\* A node that stays has no node that goes below it, unless that one's ordinal is
\* reserved.
LEMMA GoesBelow ==
  ASSUME NEW nodes, NEW m, IsListing(nodes, m), NEW delta \in 0..(Len(nodes) - 1),
         NEW j \in (1..Len(nodes)) \ Picked(nodes, delta),
         NEW k \in Picked(nodes, delta), k < j
  PROVE  nodes[k].idx <= MasterID(nodes, delta)
<1> DEFINE n == Len(nodes)
           over(i) == {l \in (i + 1)..n : ~IsMaster(nodes[l])}
<1>1. n \in Nat /\ m \in 1..n /\ \A i \in 1..n : IsMaster(nodes[i]) <=> i = m
  BY DEF IsListing
<1>2. k \in 1..n /\ Walked(nodes, delta, k)
  BY DEF Picked
<1>3. Walked(nodes, delta, j)
  <2>1. over(j) \in SUBSET over(k)
    <3>1. \A l : l \in (j + 1)..n => l \in (k + 1)..n
      BY <1>1, <1>2
    <3> QED
      BY <3>1, Zenon
  <2>2. IsFiniteSet(over(k))
    <3>1. IsFiniteSet((k + 1)..n)
      <4>1. k + 1 \in Int /\ n \in Int
        BY <1>1, <1>2
      <4> QED
        BY <4>1, FS_Interval
    <3>2. over(k) \in SUBSET ((k + 1)..n)
      OBVIOUS
    <3> HIDE DEF over
    <3> QED
      BY <3>1, <3>2, FS_Subset, Zenon
  <2>3. Cardinality(over(j)) <= Cardinality(over(k)) /\ IsFiniteSet(over(j))
    <3> HIDE DEF over
    <3> QED
      BY <2>1, <2>2, FS_Subset
  <2>4. Cardinality(over(j)) \in Nat /\ Cardinality(over(k)) \in Nat
    <3> HIDE DEF over
    <3> QED
      BY <2>2, <2>3, FS_CardinalityType
  <2>5. Cardinality(over(k)) < delta
    BY <1>2 DEF Walked
  <2>6. Cardinality(over(j)) < delta
    <3> HIDE DEF over
    <3> QED
      BY <2>3, <2>4, <2>5
  <2> QED
    BY <2>6 DEF Walked
<1>4. j = m
  BY <1>1, <1>3 DEF Picked
<1>5. MasterID(nodes, delta) = nodes[m].idx
  <2> DEFINE passed == {i \in 1..n : IsMaster(nodes[i]) /\ Walked(nodes, delta, i)}
  <2>1. passed = {m}
    BY <1>1, <1>3, <1>4, Zenon
  <2>2. (CHOOSE i \in {m} : \A l \in {m} : i <= l) = m
    BY <1>1
  <2> QED
    BY <2>1, <2>2, Zenon DEF MasterID
<1>6. nodes[k].idx < nodes[m].idx
  BY <1>2, <1>4, Zenon DEF IsListing
<1>7. nodes[k].idx \in Nat /\ nodes[m].idx \in Nat
  BY <1>1, <1>2, ListingInjective, Zenon
<1> QED
  BY <1>5, <1>6, <1>7

\* A sequence has no more different elements than its length.
LEMMA RangeCount ==
  ASSUME NEW s \in Seq(Nat)
  PROVE  /\ Range(s) \subseteq Nat /\ IsFiniteSet(Range(s))
         /\ Cardinality(Range(s)) \in Nat /\ Cardinality(Range(s)) <= Len(s)
<1>1. Len(s) \in Nat /\ DOMAIN s = 1..Len(s) /\ \A j \in 1..Len(s) : s[j] \in Nat
  OBVIOUS
<1>2. s \in Surjection(1..Len(s), Range(s))
  <2>1. s \in [1..Len(s) -> Range(s)]
    BY <1>1 DEF Range
  <2> QED
    BY <1>1, <2>1 DEF Range, Surjection
<1>3. ExistsSurjection(1..Len(s), Range(s))
  BY <1>2 DEF ExistsSurjection
<1>4. IsFiniteSet(Range(s)) /\ Cardinality(Range(s)) <= Len(s)
  BY <1>1, <1>3, FS_NatSurjection, FS_SurjCardinalityBound
<1> QED
  BY <1>1, <1>4, FS_CardinalityType DEF Range

\* A sequence over a set is one over any larger set.
LEMMA SeqOfMore ==
  ASSUME NEW S, NEW T, S \subseteq T
  PROVE  Seq(S) \subseteq Seq(T)
<1>1. ASSUME NEW s \in Seq(S) PROVE s \in Seq(T)
  <2>1. Len(s) \in Nat /\ s \in [1..Len(s) -> S]
    OBVIOUS
  <2>2. s \in [1..Len(s) -> T]
    BY <2>1
  <2> QED
    BY <2>1, <2>2
<1> QED
  BY <1>1

\* The walk reserves only ordinals of the nodes.
LEMMA ReserveType ==
  ASSUME NEW Idx \in SUBSET Nat, IsFiniteSet(Idx),
         NEW nodes, \A j \in 1..Len(nodes) : nodes[j].idx \in Idx, NEW delta
  PROVE  Reserve(nodes, delta) \in Seq(Idx)
<1> DEFINE S == {o \in Victims(nodes, delta) : o <= MasterID(nodes, delta)}
<1>1. S \in SUBSET Idx
  BY Zenon DEF Victims
<1>2. Reserve(nodes, delta) = Ascending(S)
  BY DEF Reserve
<1> HIDE DEF S
<1>3. IsFiniteSet(S) /\ S \in SUBSET Nat
  BY <1>1, FS_Subset, Zenon
<1> QED
  BY <1>1, <1>2, <1>3, AscendingFacts, SeqOfMore, Zenon

\* What is in two sequences is in their concatenation.
LEMMA RangeOfConcat ==
  ASSUME NEW s \in Seq(Nat), NEW t \in Seq(Nat)
  PROVE  s \o t \in Seq(Nat) /\ Range(s \o t) = Range(s) \cup Range(t)
<1>1. /\ s \o t \in Seq(Nat) /\ Len(s \o t) = Len(s) + Len(t)
      /\ Len(s) \in Nat /\ Len(t) \in Nat
      /\ DOMAIN s = 1..Len(s) /\ DOMAIN t = 1..Len(t) /\ DOMAIN (s \o t) = 1..(Len(s) + Len(t))
  OBVIOUS
<1>2. \A j \in 1..Len(s) : j \in 1..(Len(s) + Len(t)) /\ (s \o t)[j] = s[j]
  BY <1>1
<1>3. \A j \in 1..Len(t) : j + Len(s) \in 1..(Len(s) + Len(t)) /\ (s \o t)[j + Len(s)] = t[j]
  BY <1>1
<1>4. \A j \in 1..(Len(s) + Len(t)) :
        \/ j \in 1..Len(s) /\ (s \o t)[j] = s[j]
        \/ j - Len(s) \in 1..Len(t) /\ (s \o t)[j] = t[j - Len(s)]
  BY <1>1
<1>5. Range(s \o t) \subseteq Range(s) \cup Range(t)
  BY <1>1, <1>4, Zenon DEF Range
<1>6. Range(s) \subseteq Range(s \o t)
  BY <1>1, <1>2, Zenon DEF Range
<1>7. Range(t) \subseteq Range(s \o t)
  BY <1>1, <1>3, Zenon DEF Range
<1> QED
  BY <1>1, <1>5, <1>6, <1>7

\* The ordinals OpenKruise has to choose from, and what it chooses.
Free(sts) == (0..(sts.replicas + Len(sts.reserve))) \ Range(sts.reserve)

\* A StatefulSet has at most sts.replicas pods, and with an ordinal it has every
\* smaller one that is not reserved.
LEMMA DesiredFacts ==
  ASSUME NEW sts, sts.replicas \in Nat, sts.reserve \in Seq(Nat)
  PROVE  /\ Desired(sts) = {o \in Free(sts) : Rank(Free(sts), o) < sts.replicas}
         /\ Free(sts) \in SUBSET Nat /\ IsFiniteSet(Free(sts))
         /\ IsFiniteSet(Desired(sts)) /\ Cardinality(Desired(sts)) <= sts.replicas
         /\ \A o \in Desired(sts), p \in Nat :
              p < o /\ p \notin Range(sts.reserve) => p \in Desired(sts)
<1> DEFINE F == Free(sts)
           D == Desired(sts)
<1>1. D = {o \in F : Rank(F, o) < sts.replicas}
  BY DEF Desired, Free, Rank, Below
<1>2. F \in SUBSET Nat /\ IsFiniteSet(F)
  <2>1. sts.replicas + Len(sts.reserve) \in Int /\ 0 \in Int
    OBVIOUS
  <2>2. IsFiniteSet(0..(sts.replicas + Len(sts.reserve)))
    BY <2>1, FS_Interval
  <2>3. F \in SUBSET (0..(sts.replicas + Len(sts.reserve)))
    BY DEF Free
  <2> HIDE DEF F
  <2>4. IsFiniteSet(F)
    BY <2>2, <2>3, FS_Subset, Zenon
  <2> QED
    BY <2>3, <2>4
<1> HIDE DEF F
<1>3. IsFiniteSet(D) /\ Cardinality(D) <= sts.replicas
  <2>1. IsFiniteSet(D) /\ Cardinality(D) <= Cardinality(F)
    <3>1. D \in SUBSET F
      BY <1>1
    <3> HIDE DEF D
    <3> QED
      BY <1>2, <3>1, FS_Subset, Zenon
  <2>2. CASE sts.replicas \in 0..Cardinality(F)
    BY <1>1, <1>2, <2>1, <2>2, CountLowest
  <2>3. CASE ~(sts.replicas \in 0..Cardinality(F))
    <3>1. Cardinality(F) \in Nat /\ Cardinality(D) \in Nat
      BY <1>2, <2>1, FS_CardinalityType
    <3> HIDE DEF D
    <3> QED
      BY <2>1, <2>3, <3>1
  <2> QED
    BY <2>2, <2>3
<1>4. ASSUME NEW o \in D, NEW p \in Nat, p < o, p \notin Range(sts.reserve) PROVE p \in D
  <2>1. o \in F /\ Rank(F, o) < sts.replicas
    BY <1>1
  <2>2. p \in F
    <3>1. o \in 0..(sts.replicas + Len(sts.reserve))
      BY <2>1 DEF F, Free
    <3>2. p \in 0..(sts.replicas + Len(sts.reserve))
      BY <1>4, <3>1
    <3> QED
      BY <1>4, <3>2 DEF F, Free
  <2>3. Rank(F, p) < Rank(F, o)
    BY <1>2, <1>4, <2>1, <2>2, RankMonotone
  <2>4. Rank(F, p) \in Int /\ Rank(F, o) \in Int
    BY <1>2, <2>1, <2>2, RankMonotone
  <2>5. Rank(F, p) < sts.replicas
    BY <2>1, <2>3, <2>4
  <2> HIDE DEF D
  <2> QED
    BY <1>1, <2>2, <2>5
<1> QED
  BY <1>1, <1>2, <1>3, <1>4 DEF F

\* A StatefulSet has exactly sts.replicas pods.
LEMMA DesiredCount ==
  ASSUME NEW sts, sts.replicas \in Nat, sts.reserve \in Seq(Nat)
  PROVE  Cardinality(Desired(sts)) = sts.replicas
<1> DEFINE N == sts.replicas + Len(sts.reserve)
           I == 0..N
           R == Range(sts.reserve)
<1>1. N \in Nat /\ Len(sts.reserve) \in Nat
  OBVIOUS
<1>2. IsFiniteSet(I) /\ Cardinality(I) = N + 1
  <2>1. 0 \in Int /\ N \in Int
    BY <1>1
  <2>2. IsFiniteSet(0..N) /\ Cardinality(0..N) = IF 0 > N THEN 0 ELSE N - 0 + 1
    <3> HIDE DEF N
    <3> QED
      BY <2>1, FS_Interval, Zenon
  <2> QED
    BY <1>1, <2>2
<1>3. IsFiniteSet(R) /\ Cardinality(R) \in Nat /\ Cardinality(R) <= Len(sts.reserve)
  BY RangeCount
<1>4. Free(sts) = I \ R
  BY DEF Free
<1> HIDE DEF I, R
<1>5. Cardinality(I \cap R) <= Cardinality(R) /\ Cardinality(I \cap R) \in Nat
  BY <1>2, <1>3, FS_Intersection, FS_CardinalityType, Zenon
<1>6. IsFiniteSet(I \ R) /\ Cardinality(I \ R) = Cardinality(I) - Cardinality(I \cap R)
  BY <1>2, FS_Difference, Zenon
<1>7. sts.replicas \in 0..Cardinality(Free(sts))
  BY <1>1, <1>2, <1>3, <1>4, <1>5, <1>6, SMTT(60)
<1> QED
  BY <1>7, DesiredFacts, CountLowest, SMTT(60)

\* Without reserved ordinals these are the first ones.
LEMMA DesiredFirst ==
  ASSUME NEW sts, sts.replicas \in Nat, sts.reserve = <<>>
  PROVE  Desired(sts) = 0..(sts.replicas - 1)
<1>1. Free(sts) = 0..sts.replicas
  BY DEF Free, Range
<1>2. Desired(sts) = {o \in 0..sts.replicas : Rank(0..sts.replicas, o) < sts.replicas}
  <2>1. sts.reserve \in Seq(Nat)
    OBVIOUS
  <2> QED
    BY <1>1, <2>1, DesiredFacts, Zenon
<1>3. ASSUME NEW o \in 0..sts.replicas PROVE Rank(0..sts.replicas, o) = o
  <2>1. Below(0..sts.replicas, o) = 0..(o - 1)
    BY DEF Below
  <2>2. Cardinality(0..(o - 1)) = o
    BY CountInitial
  <2> QED
    BY <2>1, <2>2 DEF Rank
<1>4. \A o \in 0..sts.replicas : o \in Desired(sts) <=> o < sts.replicas
  BY <1>2, <1>3
<1>5. Desired(sts) \subseteq 0..sts.replicas
  BY <1>2
<1>6. \A o : o \in 0..(sts.replicas - 1) <=> o \in 0..sts.replicas /\ o < sts.replicas
  OBVIOUS
<1> QED
  BY <1>4, <1>5, <1>6, Zenon

\* Only which ordinals are reserved matters, not how often or in which order.
LEMMA DesiredSame ==
  ASSUME NEW s, s.replicas \in Nat, s.reserve \in Seq(Nat),
         NEW t, t.replicas = s.replicas, t.reserve \in Seq(Nat),
         Range(t.reserve) = Range(s.reserve)
  PROVE  Desired(t) = Desired(s)
<1> DEFINE D == Desired(s)
           E == Desired(t)
<1>1. /\ IsFiniteSet(D) /\ D \subseteq Nat /\ D \cap Range(s.reserve) = {}
      /\ \A o \in D, p \in Nat : p < o /\ p \notin Range(s.reserve) => p \in D
      /\ Cardinality(D) = s.replicas
  <2>1. D \subseteq Free(s) /\ Free(s) \subseteq Nat /\ IsFiniteSet(D)
        /\ \A o \in D, p \in Nat : p < o /\ p \notin Range(s.reserve) => p \in D
    BY DesiredFacts, Zenon
  <2>2. Free(s) \cap Range(s.reserve) = {}
    BY Zenon DEF Free
  <2> QED
    BY <2>1, <2>2, DesiredCount, Zenon
<1>2. /\ IsFiniteSet(E) /\ E \subseteq Nat /\ E \cap Range(s.reserve) = {}
      /\ \A o \in E, p \in Nat : p < o /\ p \notin Range(s.reserve) => p \in E
      /\ Cardinality(E) = s.replicas
  <2>1. E \subseteq Free(t) /\ Free(t) \subseteq Nat /\ IsFiniteSet(E)
        /\ \A o \in E, p \in Nat : p < o /\ p \notin Range(t.reserve) => p \in E
    BY DesiredFacts, Zenon
  <2>2. Free(t) \cap Range(t.reserve) = {}
    BY Zenon DEF Free
  <2> QED
    BY <2>1, <2>2, DesiredCount, Zenon
<1> HIDE DEF D, E
<1>3. D \subseteq E \/ E \subseteq D
  <2> SUFFICES ASSUME NEW x \in D, x \notin E, NEW y \in E, y \notin D PROVE FALSE
    BY Zenon
  <2>1. x \in Nat /\ y \in Nat /\ x # y /\ x \notin Range(s.reserve) /\ y \notin Range(s.reserve)
    BY <1>1, <1>2, Zenon
  <2>2. x < y \/ y < x
    BY <2>1
  <2> QED
    BY <1>1, <1>2, <2>1, <2>2, Zenon
<1>4. CASE D \subseteq E
  BY <1>1, <1>2, <1>4, FS_Subset, Zenon DEF D, E
<1>5. CASE E \subseteq D
  BY <1>1, <1>2, <1>5, FS_Subset, Zenon DEF D, E
<1> QED
  BY <1>3, <1>4, <1>5

\* Scaling down from what the StatefulSet has to r pods, with the ordinals that the
\* walk reserves added to the reserved ones: the StatefulSet then wants exactly the
\* nodes the walk has not collected, so OpenKruise deletes the others and no more.
THEOREM ShrinkExact ==
  ASSUME NEW sts, sts.replicas \in Nat, sts.reserve \in Seq(Nat),
         NEW nodes, NEW m, IsListing(nodes, m), IdxOf(nodes) = Desired(sts),
         NEW r \in 1..Len(nodes)
  PROVE  Desired([replicas |-> r, reserve |-> sts.reserve \o Reserve(nodes, Len(nodes) - r)])
           = Desired(sts) \ Victims(nodes, Len(nodes) - r)
<1> DEFINE n == Len(nodes)
           delta == n - r
           reserved == {o \in Victims(nodes, delta) : o <= MasterID(nodes, delta)}
           new == [replicas |-> r, reserve |-> sts.reserve \o Reserve(nodes, delta)]
           stay == (1..n) \ Picked(nodes, delta)
           X == {nodes[j].idx : j \in stay}
<1>1. n \in Nat /\ r \in Nat /\ r >= 1 /\ delta \in 0..(n - 1)
  BY DEF IsListing
<1>2. Victims(nodes, delta) = {nodes[j].idx : j \in Picked(nodes, delta)}
  BY DEF Victims, Picked
<1>3. X = Desired(sts) \ Victims(nodes, delta)
  <2>1. \A j, k \in 1..n : nodes[j].idx = nodes[k].idx => j = k
    BY ListingInjective, Zenon
  <2>2. Desired(sts) = {nodes[j].idx : j \in 1..n}
    BY SMTT(60) DEF IdxOf
  <2>3. Picked(nodes, delta) \subseteq 1..n
    BY DEF Picked
  <2> HIDE DEF n, delta
  <2>4. ASSUME NEW x \in X PROVE x \in Desired(sts) \ Victims(nodes, delta)
    BY <1>2, <2>1, <2>2, <2>3, Zenon
  <2>5. ASSUME NEW x \in Desired(sts), x \notin Victims(nodes, delta) PROVE x \in X
    BY <1>2, <2>2, <2>5, Zenon
  <2> HIDE DEF X
  <2> QED
    BY <2>4, <2>5, Zenon
<1>4. X \subseteq Nat /\ IsFiniteSet(X) /\ Cardinality(X) = r
  <2> DEFINE f == [j \in stay |-> nodes[j].idx]
  <2>1. IsFiniteSet(stay) /\ Cardinality(stay) = r
    <3>1. IsFiniteSet(1..n) /\ Cardinality(1..n) = n
      <4>1. 1 \in Int /\ n \in Int
        BY <1>1
      <4>2. IsFiniteSet(1..n) /\ Cardinality(1..n) = IF 1 > n THEN 0 ELSE n - 1 + 1
        BY <4>1, FS_Interval, Zenon
      <4> QED
        BY <1>1, <4>2
    <3>2. Picked(nodes, delta) \in SUBSET (1..n)
      BY DEF Picked
    <3>3. Cardinality(Picked(nodes, delta)) = delta
      <4> HIDE DEF delta
      <4> QED
        BY <1>1, PickedCount
    <3>4. /\ IsFiniteSet(stay)
          /\ Cardinality(stay) = Cardinality(1..n) - Cardinality(Picked(nodes, delta))
      BY <3>1, <3>2, CountRest, Zenon
    <3> QED
      BY <1>1, <3>1, <3>3, <3>4
  <2>2. f \in Bijection(stay, X)
    <3>1. f \in [stay -> X]
      OBVIOUS
    <3>2. \A j, k \in stay : f[j] = f[k] => j = k
      <4>1. \A j, k \in 1..n : nodes[j].idx = nodes[k].idx => j = k
        BY ListingInjective, Zenon
      <4> HIDE DEF n, delta
      <4> QED
        BY <4>1, Zenon
    <3>3. \A x \in X : \E j \in stay : f[j] = x
      OBVIOUS
    <3> HIDE DEF f, X, stay
    <3> QED
      BY <3>1, <3>2, <3>3 DEF Bijection, Injection, Surjection, IsInjective
  <2>3. ExistsBijection(stay, X)
    <3> HIDE DEF f, X, stay
    <3> QED
      BY <2>2 DEF ExistsBijection
  <2>4. X \subseteq Nat
    BY Zenon DEF IsListing, IdxOf
  <2> HIDE DEF X, stay
  <2> QED
    BY <2>1, <2>3, <2>4, FS_Bijection
<1>5. /\ new.replicas = r /\ new.reserve \in Seq(Nat)
      /\ Range(new.reserve) = Range(sts.reserve) \cup reserved
  <2>1. reserved \in SUBSET Nat /\ IsFiniteSet(reserved)
    <3>1. Victims(nodes, delta) \subseteq Desired(sts)
      <4>1. Desired(sts) = {nodes[j].idx : j \in 1..n} /\ Picked(nodes, delta) \subseteq 1..n
        BY DEF IdxOf, Picked
      <4> HIDE DEF n, delta
      <4> QED
        BY <1>2, <4>1, Zenon
    <3>2. reserved \in SUBSET Desired(sts)
      BY <3>1
    <3>3. IsFiniteSet(Desired(sts)) /\ Desired(sts) \subseteq Nat
      BY DesiredFacts
    <3> HIDE DEF reserved
    <3> QED
      BY <3>2, <3>3, FS_Subset
  <2>2. Reserve(nodes, delta) = Ascending(reserved)
    BY DEF Reserve
  <2>3. Reserve(nodes, delta) \in Seq(Nat) /\ Range(Reserve(nodes, delta)) = reserved
    <3>1. Ascending(reserved) \in Seq(reserved) /\ Range(Ascending(reserved)) = reserved
      <4> HIDE DEF reserved
      <4> QED
        BY <2>1, AscendingFacts
    <3>2. Seq(reserved) \subseteq Seq(Nat)
      <4> HIDE DEF reserved
      <4> QED
        BY <2>1, SeqOfMore, Zenon
    <3> HIDE DEF reserved, delta
    <3> QED
      BY <2>2, <3>1, <3>2
  <2>4. ASSUME NEW s \in Seq(Nat), NEW t \in Seq(Nat)
        PROVE  s \o t \in Seq(Nat) /\ Range(s \o t) = Range(s) \cup Range(t)
    BY RangeOfConcat
  <2> HIDE DEF reserved, delta
  <2> QED
    BY <2>3, <2>4
<1>6. ASSUME NEW x \in X, NEW p \in Nat, p < x, p \notin Range(new.reserve)
      PROVE  p \in X \ {x}
  <2>1. PICK j \in stay : x = nodes[j].idx
    OBVIOUS
  <2>2. x \in Desired(sts)
    <3> HIDE DEF X
    <3> QED
      BY <1>3
  <2>3. p \in Desired(sts)
    <3>1. p \notin Range(sts.reserve)
      <4> HIDE DEF new, reserved
      <4> QED
        BY <1>5, <1>6
    <3> QED
      BY <1>6, <2>2, <3>1, DesiredFacts
  <2>4. PICK k \in 1..n : p = nodes[k].idx
    BY <2>3, Zenon DEF IdxOf
  <2>5. j \in 1..n /\ k < j
    BY <1>6, <2>1, <2>4, ListingInjective, Zenon
  <2>6. CASE k \in Picked(nodes, delta)
    <3>1. p <= MasterID(nodes, delta)
      <4> HIDE DEF delta
      <4> QED
        BY <1>1, <2>1, <2>4, <2>5, <2>6, GoesBelow
    <3>2. p \in Victims(nodes, delta)
      BY <1>2, <2>4, <2>6, Zenon
    <3>3. p \in Range(new.reserve)
      <4>1. p \in reserved
        BY <3>1, <3>2, Zenon
      <4> HIDE DEF new, reserved
      <4> QED
        BY <1>5, <4>1
    <3> QED
      BY <1>6, <3>3, Zenon
  <2>7. CASE k \notin Picked(nodes, delta)
    <3>1. p \in X
      BY <2>4, <2>7, Zenon
    <3>2. x \in Nat
      BY <1>4
    <3> QED
      BY <1>6, <3>1, <3>2
  <2> QED
    BY <2>6, <2>7
<1> HIDE DEF X, new, reserved, stay, delta, n
<1>7. ASSUME NEW x \in X PROVE x \in Desired(new)
  <2>1. /\ IsFiniteSet(X \ {x}) /\ Cardinality(X \ {x}) = r - 1
        /\ IsFiniteSet(Range(new.reserve)) /\ Cardinality(Range(new.reserve)) \in Nat
        /\ Cardinality(Range(new.reserve)) <= Len(new.reserve)
    BY <1>4, <1>5, FS_RemoveElement, RangeCount, Zenon
  <2>2. x \in Nat /\ Len(new.reserve) \in Nat
    BY <1>4, <1>5
  <2>3. x <= r + Len(new.reserve)
    <3> DEFINE U == (X \ {x}) \cup Range(new.reserve)
    <3>1. 0..(x - 1) \in SUBSET U
      <4>1. ASSUME NEW p \in 0..(x - 1) PROVE p \in U
        <5>1. p \in Nat /\ p < x
          BY <2>2
        <5> QED
          BY <1>6, <5>1
      <4> QED
        BY <4>1
    <3>2. /\ IsFiniteSet(U)
          /\ Cardinality(U) = Cardinality(X \ {x}) + Cardinality(Range(new.reserve))
                                - Cardinality((X \ {x}) \cap Range(new.reserve))
      BY <2>1, FS_Union, Zenon
    <3>3. Cardinality((X \ {x}) \cap Range(new.reserve)) \in Nat
      BY <2>1, FS_Intersection, FS_CardinalityType, Zenon
    <3>4. Cardinality(0..(x - 1)) <= Cardinality(U) /\ Cardinality(0..(x - 1)) = x
      <4> HIDE DEF U
      <4> QED
        BY <2>2, <3>1, <3>2, FS_Subset, CountInitial
    <3> HIDE DEF U
    <3> QED
      BY <1>1, <2>1, <2>2, <3>2, <3>3, <3>4, SMTT(60)
  <2>4. x \notin Range(new.reserve)
    <3>1. x \in Desired(sts) /\ x \notin Victims(nodes, delta)
      BY <1>3
    <3>2. x \notin Range(sts.reserve)
      BY <3>1, DesiredFacts, Zenon DEF Free
    <3>3. x \notin reserved
      BY <3>1 DEF reserved
    <3> QED
      BY <1>5, <3>2, <3>3
  <2>5. x \in Free(new)
    BY <1>1, <1>5, <2>2, <2>3, <2>4 DEF Free
  <2>6. Rank(Free(new), x) < r
    <3>1. Below(Free(new), x) \in SUBSET (X \ {x})
      <4>1. ASSUME NEW p \in Free(new), p < x PROVE p \in X \ {x}
        <5>1. p \in Nat /\ p \notin Range(new.reserve)
          BY <1>1, <1>5 DEF Free
        <5> QED
          BY <1>6, <4>1, <5>1
      <4> QED
        BY <4>1 DEF Below
    <3>2. /\ Cardinality(Below(Free(new), x)) <= Cardinality(X \ {x})
          /\ IsFiniteSet(Below(Free(new), x))
      BY <2>1, <3>1, FS_Subset
    <3>3. Cardinality(Below(Free(new), x)) \in Nat
      BY <3>2, FS_CardinalityType
    <3> QED
      BY <1>1, <2>1, <3>2, <3>3 DEF Rank
  <2> QED
    BY <1>1, <1>5, <2>5, <2>6, DesiredFacts, SMTT(60)
<1>8. IsFiniteSet(Desired(new)) /\ Cardinality(Desired(new)) <= r
  BY <1>1, <1>5, DesiredFacts
<1>9. X \in SUBSET Desired(new)
  BY <1>7
<1>10. Cardinality(X) <= Cardinality(Desired(new)) /\ Cardinality(Desired(new)) \in Nat
  BY <1>8, <1>9, FS_Subset, FS_CardinalityType
<1>11. Cardinality(Desired(new)) = Cardinality(X)
  BY <1>1, <1>4, <1>8, <1>10
<1>12. Desired(new) = X
  BY <1>8, <1>9, <1>11, FS_Subset
<1> QED
  BY <1>3, <1>12, Zenon DEF new, delta, n

\* So the StatefulSet keeps the master, wherever an earlier failover has left it.
THEOREM MasterKept ==
  ASSUME NEW sts, sts.replicas \in Nat, sts.reserve \in Seq(Nat),
         NEW nodes, NEW m, IsListing(nodes, m), IdxOf(nodes) = Desired(sts),
         NEW r \in 1..Len(nodes)
  PROVE  nodes[m].idx \in
           Desired([replicas |-> r, reserve |-> sts.reserve \o Reserve(nodes, Len(nodes) - r)])
<1>1. m \in 1..Len(nodes) /\ IsMaster(nodes[m])
  BY DEF IsListing
<1>2. nodes[m].idx \in Desired(sts)
  BY <1>1, Zenon DEF IdxOf
<1>3. nodes[m].idx \notin Victims(nodes, Len(nodes) - r)
  BY <1>1, ListingInjective, Zenon DEF Victims
<1>4. Desired([replicas |-> r, reserve |-> sts.reserve \o Reserve(nodes, Len(nodes) - r)])
        = Desired(sts) \ Victims(nodes, Len(nodes) - r)
  BY ShrinkExact, Zenon
<1> QED
  BY <1>2, <1>3, <1>4, Zenon
=============================================================================
