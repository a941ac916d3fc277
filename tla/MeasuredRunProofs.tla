-------------------------- MODULE MeasuredRunProofs --------------------------
(***************************************************************************)
(* Proofs about `client load` and the analysis of its metrics file, for    *)
(* any files, numbers of requests and threads, and any failures.           *)
(***************************************************************************)
EXTENDS MeasuredRun, FiniteSetTheorems, FunctionTheorems, SequenceTheorems,
        WellFoundedInduction, TLAPS
-----------------------------------------------------------------------------
(* The numbers from 1 to n are n.                                          *)
LEMMA Counting ==
    ASSUME NEW n \in Nat
    PROVE  IsFiniteSet(1 .. n) /\ Cardinality(1 .. n) = n
<1>1. 1 \in Int /\ n \in Int
  OBVIOUS
<1>2. /\ IsFiniteSet(1 .. n)
      /\ Cardinality(1 .. n) = IF 1 > n THEN 0 ELSE n - 1 + 1
  BY <1>1, FS_Interval
<1>3. (IF 1 > n THEN 0 ELSE n - 1 + 1) = n
  OBVIOUS
<1> QED BY <1>2, <1>3

(* sorted(): the places of the values are 1 .. n, each taken once, and     *)
(* agree with the order of the keys.                                       *)
Before(keys, i) == {j \in DOMAIN keys : IF j <= i THEN keys[j] <= keys[i] ELSE keys[j] < keys[i]}

LEMMA BeforeGrows ==
    ASSUME NEW n \in Nat, NEW keys \in [1 .. n -> Int], NEW i \in 1 .. n, NEW j \in 1 .. n,
           keys[i] < keys[j] \/ (keys[i] = keys[j] /\ i < j)
    PROVE  Place(keys, i) < Place(keys, j)
<1>1. Before(keys, i) \subseteq Before(keys, j) /\ j \notin Before(keys, i) /\ j \in Before(keys, j)
  BY DEF Before
<1>2. IsFiniteSet(Before(keys, i)) /\ IsFiniteSet(Before(keys, j))
  <2>1. IsFiniteSet(1 .. n)
    BY Counting
  <2>2. Before(keys, i) \in SUBSET (1 .. n) /\ Before(keys, j) \in SUBSET (1 .. n)
    BY DEF Before
  <2> QED BY <2>1, <2>2, FS_Subset
<1>3. /\ Cardinality(Before(keys, i)) \in Nat /\ Cardinality(Before(keys, j)) \in Nat
  BY <1>2, FS_CardinalityType
<1>4. Cardinality(Before(keys, i)) <= Cardinality(Before(keys, j))
  BY <1>1, <1>2, FS_Subset
<1>5. Cardinality(Before(keys, j)) # Cardinality(Before(keys, i))
  BY <1>1, <1>2, FS_Subset
<1>6. Cardinality(Before(keys, i)) < Cardinality(Before(keys, j))
  BY <1>3, <1>4, <1>5
<1> QED BY <1>6 DEF Place, Before

LEMMA PlaceRange ==
    ASSUME NEW n \in Nat, NEW keys \in [1 .. n -> Int], NEW i \in 1 .. n
    PROVE  Place(keys, i) \in 1 .. n
<1>1. IsFiniteSet(1 .. n) /\ Cardinality(1 .. n) = n
  BY Counting
<1>2. Before(keys, i) \in SUBSET (1 .. n) /\ i \in Before(keys, i)
  BY DEF Before
<1>3. IsFiniteSet(Before(keys, i)) /\ Cardinality(Before(keys, i)) <= n
  BY <1>1, <1>2, FS_Subset
<1>4. Cardinality(Before(keys, i)) \in Nat
  BY <1>3, FS_CardinalityType
<1>5. Cardinality(Before(keys, i)) # 0
  BY <1>2, <1>3, FS_EmptySet
<1>6. Cardinality(Before(keys, i)) \in 1 .. n
  BY <1>3, <1>4, <1>5
<1> QED BY <1>6 DEF Place, Before

(* order[k] is the index of the value that comes k-th.                     *)
Order(n, keys) == [k \in 1 .. n |-> CHOOSE i \in 1 .. n : Place(keys, i) = k]

LEMMA OrderSorts ==
    ASSUME NEW n \in Nat, NEW keys \in [1 .. n -> Int]
    PROVE  LET order == Order(n, keys)
           IN  /\ order \in Bijection(1 .. n, 1 .. n)
               /\ \A k, l \in 1 .. n : k < l => keys[order[k]] <= keys[order[l]]
<1> DEFINE order == Order(n, keys)
           place == [i \in 1 .. n |-> Place(keys, i)]
<1>1. place \in [1 .. n -> 1 .. n]
  BY PlaceRange
<1>2. ASSUME NEW i \in 1 .. n, NEW j \in 1 .. n, i # j PROVE place[i] # place[j]
  <2>1. CASE keys[i] < keys[j] \/ (keys[i] = keys[j] /\ i < j)
    <3>1. Place(keys, i) < Place(keys, j)
      BY <2>1, BeforeGrows
    <3> QED BY <1>1, <3>1
  <2>2. CASE keys[j] < keys[i] \/ (keys[j] = keys[i] /\ j < i)
    <3>1. Place(keys, j) < Place(keys, i)
      BY <2>2, BeforeGrows
    <3> QED BY <1>1, <3>1
  <2>3. keys[i] \in Int /\ keys[j] \in Int
    OBVIOUS
  <2> QED BY <1>2, <2>1, <2>2, <2>3
<1> HIDE DEF place
<1>3. place \in Injection(1 .. n, 1 .. n)
  BY <1>1, <1>2, Fun_IsInj
<1>4. place \in Surjection(1 .. n, 1 .. n)
  BY <1>3, Counting, FS_Injection
<1>5. \A k \in 1 .. n : \E i \in 1 .. n : place[i] = k
  BY <1>4 DEF Surjection
<1>6. \A i \in 1 .. n : place[i] = Place(keys, i)
  BY DEF place
<1>7. \A k \in 1 .. n : order[k] \in 1 .. n /\ place[order[k]] = k
  BY <1>5, <1>6 DEF Order
<1>8. order \in [1 .. n -> 1 .. n]
  BY <1>7 DEF Order
<1> HIDE DEF order
<1>9. order \in Bijection(1 .. n, 1 .. n)
  <2>1. \A k, l \in 1 .. n : order[k] = order[l] => k = l
    BY <1>7
  <2>2. \A i \in 1 .. n : order[place[i]] = i
    BY <1>1, <1>2, <1>7
  <2>3. \A i \in 1 .. n : \E k \in 1 .. n : order[k] = i
    BY <1>1, <2>2
  <2> QED BY <1>8, <2>1, <2>3, Fun_IsBij
<1>10. ASSUME NEW k \in 1 .. n, NEW l \in 1 .. n, k < l PROVE keys[order[k]] <= keys[order[l]]
  <2> SUFFICES ASSUME keys[order[l]] < keys[order[k]] PROVE FALSE
    BY <1>8
  <2>1. Place(keys, order[l]) < Place(keys, order[k])
    BY <1>8, BeforeGrows
  <2> QED BY <1>6, <1>7, <1>10, <2>1
<1> QED BY <1>9, <1>10 DEF order

(* What sorted() returns.                                                  *)
LEMMA SortByKeySeq ==
    ASSUME NEW S, NEW seq \in Seq(S), NEW keys \in [1 .. Len(seq) -> Int]
    PROVE  LET order == Order(Len(seq), keys)
           IN  /\ SortByKey(seq, keys) = [k \in 1 .. Len(seq) |-> seq[order[k]]]
               /\ SortByKey(seq, keys) \in Seq(S)
               /\ Len(SortByKey(seq, keys)) = Len(seq)
<1> DEFINE n == Len(seq)
           order == Order(n, keys)
<1>1. n \in Nat /\ DOMAIN seq = 1 .. n /\ seq \in [1 .. n -> S]
  OBVIOUS
<1>2. order \in [1 .. n -> 1 .. n]
  BY <1>1, OrderSorts DEF Bijection, Injection
<1>3. SortByKey(seq, keys) = [k \in 1 .. n |-> seq[CHOOSE i \in 1 .. n : Place(keys, i) = k]]
  BY <1>1 DEF SortByKey
<1>4. \A k \in 1 .. n : order[k] = CHOOSE i \in 1 .. n : Place(keys, i) = k
  BY DEF Order
<1> HIDE DEF order, n
<1>5. SortByKey(seq, keys) = [k \in 1 .. n |-> seq[order[k]]]
  BY <1>3, <1>4
<1>6. SortByKey(seq, keys) \in [1 .. n -> S]
  BY <1>1, <1>2, <1>5
<1>7. SortByKey(seq, keys) \in Seq(S) /\ Len(SortByKey(seq, keys)) = n
  BY <1>1, <1>6
<1> QED BY <1>5, <1>7 DEF order, n
-----------------------------------------------------------------------------
(* -((-m) // 100) is the quotient rounded up.                              *)
LEMMA CeilingOfHundredths ==
    ASSUME NEW m \in Nat
    PROVE  LET q == -((-m) \div 100)
           IN  q \in Int /\ 100 * q >= m /\ 100 * (q - 1) < m
  OBVIOUS

LEMMA PercentOfCount ==
    ASSUME NEW n \in Nat \ {0}, NEW p \in 1 .. 100
    PROVE  p * n \in Nat /\ p * n > 0 /\ p * n <= 100 * n
  OBVIOUS

(* nearest_rank_percentile returns the value of the right rank for every   *)
(* number of values and every percentage: the rank lies within the list,   *)
(* at least p percent of the values have that rank or a lower one, and     *)
(* with one rank less they would be too few.                               *)
THEOREM RankIsNearest ==
    \A n \in Nat \ {0}, p \in 1 .. 100 :
        LET rank == RankIndex(n, p) + 1
        IN  /\ rank \in 1 .. n
            /\ 100 * rank >= p * n
            /\ 100 * (rank - 1) < p * n
<1> SUFFICES ASSUME NEW n \in Nat \ {0}, NEW p \in 1 .. 100
             PROVE  LET rank == RankIndex(n, p) + 1
                    IN  /\ rank \in 1 .. n
                        /\ 100 * rank >= p * n
                        /\ 100 * (rank - 1) < p * n
  OBVIOUS
<1> DEFINE q == -((-(p * n)) \div 100)
<1>1. p * n \in Nat /\ p * n > 0 /\ p * n <= 100 * n
  BY PercentOfCount
<1>2. q \in Int /\ 100 * q >= p * n /\ 100 * (q - 1) < p * n
  BY <1>1, CeilingOfHundredths
<1>3. q >= 1 /\ q <= n
  <2> HIDE DEF q
  <2> QED BY <1>1, <1>2
<1>4. RankIndex(n, p) = q - 1
  <2>1. RankIndex(n, p) = LET capped == IF q - 1 < n - 1 THEN q - 1 ELSE n - 1
                          IN  IF capped < 0 THEN 0 ELSE capped
    BY DEF RankIndex
  <2> HIDE DEF q
  <2> QED BY <2>1, <1>2, <1>3
<1> HIDE DEF q
<1> QED BY <1>2, <1>3, <1>4

(* nearest_rank_percentile on sorted() values (common.py:24-30) returns    *)
(* the nearest-rank percentile by its definition, for every list of        *)
(* integers, with any number of equal values, and every percentage.        *)
THEOREM PercentileByDefinition ==
    \A values \in Seq(Int), p \in 1 .. 100 :
        values # << >> => IsNearestRank(values, p, NearestRankPercentile(Sorted(values), p))
<1> SUFFICES ASSUME NEW values \in Seq(Int), NEW p \in 1 .. 100, values # << >>
             PROVE  IsNearestRank(values, p, NearestRankPercentile(Sorted(values), p))
  OBVIOUS
<1> DEFINE n == Len(values)
           order == Order(n, values)
           rank == RankIndex(n, p) + 1
           v == values[order[rank]]
           upTo(x) == {i \in 1 .. n : values[i] <= x}
<1>1. n \in Nat \ {0} /\ values \in [1 .. n -> Int] /\ DOMAIN values = 1 .. n
  OBVIOUS
<1>2. /\ order \in [1 .. n -> 1 .. n]
      /\ \A k, l \in 1 .. n : order[k] = order[l] => k = l
      /\ \A i \in 1 .. n : \E k \in 1 .. n : order[k] = i
      /\ \A k, l \in 1 .. n : k < l => values[order[k]] <= values[order[l]]
  <2>1. /\ order \in Bijection(1 .. n, 1 .. n)
        /\ \A k, l \in 1 .. n : k < l => values[order[k]] <= values[order[l]]
    BY <1>1, OrderSorts
  <2> HIDE DEF order, n
  <2>2. /\ order \in [1 .. n -> 1 .. n]
        /\ \A k, l \in 1 .. n : order[k] = order[l] => k = l
        /\ \A i \in 1 .. n : \E k \in 1 .. n : order[k] = i
    <3>1. order \in Injection(1 .. n, 1 .. n) /\ order \in Surjection(1 .. n, 1 .. n)
      BY <2>1 DEF Bijection
    <3>2. \A k, l \in 1 .. n : order[k] = order[l] => k = l
      BY <3>1 DEF Injection, IsInjective
    <3> QED BY <3>1, <3>2 DEF Surjection
  <2> QED BY <2>1, <2>2
<1>3. rank \in 1 .. n /\ 100 * rank >= p * n /\ 100 * (rank - 1) < p * n
  BY <1>1, RankIsNearest
<1>4. NearestRankPercentile(Sorted(values), p) = v
  <2>1. /\ Sorted(values) = [k \in 1 .. n |-> values[order[k]]]
        /\ Sorted(values) \in Seq(Int) /\ Len(Sorted(values)) = n
    BY <1>1, SortByKeySeq DEF Sorted
  <2>2. Sorted(values) # << >>
    BY <1>1, <2>1
  <2>3. NearestRankPercentile(Sorted(values), p) = Sorted(values)[rank]
    BY <2>1, <2>2 DEF NearestRankPercentile
  <2> HIDE DEF n, order, rank
  <2> QED BY <1>3, <2>1, <2>3
<1> HIDE DEF n, order, rank
<1>5. v \in Int /\ order[rank] \in 1 .. n
  BY <1>1, <1>2, <1>3
<1>6. \A x : IsFiniteSet(upTo(x)) /\ Cardinality(upTo(x)) \in Nat
  <2>1. \A x : upTo(x) \in SUBSET (1 .. n)
    OBVIOUS
  <2>2. IsFiniteSet(1 .. n)
    BY <1>1, Counting
  <2> HIDE DEF upTo
  <2>3. \A x : IsFiniteSet(upTo(x))
    BY <2>1, <2>2, FS_Subset
  <2> QED BY <2>3, FS_CardinalityType
<1>7. Cardinality(upTo(v)) >= rank
  <2> DEFINE first == [k \in 1 .. rank |-> order[k]]
  <2>1. \A k \in 1 .. rank : k \in 1 .. n /\ order[k] \in upTo(v)
    <3>1. \A k \in 1 .. rank : k \in 1 .. n
      BY <1>1, <1>3
    <3>2. ASSUME NEW k \in 1 .. rank PROVE values[order[k]] <= v
      <4>1. CASE k = rank
        BY <1>5, <4>1
      <4>2. CASE k < rank
        BY <1>2, <1>3, <3>1, <4>2
      <4> QED BY <1>3, <4>1, <4>2
    <3> QED BY <1>2, <3>1, <3>2
  <2> HIDE DEF upTo, v
  <2>2. first \in Injection(1 .. rank, upTo(v))
    <3>1. first \in [1 .. rank -> upTo(v)]
      BY <2>1
    <3>2. \A k, l \in 1 .. rank : first[k] = first[l] => k = l
      BY <1>2, <2>1
    <3> HIDE DEF first
    <3> QED BY <3>1, <3>2, Fun_IsInj
  <2>3. Cardinality(1 .. rank) = rank
    BY <1>1, <1>3, Counting
  <2>4. Cardinality(1 .. rank) <= Cardinality(upTo(v))
    BY <1>6, <2>2, FS_Injection
  <2> QED BY <1>3, <1>6, <2>3, <2>4
<1>8. ASSUME NEW u \in Int, u < v PROVE Cardinality(upTo(u)) <= rank - 1
  <2> DEFINE back == [i \in upTo(u) |-> CHOOSE k \in 1 .. n : order[k] = i]
  <2>1. \A i \in upTo(u) : back[i] \in 1 .. n /\ order[back[i]] = i
    BY <1>2
  <2>2. ASSUME NEW i \in upTo(u) PROVE back[i] \in 1 .. rank - 1
    <3> HIDE DEF back
    <3>1. back[i] \in 1 .. n /\ values[order[back[i]]] <= u
      BY <2>1
    <3>2. ~(rank < back[i]) /\ rank # back[i]
      <4>1. ASSUME rank < back[i] PROVE FALSE
        <5>1. v <= values[order[back[i]]]
          BY <1>2, <1>3, <3>1, <4>1
        <5>2. values[order[back[i]]] \in Int
          BY <1>1, <1>2, <3>1
        <5> HIDE DEF v
        <5> QED BY <1>5, <1>8, <3>1, <5>1, <5>2
      <4>2. ASSUME rank = back[i] PROVE FALSE
        BY <1>5, <1>8, <3>1, <4>2
      <4> QED BY <4>1, <4>2
    <3> QED BY <1>1, <1>3, <3>1, <3>2
  <2>3. back \in Injection(upTo(u), 1 .. rank - 1)
    <3>1. back \in [upTo(u) -> 1 .. rank - 1]
      BY <2>2
    <3>2. \A i, j \in upTo(u) : back[i] = back[j] => i = j
      BY <2>1
    <3> HIDE DEF back, upTo
    <3> QED BY <3>1, <3>2, Fun_IsInj
  <2> HIDE DEF back, upTo
  <2>4. IsFiniteSet(1 .. rank - 1) /\ Cardinality(1 .. rank - 1) = rank - 1
    BY <1>1, <1>3, Counting
  <2> QED BY <2>3, <2>4, FS_Injection
<1>9. v \in ToSet(values)
  BY <1>1, <1>5 DEF ToSet
<1>10. 100 * Cardinality(upTo(v)) >= p * n
  <2> HIDE DEF upTo, v
  <2>1. 100 * Cardinality(upTo(v)) >= 100 * rank
    BY <1>1, <1>3, <1>6, <1>7
  <2> QED BY <1>1, <1>3, <1>6, <2>1
<1>11. ASSUME NEW u \in ToSet(values), u < v PROVE 100 * Cardinality(upTo(u)) < p * n
  <2>1. u \in Int
    BY <1>1 DEF ToSet
  <2>2. Cardinality(upTo(u)) <= rank - 1
    BY <1>8, <1>11, <2>1
  <2> HIDE DEF upTo, v
  <2>3. 100 * Cardinality(upTo(u)) <= 100 * (rank - 1)
    BY <1>1, <1>3, <1>6, <2>2
  <2> QED BY <1>1, <1>3, <1>6, <2>3
<1> HIDE DEF v
<1> QED BY <1>1, <1>4, <1>9, <1>10, <1>11 DEF IsNearestRank, n
-----------------------------------------------------------------------------
(* The scripts' loops.  Induction, first, without operators as parameters: *)
(* what is to be shown of every number or of every sequence is given as    *)
(* the set of those of which it holds.                                     *)
Less == {p \in Nat \X Nat : p[1] < p[2]}

LEMMA LeastElement ==
    ASSUME NEW S \in SUBSET Nat, S # {}
    PROVE  \E x \in S : \A y \in S : x <= y
<1>1. IsWellFoundedOn(Less, Nat)
  BY NatLessThanWellFounded DEF OpToRel, Less
<1>2. PICK x \in S : \A y \in S : <<y, x>> \notin Less
  BY <1>1, WFMin
<1>3. \A y \in S : ~ (y < x)
  BY <1>2 DEF Less
<1> QED BY <1>3

(* From 0 to n.                                                            *)
LEMMA UpTo ==
    ASSUME NEW n \in Nat, NEW Good, 0 \in Good,
           \A k \in 0 .. n - 1 : k \in Good => k + 1 \in Good
    PROVE  \A k \in 0 .. n : k \in Good
<1> DEFINE Bad == {k \in 0 .. n : k \notin Good}
<1> SUFFICES ASSUME Bad # {} PROVE FALSE
  OBVIOUS
<1>1. Bad \in SUBSET Nat
  OBVIOUS
<1>2. PICK m \in Bad : \A k \in Bad : m <= k
  BY <1>1, LeastElement
<1>3. m \in 1 .. n /\ m \notin Good
  BY <1>2
<1>4. m - 1 \in 0 .. n - 1 /\ m - 1 \in 0 .. n
  BY <1>3
<1>5. m - 1 \in Good
  <2>1. m - 1 \notin Bad
    <3> HIDE DEF Bad
    <3> QED BY <1>2, <1>3
  <2> QED BY <1>4, <2>1
<1>6. (m - 1) + 1 \in Good
  BY <1>4, <1>5
<1>7. (m - 1) + 1 = m
  BY <1>3
<1> QED BY <1>3, <1>6, <1>7

(* From the empty sequence, one value more at a time.                      *)
LEMMA ByAppending ==
    ASSUME NEW D, NEW Good, << >> \in Good,
           \A t \in Seq(D), x \in D : t \in Good => Append(t, x) \in Good
    PROVE  Seq(D) \subseteq Good
<1> SUFFICES ASSUME NEW s \in Seq(D) PROVE s \in Good
  OBVIOUS
<1> DEFINE n == Len(s)
           Short == {k \in 0 .. n : SubSeq(s, 1, k) \in Good}
<1>1. n \in Nat
  OBVIOUS
<1>2. 0 \in Short
  <2>1. SubSeq(s, 1, 0) = << >>
    OBVIOUS
  <2>2. 0 \in 0 .. n
    BY <1>1
  <2> QED BY <2>1, <2>2
<1>3. ASSUME NEW k \in 0 .. n - 1, k \in Short PROVE k + 1 \in Short
  <2>1. k \in 0 .. n /\ k + 1 \in 1 .. n
    BY <1>1
  <2>2. SubSeq(s, 1, k) \in Seq(D) /\ s[k + 1] \in D
    BY <2>1
  <2>3. SubSeq(s, 1, k + 1) = Append(SubSeq(s, 1, k), s[k + 1])
    BY <2>1
  <2>4. Append(SubSeq(s, 1, k), s[k + 1]) \in Good
    BY <1>3, <2>2
  <2>5. k + 1 \in 0 .. n
    BY <2>1
  <2> QED BY <2>3, <2>4, <2>5
<1>4. \A k \in 0 .. n : k \in Short
  <2> HIDE DEF Short, n
  <2> QED BY <1>1, <1>2, <1>3, UpTo
<1>5. n \in Short
  BY <1>1, <1>4
<1>6. SubSeq(s, 1, n) = s
  OBVIOUS
<1> QED BY <1>5, <1>6

(* A loop over s: f[k] is the value after k rounds, step the effect of one *)
(* round, on the element it has read and the value it has found.           *)
IsRound(D, E, step, start) == start \in E /\ step \in [D \X E -> E]
Round(step, x, value) == step[<<x, value>>]
IsLoop(s, step, start, f) ==
    /\ f[0] = start
    /\ \A k \in 1 .. Len(s) : f[k] = Round(step, s[k], f[k - 1])

LEMMA LoopExists ==
    ASSUME NEW D, NEW E, NEW s \in Seq(D), NEW start, NEW step,
           IsRound(D, E, step, start)
    PROVE  \E f \in [0 .. Len(s) -> E] : IsLoop(s, step, start, f)
<1> USE DEF IsRound, Round
<1> DEFINE Good == {t \in Seq(D) : \E f \in [0 .. Len(t) -> E] : IsLoop(t, step, start, f)}
<1>1. << >> \in Good
  <2>1. [k \in 0 .. 0 |-> start] \in [0 .. 0 -> E]
    OBVIOUS
  <2>2. IsLoop(<< >>, step, start, [k \in 0 .. 0 |-> start])
    BY DEF IsLoop
  <2> QED BY <2>1, <2>2
<1>2. ASSUME NEW t \in Seq(D), NEW x \in D, t \in Good PROVE Append(t, x) \in Good
  <2> DEFINE n == Len(t)
             u == Append(t, x)
  <2>1. PICK f \in [0 .. n -> E] : IsLoop(t, step, start, f)
    BY <1>2
  <2>2. n \in Nat /\ u \in Seq(D) /\ Len(u) = n + 1 /\ u[n + 1] = x
        /\ \A k \in 1 .. n : u[k] = t[k]
    OBVIOUS
  <2> DEFINE g == [k \in 0 .. n + 1 |-> IF k = n + 1 THEN step[<<x, f[n]>>] ELSE f[k]]
  <2> HIDE DEF n, u
  <2>3. f[n] \in E /\ step[<<x, f[n]>>] \in E
    <3>1. f[n] \in E
      BY <2>2
    <3> QED BY <3>1
  <2>4. g \in [0 .. n + 1 -> E]
    BY <2>2, <2>3
  <2>5. g[0] = start
    BY <2>1, <2>2 DEF IsLoop
  <2>6. ASSUME NEW k \in 1 .. n + 1 PROVE g[k] = step[<<u[k], g[k - 1]>>]
    <3>1. CASE k = n + 1
      <4>1. g[k] = step[<<x, f[n]>>] /\ g[k - 1] = f[n] /\ u[k] = x
        BY <2>2, <3>1
      <4> QED BY <4>1
    <3>2. CASE k # n + 1
      <4>1. k \in 1 .. n /\ k - 1 \in 0 .. n
        BY <2>2, <3>2
      <4>2. g[k] = f[k] /\ g[k - 1] = f[k - 1] /\ u[k] = t[k]
        BY <2>2, <4>1
      <4>3. f[k] = step[<<t[k], f[k - 1]>>]
        BY <2>1, <4>1 DEF IsLoop, n
      <4> QED BY <4>2, <4>3
    <3> QED BY <3>1, <3>2
  <2>7. IsLoop(u, step, start, g)
    BY <2>2, <2>5, <2>6 DEF IsLoop
  <2> QED BY <2>2, <2>4, <2>7 DEF u
<1> HIDE DEF Good
<1>3. Seq(D) \subseteq Good
  BY <1>1, <1>2, ByAppending
<1> QED BY <1>3 DEF Good

(* Rounds that begin with the same value and read the same elements have   *)
(* the same effects.                                                       *)
LEMMA LoopUnique ==
    ASSUME NEW D, NEW s \in Seq(D), NEW t \in Seq(D), NEW start, NEW step, NEW n \in Nat, NEW f, NEW g,
           n <= Len(s), n <= Len(t), \A k \in 1 .. n : s[k] = t[k],
           IsLoop(s, step, start, f), IsLoop(t, step, start, g)
    PROVE  f[n] = g[n]
<1> DEFINE Good == {k \in 0 .. n : f[k] = g[k]}
<1>1. 0 \in Good
  BY DEF IsLoop
<1>2. ASSUME NEW k \in 0 .. n - 1, k \in Good PROVE k + 1 \in Good
  <2>1. k + 1 \in 1 .. n /\ k + 1 \in 1 .. Len(s) /\ k + 1 \in 1 .. Len(t) /\ (k + 1) - 1 = k
    OBVIOUS
  <2>2. f[k + 1] = Round(step, s[k + 1], f[k]) /\ g[k + 1] = Round(step, t[k + 1], g[k])
    BY <2>1 DEF IsLoop
  <2>3. f[k + 1] = g[k + 1] /\ k + 1 \in 0 .. n
    <3>1. f[k] = g[k] /\ \A j \in 1 .. n : s[j] = t[j]
      BY <1>2
    <3>2. s[k + 1] = t[k + 1]
      BY <2>1, <3>1
    <3> QED BY <2>1, <2>2, <3>1, <3>2
  <2> QED BY <2>3
<1> HIDE DEF Good
<1>3. \A k \in 0 .. n : k \in Good
  BY <1>1, <1>2, UpTo
<1> QED BY <1>3 DEF Good

(* What the loop leaves.                                                   *)
Outcome(s, E, step, start) ==
    (CHOOSE f \in [0 .. Len(s) -> E] : IsLoop(s, step, start, f))[Len(s)]

LEMMA OutcomeOfLoop ==
    ASSUME NEW D, NEW E, NEW s \in Seq(D), NEW start, NEW step,
           IsRound(D, E, step, start),
           NEW f, IsLoop(s, step, start, f)
    PROVE  f[Len(s)] = Outcome(s, E, step, start) /\ f[Len(s)] \in E
<1> DEFINE g == CHOOSE h \in [0 .. Len(s) -> E] : IsLoop(s, step, start, h)
<1>1. Len(s) \in Nat
  OBVIOUS
<1>2. g \in [0 .. Len(s) -> E] /\ IsLoop(s, step, start, g)
  BY LoopExists
<1>3. Outcome(s, E, step, start) = g[Len(s)]
  BY DEF Outcome
<1> HIDE DEF g
<1>4. g[Len(s)] \in E
  BY <1>1, <1>2
<1>5. f[Len(s)] = g[Len(s)]
  <2>1. Len(s) <= Len(s) /\ \A k \in 1 .. Len(s) : s[k] = s[k]
    BY <1>1
  <2> QED BY <1>1, <1>2, <2>1, LoopUnique
<1> QED BY <1>3, <1>4, <1>5

(* A function that is defined by the same equations has that value too,    *)
(* whatever it is elsewhere.                                               *)
IsRecursion(s, E, step, start, r) ==
    /\ r[0] = start
    /\ \A n \in 1 .. Len(s) : r[n - 1] \in E => r[n] = Round(step, s[n], r[n - 1])

LEMMA OutcomeOfRecursion ==
    ASSUME NEW D, NEW E, NEW s \in Seq(D), NEW start, NEW step, IsRound(D, E, step, start),
           NEW r, IsRecursion(s, E, step, start, r)
    PROVE  r[Len(s)] = Outcome(s, E, step, start)
<1>1. Len(s) \in Nat
  OBVIOUS
<1>2. PICK f \in [0 .. Len(s) -> E] : IsLoop(s, step, start, f)
  BY LoopExists
<1> DEFINE Same == {n \in 0 .. Len(s) : r[n] = f[n]}
<1>3. 0 \in Same
  BY <1>1, <1>2 DEF IsLoop, IsRecursion
<1>4. ASSUME NEW n \in 0 .. Len(s) - 1, n \in Same PROVE n + 1 \in Same
  <2>1. n + 1 \in 1 .. Len(s) /\ (n + 1) - 1 = n /\ n \in 0 .. Len(s) /\ n + 1 \in 0 .. Len(s)
    BY <1>1
  <2>2. r[n] = f[n] /\ f[n] \in E
    BY <1>2, <1>4, <2>1
  <2>3. r[n + 1] = Round(step, s[n + 1], r[n])
    BY <2>1, <2>2 DEF IsRecursion
  <2>4. f[n + 1] = Round(step, s[n + 1], f[n])
    BY <1>2, <2>1 DEF IsLoop
  <2> QED BY <2>1, <2>2, <2>3, <2>4
<1> HIDE DEF Same
<1>5. Len(s) \in Same
  <2>1. \A n \in 0 .. Len(s) : n \in Same
    BY <1>1, <1>3, <1>4, UpTo
  <2> QED BY <1>1, <2>1
<1>6. r[Len(s)] = f[Len(s)]
  BY <1>5 DEF Same
<1>7. f[Len(s)] = Outcome(s, E, step, start)
  BY <1>2, OutcomeOfLoop
<1> QED BY <1>6, <1>7

LEMMA OutcomeType ==
    ASSUME NEW D, NEW E, NEW s \in Seq(D), NEW start, NEW step,
           IsRound(D, E, step, start)
    PROVE  Outcome(s, E, step, start) \in E
<1>1. PICK f \in [0 .. Len(s) -> E] : IsLoop(s, step, start, f)
  BY LoopExists
<1> QED BY <1>1, OutcomeOfLoop

LEMMA OutcomeEmpty ==
    ASSUME NEW E, NEW start \in E, NEW step
    PROVE  Outcome(<< >>, E, step, start) = start
<1> DEFINE g == CHOOSE f \in [0 .. Len(<< >>) -> E] : IsLoop(<< >>, step, start, f)
<1>1. [k \in 0 .. 0 |-> start] \in [0 .. 0 -> E] /\ Len(<< >>) = 0
  OBVIOUS
<1>2. IsLoop(<< >>, step, start, [k \in 0 .. 0 |-> start])
  BY DEF IsLoop
<1>3. \E f \in [0 .. Len(<< >>) -> E] : IsLoop(<< >>, step, start, f)
  BY <1>1, <1>2
<1>4. IsLoop(<< >>, step, start, g)
  BY <1>3
<1>5. Outcome(<< >>, E, step, start) = g[0]
  BY <1>1 DEF Outcome
<1> HIDE DEF g
<1> QED BY <1>4, <1>5 DEF IsLoop

LEMMA OutcomeAppend ==
    ASSUME NEW D, NEW E, NEW s \in Seq(D), NEW x \in D, NEW start,
           NEW step, IsRound(D, E, step, start)
    PROVE  Outcome(Append(s, x), E, step, start) = Round(step, x, Outcome(s, E, step, start))
<1> DEFINE t == Append(s, x)
           n == Len(s)
<1>1. n \in Nat /\ t \in Seq(D) /\ Len(t) = n + 1 /\ t[n + 1] = x /\ \A k \in 1 .. n : t[k] = s[k]
  OBVIOUS
<1> HIDE DEF t
<1>2. PICK f \in [0 .. Len(s) -> E] : IsLoop(s, step, start, f)
  BY LoopExists
<1>3. PICK g \in [0 .. Len(t) -> E] : IsLoop(t, step, start, g)
  BY <1>1, LoopExists
<1>4. f[n] = Outcome(s, E, step, start)
  BY <1>2, OutcomeOfLoop
<1>5. g[n + 1] = Outcome(t, E, step, start)
  <2>1. g[Len(t)] = Outcome(t, E, step, start)
    BY <1>1, <1>3, OutcomeOfLoop
  <2> QED BY <1>1, <2>1
<1> HIDE DEF n
<1>6. g[n] = f[n]
  <2>1. n <= Len(s) /\ n <= Len(t)
    BY <1>1 DEF n
  <2> QED BY <1>1, <1>2, <1>3, <2>1, LoopUnique
<1>7. g[n + 1] = Round(step, t[n + 1], g[n])
  <2>1. n + 1 \in 1 .. Len(t) /\ (n + 1) - 1 = n
    BY <1>1
  <2> QED BY <1>3, <2>1 DEF IsLoop
<1> QED BY <1>1, <1>4, <1>5, <1>6, <1>7 DEF t
-----------------------------------------------------------------------------
(* [r for r in rows if ...] as such a loop, and with it what it gives for  *)
(* no rows and for one row more.                                           *)
OnlyStep(D, these) == [p \in D \X Seq(D) |-> IF p[1] \in these THEN Append(p[2], p[1]) ELSE p[2]]

LEMMA OnlyIsLoop ==
    ASSUME NEW D, NEW s \in Seq(D), NEW these
    PROVE  /\ IsRound(D, Seq(D), OnlyStep(D, these), << >>)
           /\ Only(s, these) = Outcome(s, Seq(D), OnlyStep(D, these), << >>)
<1> DEFINE step == OnlyStep(D, these)
           Def(f) == f = [n \in 0 .. Len(s) |->
                             IF n = 0 THEN << >>
                             ELSE IF s[n] \in these THEN Append(f[n - 1], s[n]) ELSE f[n - 1]]
           only == CHOOSE f : Def(f)
<1>1. IsRound(D, Seq(D), step, << >>) /\ Len(s) \in Nat
  BY DEF OnlyStep, IsRound
<1>2. PICK f \in [0 .. Len(s) -> Seq(D)] : IsLoop(s, step, << >>, f)
  BY <1>1, LoopExists
<1>3. ASSUME NEW n \in 1 .. Len(s)
      PROVE  f[n] = IF s[n] \in these THEN Append(f[n - 1], s[n]) ELSE f[n - 1]
  <2>1. s[n] \in D /\ f[n - 1] \in Seq(D)
    <3>1. n - 1 \in 0 .. Len(s)
      BY <1>1
    <3> QED BY <3>1
  <2>2. f[n] = Round(step, s[n], f[n - 1])
    BY <1>2 DEF IsLoop
  <2> QED BY <2>1, <2>2 DEF Round, OnlyStep
<1>4. Def(f)
  <2>1. f = [n \in 0 .. Len(s) |-> f[n]] /\ f[0] = << >>
    BY <1>2 DEF IsLoop
  <2>2. ASSUME NEW n \in 0 .. Len(s)
        PROVE  f[n] = IF n = 0 THEN << >>
                      ELSE IF s[n] \in these THEN Append(f[n - 1], s[n]) ELSE f[n - 1]
    <3>1. CASE n = 0
      BY <2>1, <3>1
    <3>2. CASE n # 0
      <4>1. n \in 1 .. Len(s)
        BY <1>1, <3>2
      <4> QED BY <1>3, <3>2, <4>1
    <3> QED BY <3>1, <3>2
  <2> QED BY <2>1, <2>2
<1>5. Def(only)
  BY <1>4
<1>6. Only(s, these) = only[Len(s)]
  BY DEF Only
<1> HIDE DEF only
<1>7. /\ only[0] = << >>
      /\ \A n \in 1 .. Len(s) :
            only[n] = IF s[n] \in these THEN Append(only[n - 1], s[n]) ELSE only[n - 1]
  <2>1. \A n \in 0 .. Len(s) :
            only[n] = IF n = 0 THEN << >>
                      ELSE IF s[n] \in these THEN Append(only[n - 1], s[n]) ELSE only[n - 1]
    BY <1>5
  <2> QED BY <1>1, <2>1
<1>8. ASSUME NEW n \in 1 .. Len(s), only[n - 1] \in Seq(D)
      PROVE  only[n] = Round(step, s[n], only[n - 1])
  <2>1. s[n] \in D
    OBVIOUS
  <2> QED BY <1>7, <1>8, <2>1 DEF Round, OnlyStep
<1>9. only[Len(s)] = Outcome(s, Seq(D), step, << >>)
  <2> HIDE DEF step
  <2>1. IsRecursion(s, Seq(D), step, << >>, only)
    BY <1>7, <1>8 DEF IsRecursion
  <2> QED BY <1>1, <2>1, OutcomeOfRecursion
<1> QED BY <1>1, <1>6, <1>9

LEMMA OnlyEmpty ==
    ASSUME NEW these
    PROVE  Only(<< >>, these) = << >>
<1>1. << >> \in Seq({})
  OBVIOUS
<1>2. Only(<< >>, these) = Outcome(<< >>, Seq({}), OnlyStep({}, these), << >>)
  BY <1>1, OnlyIsLoop
<1> QED BY <1>1, <1>2, OutcomeEmpty

LEMMA OnlyType ==
    ASSUME NEW D, NEW s \in Seq(D), NEW these
    PROVE  Only(s, these) \in Seq(D)
<1>1. /\ IsRound(D, Seq(D), OnlyStep(D, these), << >>)
      /\ Only(s, these) = Outcome(s, Seq(D), OnlyStep(D, these), << >>)
  BY OnlyIsLoop
<1> QED BY <1>1, OutcomeType

LEMMA OnlyAppend ==
    ASSUME NEW D, NEW s \in Seq(D), NEW x \in D, NEW these
    PROVE  Only(Append(s, x), these) =
               IF x \in these THEN Append(Only(s, these), x) ELSE Only(s, these)
<1> DEFINE t == Append(s, x)
           step == OnlyStep(D, these)
<1>1. t \in Seq(D) /\ Only(s, these) \in Seq(D)
  BY OnlyType
<1> HIDE DEF t
<1>2. /\ IsRound(D, Seq(D), step, << >>)
      /\ Only(s, these) = Outcome(s, Seq(D), step, << >>)
      /\ Only(t, these) = Outcome(t, Seq(D), step, << >>)
  BY <1>1, OnlyIsLoop
<1> HIDE DEF step
<1>3. Outcome(t, Seq(D), step, << >>) = Round(step, x, Outcome(s, Seq(D), step, << >>))
  BY <1>2, OutcomeAppend DEF t
<1>4. Only(t, these) = Round(step, x, Only(s, these))
  BY <1>2, <1>3
<1> QED BY <1>1, <1>4 DEF t, step, Round, OnlyStep

(* Sets that agree on the rows give the same selection.                    *)
LEMMA OnlySame ==
    ASSUME NEW D, NEW s \in Seq(D), NEW A, NEW B, \A k \in 1 .. Len(s) : s[k] \in A <=> s[k] \in B
    PROVE  Only(s, A) = Only(s, B)
<1> DEFINE Good == {t \in Seq(D) : (\A k \in 1 .. Len(t) : t[k] \in A <=> t[k] \in B)
                                       => Only(t, A) = Only(t, B)}
<1>1. << >> \in Good
  BY OnlyEmpty
<1>2. ASSUME NEW t \in Seq(D), NEW x \in D, t \in Good PROVE Append(t, x) \in Good
  <2> DEFINE u == Append(t, x)
  <2>1. u \in Seq(D) /\ Len(u) = Len(t) + 1 /\ u[Len(t) + 1] = x /\ Len(t) \in Nat
        /\ \A k \in 1 .. Len(t) : u[k] = t[k]
    OBVIOUS
  <2>2. /\ Only(u, A) = IF x \in A THEN Append(Only(t, A), x) ELSE Only(t, A)
        /\ Only(u, B) = IF x \in B THEN Append(Only(t, B), x) ELSE Only(t, B)
    BY OnlyAppend
  <2> HIDE DEF u
  <2>3. ASSUME \A k \in 1 .. Len(u) : u[k] \in A <=> u[k] \in B PROVE Only(u, A) = Only(u, B)
    <3>1. Len(t) + 1 \in 1 .. Len(u)
      BY <2>1
    <3>2. x \in A <=> x \in B
      BY <2>1, <2>3, <3>1
    <3>3. \A k \in 1 .. Len(t) : k \in 1 .. Len(u)
      BY <2>1
    <3>4. \A k \in 1 .. Len(t) : t[k] \in A <=> t[k] \in B
      BY <2>1, <2>3, <3>3
    <3>5. Only(t, A) = Only(t, B)
      BY <1>2, <3>4
    <3> QED BY <2>2, <3>2, <3>5
  <2> QED BY <2>1, <2>3 DEF u
<1> HIDE DEF Good
<1>3. s \in Good
  BY <1>1, <1>2, ByAppending
<1> QED BY <1>3 DEF Good

(* A selection from a selection.                                           *)
LEMMA OnlyOfOnly ==
    ASSUME NEW D, NEW s \in Seq(D), NEW A, NEW B
    PROVE  Only(Only(s, A), B) = Only(s, A \cap B)
<1> DEFINE Good == {t \in Seq(D) : Only(Only(t, A), B) = Only(t, A \cap B)}
<1>1. << >> \in Good
  BY OnlyEmpty
<1>2. ASSUME NEW t \in Seq(D), NEW x \in D, t \in Good PROVE Append(t, x) \in Good
  <2>1. Append(t, x) \in Seq(D) /\ Only(t, A) \in Seq(D)
    BY OnlyType
  <2>2. Only(Only(t, A), B) = Only(t, A \cap B)
    BY <1>2
  <2>3. Only(Append(t, x), A) = IF x \in A THEN Append(Only(t, A), x) ELSE Only(t, A)
    BY OnlyAppend
  <2>4. Only(Append(t, x), A \cap B)
            = IF x \in A \cap B THEN Append(Only(t, A \cap B), x) ELSE Only(t, A \cap B)
    BY OnlyAppend
  <2>5. Only(Append(Only(t, A), x), B)
            = IF x \in B THEN Append(Only(Only(t, A), B), x) ELSE Only(Only(t, A), B)
    BY <2>1, OnlyAppend
  <2>6. Only(Only(Append(t, x), A), B) = Only(Append(t, x), A \cap B)
    <3>1. CASE x \in A
      <4>1. x \in A \cap B <=> x \in B
        BY <3>1
      <4>2. Only(Append(t, x), A) = Append(Only(t, A), x)
        BY <2>3, <3>1
      <4> QED BY <2>2, <2>4, <2>5, <4>1, <4>2
    <3>2. CASE x \notin A
      <4>1. x \notin A \cap B
        BY <3>2
      <4>2. Only(Append(t, x), A) = Only(t, A)
        BY <2>3, <3>2
      <4> QED BY <2>2, <2>4, <4>1, <4>2
    <3> QED BY <3>1, <3>2
  <2> QED BY <2>1, <2>6
<1> HIDE DEF Good
<1>3. s \in Good
  BY <1>1, <1>2, ByAppending
<1> QED BY <1>3 DEF Good
-----------------------------------------------------------------------------
(* sum(values)                                                             *)
SumStep == [p \in Int \X Int |-> p[2] + p[1]]

LEMMA TotalIsLoop ==
    ASSUME NEW s \in Seq(Int)
    PROVE  IsRound(Int, Int, SumStep, 0) /\ Total(s) = Outcome(s, Int, SumStep, 0)
<1> DEFINE Def(f) == f = [n \in 0 .. Len(s) |-> IF n = 0 THEN 0 ELSE f[n - 1] + s[n]]
           sum == CHOOSE f : Def(f)
<1>1. IsRound(Int, Int, SumStep, 0) /\ Len(s) \in Nat
  BY DEF SumStep, IsRound
<1>2. PICK f \in [0 .. Len(s) -> Int] : IsLoop(s, SumStep, 0, f)
  BY <1>1, LoopExists
<1>3. ASSUME NEW n \in 1 .. Len(s) PROVE f[n] = f[n - 1] + s[n]
  <2>1. s[n] \in Int /\ f[n - 1] \in Int
    BY <1>1
  <2>2. f[n] = Round(SumStep, s[n], f[n - 1])
    BY <1>2 DEF IsLoop
  <2> QED BY <2>1, <2>2 DEF Round, SumStep
<1>4. Def(f)
  <2>1. f = [n \in 0 .. Len(s) |-> f[n]] /\ f[0] = 0
    BY <1>2 DEF IsLoop
  <2>2. ASSUME NEW n \in 0 .. Len(s) PROVE f[n] = IF n = 0 THEN 0 ELSE f[n - 1] + s[n]
    <3>1. CASE n = 0
      BY <2>1, <3>1
    <3>2. CASE n # 0
      <4>1. n \in 1 .. Len(s)
        BY <1>1, <3>2
      <4> QED BY <1>3, <3>2, <4>1
    <3> QED BY <3>1, <3>2
  <2> QED BY <2>1, <2>2
<1>5. Def(sum)
  BY <1>4
<1>6. Total(s) = sum[Len(s)]
  BY DEF Total
<1> HIDE DEF sum
<1>7. sum[0] = 0 /\ \A n \in 1 .. Len(s) : sum[n] = sum[n - 1] + s[n]
  <2>1. \A n \in 0 .. Len(s) : sum[n] = IF n = 0 THEN 0 ELSE sum[n - 1] + s[n]
    BY <1>5
  <2> QED BY <1>1, <2>1
<1>8. ASSUME NEW n \in 1 .. Len(s), sum[n - 1] \in Int
      PROVE  sum[n] = Round(SumStep, s[n], sum[n - 1])
  <2>1. s[n] \in Int
    OBVIOUS
  <2> QED BY <1>7, <1>8, <2>1 DEF Round, SumStep
<1>9. sum[Len(s)] = Outcome(s, Int, SumStep, 0)
  <2>1. IsRecursion(s, Int, SumStep, 0, sum)
    BY <1>7, <1>8 DEF IsRecursion
  <2> QED BY <1>1, <2>1, OutcomeOfRecursion
<1> QED BY <1>1, <1>6, <1>9

LEMMA TotalEmpty == Total(<< >>) = 0
<1>1. << >> \in Seq(Int)
  OBVIOUS
<1> QED BY <1>1, TotalIsLoop, OutcomeEmpty DEF IsRound

LEMMA TotalAppend ==
    ASSUME NEW s \in Seq(Int), NEW x \in Int
    PROVE  Total(Append(s, x)) = Total(s) + x
<1>1. Append(s, x) \in Seq(Int)
  OBVIOUS
<1>2. /\ Total(s) = Outcome(s, Int, SumStep, 0) /\ IsRound(Int, Int, SumStep, 0)
      /\ Total(Append(s, x)) = Outcome(Append(s, x), Int, SumStep, 0)
  BY <1>1, TotalIsLoop
<1>3. Outcome(Append(s, x), Int, SumStep, 0) = Round(SumStep, x, Outcome(s, Int, SumStep, 0))
  BY <1>2, OutcomeAppend
<1>4. Total(s) \in Int
  BY <1>2, OutcomeType
<1> QED BY <1>2, <1>3, <1>4 DEF Round, SumStep
-----------------------------------------------------------------------------
(* The rows, and the two loops that file something under their classes.    *)
Row == [id : Requests, op : {"GET", "PUT"}, filename : Names, bytes : Nat, rounds : Nat,
        forfeited_bytes : Nat, arrival_ns : Nat, start_ns : Nat, finish_ns : Nat]

LEMMA RowClass ==
    ASSUME NEW r \in Row
    PROVE  /\ SizeClass(r) \in CLASSES /\ r.bytes \in Int /\ r.forfeited_bytes \in Int
           /\ Slowdown(r) \in Int \X Int
<1>1. /\ r.filename \in Names /\ r.bytes \in Nat /\ r.forfeited_bytes \in Nat
      /\ r.finish_ns \in Nat /\ r.arrival_ns \in Nat
  BY DEF Row
<1>2. r.filename \in DOMAIN NameClass
  BY <1>1, NamesAssumption
<1>3. NameClass[r.filename] \in CLASSES \cup {None}
  BY <1>2, RowsAssumption
<1>4. SizeClass(r) \in CLASSES
  BY <1>3 DEF SizeClass, CLASSES
<1>5. Slowdown(r) \in Int \X Int
  BY <1>1 DEF Slowdown, Response
<1> QED BY <1>1, <1>4, <1>5

(* analysis.py's loop over the rows.                                       *)
PerClassSeq == [CLASSES -> Seq(Int \X Int)]
NoSlowdowns == [cls \in CLASSES |-> << >>]
SlowStep ==
    [p \in Row \X PerClassSeq |->
        IF p[1].bytes = 0 THEN p[2]
        ELSE [p[2] EXCEPT ![SizeClass(p[1])] = Append(@, Slowdown(p[1]))]]

LEMMA SlowStepType ==
    ASSUME NEW r \in Row, NEW value \in PerClassSeq
    PROVE  SlowStep[<<r, value>>] \in PerClassSeq
<1>1. SizeClass(r) \in CLASSES /\ Slowdown(r) \in Int \X Int
  BY RowClass
<1>2. value[SizeClass(r)] \in Seq(Int \X Int)
  BY <1>1 DEF PerClassSeq
<1>3. Append(value[SizeClass(r)], Slowdown(r)) \in Seq(Int \X Int)
  BY <1>1, <1>2
<1>4. [value EXCEPT ![SizeClass(r)] = Append(@, Slowdown(r))] \in PerClassSeq
  BY <1>1, <1>3 DEF PerClassSeq
<1> QED BY <1>4 DEF SlowStep

LEMMA SlowdownsIsLoop ==
    ASSUME NEW s \in Seq(Row)
    PROVE  /\ IsRound(Row, PerClassSeq, SlowStep, NoSlowdowns)
           /\ SlowdownsByClass(s) = Outcome(s, PerClassSeq, SlowStep, NoSlowdowns)
<1> DEFINE Filed(n, f) == IF s[n].bytes = 0 THEN f[n - 1]
                          ELSE [f[n - 1] EXCEPT ![SizeClass(s[n])] = Append(@, Slowdown(s[n]))]
           Def(f) == f = [n \in 0 .. Len(s) |->
                             IF n = 0 THEN [cls \in CLASSES |-> << >>]
                             ELSE IF s[n].bytes = 0 THEN f[n - 1]
                             ELSE [f[n - 1] EXCEPT ![SizeClass(s[n])] = Append(@, Slowdown(s[n]))]]
           by_class == CHOOSE f : Def(f)
<1>1. IsRound(Row, PerClassSeq, SlowStep, NoSlowdowns) /\ Len(s) \in Nat
  <2>1. NoSlowdowns \in PerClassSeq
    BY DEF NoSlowdowns, PerClassSeq
  <2>2. SlowStep \in [Row \X PerClassSeq -> PerClassSeq]
    <3>1. SlowStep = [p \in Row \X PerClassSeq |-> SlowStep[p]]
      BY DEF SlowStep
    <3>2. ASSUME NEW p \in Row \X PerClassSeq PROVE SlowStep[p] \in PerClassSeq
      <4>1. p = <<p[1], p[2]>> /\ p[1] \in Row /\ p[2] \in PerClassSeq
        OBVIOUS
      <4>2. SlowStep[<<p[1], p[2]>>] \in PerClassSeq
        BY <4>1, SlowStepType
      <4> QED BY <4>1, <4>2
    <3> QED BY <3>1, <3>2
  <2> QED BY <2>1, <2>2 DEF IsRound
<1>2. PICK f \in [0 .. Len(s) -> PerClassSeq] : IsLoop(s, SlowStep, NoSlowdowns, f)
  BY <1>1, LoopExists
<1>3. ASSUME NEW n \in 1 .. Len(s), NEW value \in PerClassSeq
      PROVE  Round(SlowStep, s[n], value) =
                 IF s[n].bytes = 0 THEN value
                 ELSE [value EXCEPT ![SizeClass(s[n])] = Append(@, Slowdown(s[n]))]
  <2>1. s[n] \in Row
    OBVIOUS
  <2> QED BY <2>1 DEF Round, SlowStep
<1>4. Def(f)
  <2>1. f = [n \in 0 .. Len(s) |-> f[n]] /\ f[0] = NoSlowdowns
    BY <1>2 DEF IsLoop
  <2>2. ASSUME NEW n \in 0 .. Len(s)
        PROVE  f[n] = IF n = 0 THEN NoSlowdowns ELSE Filed(n, f)
    <3>1. CASE n = 0
      BY <2>1, <3>1
    <3>2. CASE n # 0
      <4>1. n \in 1 .. Len(s) /\ n - 1 \in 0 .. Len(s)
        BY <1>1, <3>2
      <4>2. f[n - 1] \in PerClassSeq /\ f[n] = Round(SlowStep, s[n], f[n - 1])
        BY <1>2, <4>1 DEF IsLoop
      <4> QED BY <1>3, <3>2, <4>1, <4>2
    <3> QED BY <3>1, <3>2
  <2> QED BY <2>1, <2>2 DEF NoSlowdowns
<1>5. Def(by_class)
  BY <1>4
<1>6. SlowdownsByClass(s) = by_class[Len(s)]
  BY DEF SlowdownsByClass
<1> HIDE DEF by_class
<1>7. by_class[0] = NoSlowdowns /\ \A n \in 1 .. Len(s) : by_class[n] = Filed(n, by_class)
  <2>1. \A n \in 0 .. Len(s) :
            by_class[n] = IF n = 0 THEN [cls \in CLASSES |-> << >>] ELSE Filed(n, by_class)
    BY <1>5
  <2> HIDE DEF Filed
  <2> QED BY <1>1, <2>1 DEF NoSlowdowns
<1>8. IsRecursion(s, PerClassSeq, SlowStep, NoSlowdowns, by_class)
  <2>1. ASSUME NEW n \in 1 .. Len(s), by_class[n - 1] \in PerClassSeq
        PROVE  by_class[n] = Round(SlowStep, s[n], by_class[n - 1])
    BY <1>3, <1>7, <2>1
  <2> QED BY <1>7, <2>1 DEF IsRecursion
<1>9. by_class[Len(s)] = Outcome(s, PerClassSeq, SlowStep, NoSlowdowns)
  BY <1>1, <1>8, OutcomeOfRecursion
<1> QED BY <1>1, <1>6, <1>9

LEMMA SlowdownsEmpty == SlowdownsByClass(<< >>) = NoSlowdowns
<1>1. << >> \in Seq(Row)
  OBVIOUS
<1> QED BY <1>1, SlowdownsIsLoop, OutcomeEmpty DEF IsRound

LEMMA SlowdownsAppend ==
    ASSUME NEW s \in Seq(Row), NEW r \in Row
    PROVE  /\ SlowdownsByClass(s) \in PerClassSeq
           /\ SlowdownsByClass(Append(s, r)) =
                  IF r.bytes = 0 THEN SlowdownsByClass(s)
                  ELSE [SlowdownsByClass(s) EXCEPT ![SizeClass(r)] = Append(@, Slowdown(r))]
<1>1. Append(s, r) \in Seq(Row)
  OBVIOUS
<1>2. /\ IsRound(Row, PerClassSeq, SlowStep, NoSlowdowns)
      /\ SlowdownsByClass(s) = Outcome(s, PerClassSeq, SlowStep, NoSlowdowns)
      /\ SlowdownsByClass(Append(s, r)) = Outcome(Append(s, r), PerClassSeq, SlowStep, NoSlowdowns)
  BY <1>1, SlowdownsIsLoop
<1>3. Outcome(Append(s, r), PerClassSeq, SlowStep, NoSlowdowns)
          = Round(SlowStep, r, Outcome(s, PerClassSeq, SlowStep, NoSlowdowns))
  BY <1>2, OutcomeAppend
<1>4. SlowdownsByClass(s) \in PerClassSeq
  BY <1>2, OutcomeType
<1> QED BY <1>2, <1>3, <1>4 DEF Round, SlowStep

(* compare_rr_drr.py's loop over the rows.                                 *)
PerClassSum == [CLASSES -> Int]
NoForfeits == [cls \in CLASSES |-> 0]
ForfeitStep ==
    [p \in Row \X PerClassSum |-> [p[2] EXCEPT ![SizeClass(p[1])] = @ + p[1].forfeited_bytes]]

LEMMA ForfeitedIsLoop ==
    ASSUME NEW s \in Seq(Row)
    PROVE  /\ IsRound(Row, PerClassSum, ForfeitStep, NoForfeits)
           /\ ForfeitedByClass(s) = Outcome(s, PerClassSum, ForfeitStep, NoForfeits)
<1> DEFINE Added(n, f) == [f[n - 1] EXCEPT ![SizeClass(s[n])] = @ + s[n].forfeited_bytes]
           Def(f) == f = [n \in 0 .. Len(s) |->
                             IF n = 0 THEN [cls \in CLASSES |-> 0]
                             ELSE [f[n - 1] EXCEPT ![SizeClass(s[n])] = @ + s[n].forfeited_bytes]]
           totals == CHOOSE f : Def(f)
<1>1. IsRound(Row, PerClassSum, ForfeitStep, NoForfeits) /\ Len(s) \in Nat
  <2>1. NoForfeits \in PerClassSum
    BY DEF NoForfeits, PerClassSum
  <2>2. ForfeitStep \in [Row \X PerClassSum -> PerClassSum]
    <3>1. ForfeitStep = [p \in Row \X PerClassSum |-> ForfeitStep[p]]
      BY DEF ForfeitStep
    <3>2. ASSUME NEW p \in Row \X PerClassSum PROVE ForfeitStep[p] \in PerClassSum
      <4>1. p[1] \in Row /\ p[2] \in PerClassSum
        OBVIOUS
      <4>2. SizeClass(p[1]) \in CLASSES /\ p[1].forfeited_bytes \in Int
        BY <4>1, RowClass
      <4>3. p[2][SizeClass(p[1])] + p[1].forfeited_bytes \in Int
        BY <4>1, <4>2 DEF PerClassSum
      <4>4. [p[2] EXCEPT ![SizeClass(p[1])] = @ + p[1].forfeited_bytes] \in PerClassSum
        BY <4>1, <4>2, <4>3 DEF PerClassSum
      <4> QED BY <4>4 DEF ForfeitStep
    <3> QED BY <3>1, <3>2
  <2> QED BY <2>1, <2>2 DEF IsRound
<1>2. PICK f \in [0 .. Len(s) -> PerClassSum] : IsLoop(s, ForfeitStep, NoForfeits, f)
  BY <1>1, LoopExists
<1>3. ASSUME NEW n \in 1 .. Len(s), NEW value \in PerClassSum
      PROVE  Round(ForfeitStep, s[n], value) =
                 [value EXCEPT ![SizeClass(s[n])] = @ + s[n].forfeited_bytes]
  <2>1. s[n] \in Row
    OBVIOUS
  <2> QED BY <2>1 DEF Round, ForfeitStep
<1>4. Def(f)
  <2>1. f = [n \in 0 .. Len(s) |-> f[n]] /\ f[0] = NoForfeits
    BY <1>2 DEF IsLoop
  <2>2. ASSUME NEW n \in 0 .. Len(s)
        PROVE  f[n] = IF n = 0 THEN NoForfeits ELSE Added(n, f)
    <3>1. CASE n = 0
      BY <2>1, <3>1
    <3>2. CASE n # 0
      <4>1. n \in 1 .. Len(s) /\ n - 1 \in 0 .. Len(s)
        BY <1>1, <3>2
      <4>2. f[n - 1] \in PerClassSum /\ f[n] = Round(ForfeitStep, s[n], f[n - 1])
        BY <1>2, <4>1 DEF IsLoop
      <4> QED BY <1>3, <3>2, <4>1, <4>2
    <3> QED BY <3>1, <3>2
  <2> QED BY <2>1, <2>2 DEF NoForfeits
<1>5. Def(totals)
  BY <1>4
<1>6. ForfeitedByClass(s) = totals[Len(s)]
  BY DEF ForfeitedByClass
<1> HIDE DEF totals
<1>7. totals[0] = NoForfeits /\ \A n \in 1 .. Len(s) : totals[n] = Added(n, totals)
  <2>1. \A n \in 0 .. Len(s) :
            totals[n] = IF n = 0 THEN [cls \in CLASSES |-> 0] ELSE Added(n, totals)
    BY <1>5
  <2> HIDE DEF Added
  <2> QED BY <1>1, <2>1 DEF NoForfeits
<1>8. IsRecursion(s, PerClassSum, ForfeitStep, NoForfeits, totals)
  <2>1. ASSUME NEW n \in 1 .. Len(s), totals[n - 1] \in PerClassSum
        PROVE  totals[n] = Round(ForfeitStep, s[n], totals[n - 1])
    BY <1>3, <1>7, <2>1
  <2> QED BY <1>7, <2>1 DEF IsRecursion
<1>9. totals[Len(s)] = Outcome(s, PerClassSum, ForfeitStep, NoForfeits)
  BY <1>1, <1>8, OutcomeOfRecursion
<1> QED BY <1>1, <1>6, <1>9

LEMMA ForfeitedEmpty == ForfeitedByClass(<< >>) = NoForfeits
<1>1. << >> \in Seq(Row)
  OBVIOUS
<1> QED BY <1>1, ForfeitedIsLoop, OutcomeEmpty DEF IsRound

LEMMA ForfeitedAppend ==
    ASSUME NEW s \in Seq(Row), NEW r \in Row
    PROVE  /\ ForfeitedByClass(s) \in PerClassSum
           /\ ForfeitedByClass(Append(s, r)) =
                  [ForfeitedByClass(s) EXCEPT ![SizeClass(r)] = @ + r.forfeited_bytes]
<1>1. Append(s, r) \in Seq(Row)
  OBVIOUS
<1>2. /\ IsRound(Row, PerClassSum, ForfeitStep, NoForfeits)
      /\ ForfeitedByClass(s) = Outcome(s, PerClassSum, ForfeitStep, NoForfeits)
      /\ ForfeitedByClass(Append(s, r)) = Outcome(Append(s, r), PerClassSum, ForfeitStep, NoForfeits)
  BY <1>1, ForfeitedIsLoop
<1>3. Outcome(Append(s, r), PerClassSum, ForfeitStep, NoForfeits)
          = Round(ForfeitStep, r, Outcome(s, PerClassSum, ForfeitStep, NoForfeits))
  BY <1>2, OutcomeAppend
<1>4. ForfeitedByClass(s) \in PerClassSum
  BY <1>2, OutcomeType
<1> QED BY <1>2, <1>3, <1>4 DEF Round, ForfeitStep
-----------------------------------------------------------------------------
(* The loops against the comprehensions, by induction over the rows.       *)
OfClass(cls) == {r \in Row : SizeClass(r) = cls}
NotEmpty == {r \in Row : r.bytes > 0}

(* The comprehension's condition may be taken of all the rows there are.   *)
LEMMA ClassRows ==
    ASSUME NEW s \in Seq(Row), NEW cls
    PROVE  RowsOfClass(s, cls) = Only(s, OfClass(cls)) /\ RowsOfClass(s, cls) \in Seq(Row)
<1>1. \A k \in 1 .. Len(s) : s[k] \in {r \in ToSet(s) : SizeClass(r) = cls} <=> s[k] \in OfClass(cls)
  BY DEF ToSet, OfClass
<1>2. Only(s, {r \in ToSet(s) : SizeClass(r) = cls}) = Only(s, OfClass(cls))
  BY <1>1, OnlySame
<1> QED BY <1>2, OnlyType DEF RowsOfClass

LEMMA NotEmptyRows ==
    ASSUME NEW s \in Seq(Row)
    PROVE  Only(s, {r \in ToSet(s) : r.bytes > 0}) = Only(s, NotEmpty)
<1>1. \A k \in 1 .. Len(s) : s[k] \in {r \in ToSet(s) : r.bytes > 0} <=> s[k] \in NotEmpty
  BY DEF ToSet, NotEmpty
<1> QED BY <1>1, OnlySame

(* by_class[cls] is the list that the comprehension makes.                 *)
LEMMA SlowdownsAgree ==
    ASSUME NEW s \in Seq(Row), NEW cls \in CLASSES
    PROVE  SlowdownsByClass(s)[cls] = Column(Only(s, OfClass(cls) \cap NotEmpty), Slowdown)
<1> DEFINE these == OfClass(cls) \cap NotEmpty
           Good == {t \in Seq(Row) : SlowdownsByClass(t)[cls] = Column(Only(t, these), Slowdown)}
<1>1. << >> \in Good
  <2>1. SlowdownsByClass(<< >>)[cls] = << >>
    BY SlowdownsEmpty DEF NoSlowdowns
  <2>2. Only(<< >>, these) = << >>
    BY OnlyEmpty
  <2>3. Column(<< >>, Slowdown) = << >>
    BY DEF Column
  <2> QED BY <2>1, <2>2, <2>3
<1>2. ASSUME NEW t \in Seq(Row), NEW r \in Row, t \in Good PROVE Append(t, r) \in Good
  <2> DEFINE u == Only(t, these)
  <2>1. SlowdownsByClass(t)[cls] = Column(u, Slowdown)
    BY <1>2
  <2>2. u \in Seq(Row)
    BY OnlyType
  <2>3. Only(Append(t, r), these) = IF r \in these THEN Append(u, r) ELSE u
    BY OnlyAppend
  <2>4. /\ SlowdownsByClass(t) \in PerClassSeq
        /\ SlowdownsByClass(Append(t, r)) =
               IF r.bytes = 0 THEN SlowdownsByClass(t)
               ELSE [SlowdownsByClass(t) EXCEPT ![SizeClass(r)] = Append(@, Slowdown(r))]
    BY SlowdownsAppend
  <2>5. r \in these <=> SizeClass(r) = cls /\ r.bytes # 0
    BY DEF OfClass, NotEmpty, Row
  <2> HIDE DEF u, these
  <2>6. Column(Append(u, r), Slowdown) = Append(Column(u, Slowdown), Slowdown(r))
    BY <2>2 DEF Column
  <2>7. SlowdownsByClass(Append(t, r))[cls] = Column(Only(Append(t, r), these), Slowdown)
    <3>1. CASE r \in these
      <4>1. SlowdownsByClass(Append(t, r))[cls] = Append(SlowdownsByClass(t)[cls], Slowdown(r))
        BY <2>4, <2>5, <3>1 DEF PerClassSeq
      <4>2. Only(Append(t, r), these) = Append(u, r)
        BY <2>3, <3>1
      <4> QED BY <2>1, <2>6, <4>1, <4>2
    <3>2. CASE r \notin these
      <4>1. SlowdownsByClass(Append(t, r))[cls] = SlowdownsByClass(t)[cls]
        BY <2>4, <2>5, <3>2 DEF PerClassSeq
      <4>2. Only(Append(t, r), these) = u
        BY <2>3, <3>2
      <4> QED BY <2>1, <4>1, <4>2
    <3> QED BY <3>1, <3>2
  <2> QED BY <2>7
<1> HIDE DEF Good
<1>3. s \in Good
  BY <1>1, <1>2, ByAppending
<1> QED BY <1>3 DEF Good

(* totals[cls] is the sum that the comprehension gives.                    *)
LEMMA ForfeitsAgree ==
    ASSUME NEW s \in Seq(Row), NEW cls \in CLASSES
    PROVE  ForfeitedByClass(s)[cls] = Total(Column(Only(s, OfClass(cls)), LAMBDA r : r.forfeited_bytes))
<1> DEFINE these == OfClass(cls)
           Bytes(u) == [i \in DOMAIN u |-> u[i].forfeited_bytes]
           Good == {t \in Seq(Row) : ForfeitedByClass(t)[cls] = Total(Bytes(Only(t, these)))}
<1>1. << >> \in Good
  <2>1. ForfeitedByClass(<< >>)[cls] = 0
    BY ForfeitedEmpty DEF NoForfeits
  <2>2. Only(<< >>, these) = << >>
    BY OnlyEmpty
  <2>3. Bytes(<< >>) = << >>
    OBVIOUS
  <2> QED BY <2>1, <2>2, <2>3, TotalEmpty
<1>2. ASSUME NEW t \in Seq(Row), NEW r \in Row, t \in Good PROVE Append(t, r) \in Good
  <2> DEFINE u == Only(t, these)
  <2>1. ForfeitedByClass(t)[cls] = Total(Bytes(u))
    BY <1>2
  <2>2. u \in Seq(Row)
    BY OnlyType
  <2>3. Only(Append(t, r), these) = IF r \in these THEN Append(u, r) ELSE u
    BY OnlyAppend
  <2>4. /\ ForfeitedByClass(t) \in PerClassSum
        /\ ForfeitedByClass(Append(t, r)) =
               [ForfeitedByClass(t) EXCEPT ![SizeClass(r)] = @ + r.forfeited_bytes]
    BY ForfeitedAppend
  <2>5. r \in these <=> SizeClass(r) = cls
    BY DEF OfClass
  <2>6. r.forfeited_bytes \in Int
    BY RowClass
  <2> HIDE DEF u, these
  <2>7. Bytes(u) \in Seq(Int) /\ Bytes(Append(u, r)) = Append(Bytes(u), r.forfeited_bytes)
    <3>1. \A i \in DOMAIN u : u[i].forfeited_bytes \in Int
      BY <2>2, RowClass
    <3>2. Bytes(u) \in Seq(Int)
      BY <2>2, <3>1
    <3>3. Bytes(Append(u, r)) = Append(Bytes(u), r.forfeited_bytes)
      BY <2>2
    <3> QED BY <3>2, <3>3
  <2> HIDE DEF Bytes
  <2>8. Total(Append(Bytes(u), r.forfeited_bytes)) = Total(Bytes(u)) + r.forfeited_bytes
    BY <2>6, <2>7, TotalAppend
  <2>9. ForfeitedByClass(Append(t, r))[cls] = Total(Bytes(Only(Append(t, r), these)))
    <3>1. CASE r \in these
      <4>1. ForfeitedByClass(Append(t, r))[cls] = ForfeitedByClass(t)[cls] + r.forfeited_bytes
        BY <2>4, <2>5, <3>1 DEF PerClassSum
      <4>2. Only(Append(t, r), these) = Append(u, r)
        BY <2>3, <3>1
      <4> QED BY <2>1, <2>7, <2>8, <4>1, <4>2
    <3>2. CASE r \notin these
      <4>1. ForfeitedByClass(Append(t, r))[cls] = ForfeitedByClass(t)[cls]
        BY <2>4, <2>5, <3>2 DEF PerClassSum
      <4>2. Only(Append(t, r), these) = u
        BY <2>3, <3>2
      <4> QED BY <2>1, <4>1, <4>2
    <3> QED BY <3>1, <3>2
  <2> QED BY <2>9
<1> HIDE DEF Good
<1>3. s \in Good
  BY <1>1, <1>2, ByAppending
<1> QED BY <1>3 DEF Good, Column

(* Every row has one class.                                                *)
LEMMA ClassesAccount ==
    ASSUME NEW s \in Seq(Row)
    PROVE  Len(Only(s, OfClass("small"))) + Len(Only(s, OfClass("medium")))
               + Len(Only(s, OfClass("large"))) = Len(s)
<1> DEFINE N(t, cls) == Len(Only(t, OfClass(cls)))
           Good == {t \in Seq(Row) : N(t, "small") + N(t, "medium") + N(t, "large") = Len(t)}
<1>1. << >> \in Good
  <2>1. \A cls : N(<< >>, cls) = 0
    BY OnlyEmpty
  <2> QED BY <2>1
<1>2. ASSUME NEW t \in Seq(Row), NEW r \in Row, t \in Good PROVE Append(t, r) \in Good
  <2>1. ASSUME NEW cls
        PROVE  N(t, cls) \in Nat /\ N(Append(t, r), cls) = IF SizeClass(r) = cls THEN N(t, cls) + 1
                                                           ELSE N(t, cls)
    <3>1. Only(t, OfClass(cls)) \in Seq(Row)
      BY OnlyType
    <3>2. Only(Append(t, r), OfClass(cls)) =
              IF r \in OfClass(cls) THEN Append(Only(t, OfClass(cls)), r) ELSE Only(t, OfClass(cls))
      BY OnlyAppend
    <3>3. r \in OfClass(cls) <=> SizeClass(r) = cls
      BY DEF OfClass
    <3> QED BY <3>1, <3>2, <3>3
  <2>2. SizeClass(r) \in {"small", "medium", "large"}
    BY RowClass DEF CLASSES
  <2>3. N(t, "small") + N(t, "medium") + N(t, "large") = Len(t)
    BY <1>2
  <2>4. Len(Append(t, r)) = Len(t) + 1 /\ Append(t, r) \in Seq(Row)
    OBVIOUS
  <2> HIDE DEF N
  <2>5. N(Append(t, r), "small") + N(Append(t, r), "medium") + N(Append(t, r), "large")
            = Len(Append(t, r))
    BY <2>1, <2>2, <2>3, <2>4
  <2> QED BY <2>4, <2>5
<1> HIDE DEF Good
<1>3. s \in Good
  BY <1>1, <1>2, ByAppending
<1> QED BY <1>3 DEF Good
-----------------------------------------------------------------------------
(* The load generator.                                                     *)

USE LoadAssumption

Stages == {"none", "sent", "arrived", "served", "recorded", "failed"}

TypeInv ==
    /\ pc \in [Clients -> {"seed", "exchange", "join", "exited", "unborn", "claim"}]
    /\ at \in [Clients -> Requests \cup {0}]
    /\ seeded \in Nat /\ counter \in Nat /\ failures \in Nat /\ clock \in Nat
    /\ made \in [Requests -> {0, 1}]
    /\ request \in [Requests -> [op : {"none", "GET", "PUT"}, filename : Names \cup {"none"},
                                 stage : Stages, arrival_ns : Nat, start_ns : Nat]]
    /\ rows \in Seq(Row)

(* Where the threads are: main seeds first, the others run while it waits. *)
ThreadInv ==
    /\ pc[Main] \in {"seed", "exchange", "join", "exited"}
    /\ pc[Main] \in {"seed", "exchange"} => counter = 0 /\ \A t \in Threads : pc[t] = "unborn"
    /\ pc[Main] = "seed" => seeded <= Len(files)
    /\ pc[Main] = "exchange" => seeded < Len(files) /\ at[Main] = seeded + 1
    /\ pc[Main] \in {"join", "exited"} => seeded = Len(files)
    /\ pc[Main] = "exited" => \A t \in Threads : pc[t] = "exited"
    /\ \A t \in Threads :
          /\ pc[t] \in {"unborn", "claim", "exchange", "exited"}
          /\ pc[t] = "exchange" => at[t] \in Counted /\ at[t] <= Len(files) + counter
          /\ pc[t] = "exited" => counter >= n_requests

(* The requests that have begun: the seeds up to that of main, and as many *)
(* counted ones as the counter says.                                       *)
Begun(i) ==
    IF i \in Seeds THEN i <= seeded \/ (pc[Main] = "exchange" /\ i = at[Main])
    ELSE i <= Len(files) + counter
MadeInv ==
    \A i \in Requests : /\ made[i] = IF Begun(i) THEN 1 ELSE 0
                        /\ request[i].stage = "none" <=> ~Begun(i)
                        /\ Begun(i) => request[i].op # "none" /\ request[i].filename \in Names

(* As long as no exchange has failed, a request whose client has gone on   *)
(* has been served.                                                        *)
InFlight(i) == \E c \in Clients : pc[c] = "exchange" /\ at[c] = i
ServedInv ==
    failures = 0 => \A i \in Requests :
        Begun(i) /\ ~InFlight(i) => request[i].stage \in {"served", "recorded"}

(* The stamps of arrival: taken in the past, all different, and, as long   *)
(* as no exchange has failed, those of the seeds before all the others.    *)
Stamped(i) == request[i].stage \in {"arrived", "served", "recorded"}
StampInv ==
    /\ \A i \in Requests : Stamped(i) => request[i].arrival_ns < clock
    /\ \A i, j \in Requests :
          Stamped(i) /\ Stamped(j) /\ request[i].arrival_ns = request[j].arrival_ns => i = j
    /\ failures = 0 => \A s \in Seeds, i \in Counted :
          Stamped(i) => Stamped(s) /\ request[s].arrival_ns < request[i].arrival_ns

(* The metrics file: one row for every request that has been recorded.     *)
RowInv ==
    /\ \A k \in DOMAIN rows : /\ request[rows[k].id].stage = "recorded"
                              /\ rows[k].arrival_ns = request[rows[k].id].arrival_ns
    /\ \A k, l \in DOMAIN rows : rows[k].id = rows[l].id => k = l
    /\ \A i \in Requests :
          request[i].stage = "recorded" => \E k \in DOMAIN rows : rows[k].id = i

IInv == TypeInv /\ ThreadInv /\ MadeInv /\ ServedInv /\ StampInv /\ RowInv

(* The numbers of the requests, and the threads.                           *)
LEMMA LoadFacts ==
    /\ Len(files) \in Nat \ {0} /\ n_requests \in Nat
    /\ \A i : i \in Seeds <=> i \in Nat /\ 1 <= i /\ i <= Len(files)
    /\ \A i : i \in Counted <=> i \in Nat /\ Len(files) < i /\ i <= Len(files) + n_requests
    /\ \A i : i \in Requests <=> i \in Seeds \/ i \in Counted
    /\ 0 \notin Requests /\ Requests \subseteq Nat
    /\ \A i \in Seeds : files[i] \in Names
    /\ Main \in Clients /\ Main \notin Threads /\ Threads \subseteq Clients
    /\ \A c \in Clients : c = Main \/ c \in Threads
  BY DEF Seeds, Counted, Requests, Clients

LEMMA InitLoad == Init => IInv
<1> SUFFICES ASSUME Init PROVE IInv
  OBVIOUS
<1>1. \A i \in Requests : ~Begun(i)
  BY LoadFacts DEF Init, Begun
<1>2. \A i \in Requests : request[i] = NoRequest /\ made[i] = 0
  BY DEF Init
<1>3. TypeInv
  <2>1. NoRequest \in [op : {"none", "GET", "PUT"}, filename : Names \cup {"none"},
                       stage : Stages, arrival_ns : Nat, start_ns : Nat]
    BY DEF NoRequest, Stages
  <2>2. pc \in [Clients -> {"seed", "exchange", "join", "exited", "unborn", "claim"}]
    BY DEF Init
  <2>3. rows \in Seq(Row)
    BY DEF Init
  <2> QED BY <2>1, <2>2, <2>3 DEF Init, TypeInv
<1>4. ThreadInv
  BY LoadFacts DEF Init, ThreadInv
<1>5. MadeInv /\ ServedInv
  BY <1>1, <1>2 DEF MadeInv, ServedInv, NoRequest
<1>6. StampInv
  <2>1. \A i \in Requests : ~Stamped(i)
    BY <1>2 DEF Stamped, NoRequest
  <2> QED BY <2>1, LoadFacts DEF StampInv
<1>7. RowInv
  <2>1. DOMAIN rows = {}
    BY DEF Init
  <2> QED BY <1>2, <2>1 DEF RowInv, NoRequest
<1> QED BY <1>3, <1>4, <1>5, <1>6, <1>7 DEF IInv

(* A client moves on and the server does not: nothing is said of the       *)
(* requests but that those whose exchange ends well have been served.      *)
LEMMA ClientMoves ==
    ASSUME IInv, UNCHANGED <<made, serverVars>>, failures' \in Nat,
           \A i \in Requests : Begun(i)' <=> Begun(i),
           failures' = 0 =>
               /\ failures = 0
               /\ \A i \in Requests : InFlight(i) => \/ InFlight(i)'
                                                     \/ request[i].stage \in {"served", "recorded"}
    PROVE  MadeInv' /\ ServedInv' /\ StampInv' /\ RowInv'
<1> USE DEF IInv, serverVars
<1>1. MadeInv'
  BY DEF MadeInv
<1>2. ServedInv'
  BY DEF ServedInv
<1>3. StampInv'
  BY DEF StampInv, Stamped
<1>4. RowInv'
  BY DEF RowInv
<1> QED BY <1>1, <1>2, <1>3, <1>4

(* An exchange begins, with a request that nobody has made.                *)
LEMMA ExchangeBegins ==
    ASSUME IInv, NEW c \in Clients, NEW i \in Requests, NEW op \in {"GET", "PUT"}, NEW f \in Names,
           Begin(c, i, op, f), ~Begun(i), pc[c] # "exchange", failures' = failures,
           \A j \in Requests : Begun(j)' <=> Begun(j) \/ j = i
    PROVE  /\ MadeInv' /\ ServedInv' /\ StampInv' /\ RowInv'
           /\ made' \in [Requests -> {0, 1}]
           /\ request' \in [Requests -> [op : {"none", "GET", "PUT"}, filename : Names \cup {"none"},
                                         stage : Stages, arrival_ns : Nat, start_ns : Nat]]
<1> USE DEF IInv
<1> DEFINE new == [NoRequest EXCEPT !.op = op, !.filename = f, !.stage = "sent"]
<1>1. /\ made' = [made EXCEPT ![i] = @ + 1] /\ request' = [request EXCEPT ![i] = new]
      /\ at' = [at EXCEPT ![c] = i] /\ pc' = [pc EXCEPT ![c] = "exchange"]
      /\ UNCHANGED <<rows, clock>>
  BY DEF Begin
<1>2. /\ new \in [op : {"none", "GET", "PUT"}, filename : Names \cup {"none"},
                  stage : Stages, arrival_ns : Nat, start_ns : Nat]
      /\ new.op = op /\ new.filename = f /\ new.stage = "sent"
  <2>1. NoRequest \in [op : {"none", "GET", "PUT"}, filename : Names \cup {"none"},
                       stage : Stages, arrival_ns : Nat, start_ns : Nat]
    BY DEF NoRequest, Stages
  <2>2. "sent" \in Stages
    BY DEF Stages
  <2> QED BY <2>1, <2>2
<1> HIDE DEF new
<1>3. made[i] = 0 /\ request[i].stage = "none"
  BY DEF MadeInv
<1>4. /\ \A j \in Requests : j # i => made'[j] = made[j] /\ request'[j] = request[j]
      /\ made'[i] = 1 /\ request'[i] = new
  BY <1>1, <1>3 DEF TypeInv
<1>5. MadeInv'
  <2> SUFFICES ASSUME NEW j \in Requests
               PROVE  /\ made'[j] = IF Begun(j)' THEN 1 ELSE 0
                      /\ request'[j].stage = "none" <=> ~Begun(j)'
                      /\ Begun(j)' => request'[j].op # "none" /\ request'[j].filename \in Names
    BY DEF MadeInv
  <2>1. CASE j = i
    BY <1>2, <1>4, <2>1
  <2>2. CASE j # i
    BY <1>4, <2>2 DEF MadeInv
  <2> QED BY <2>1, <2>2
<1>6. ServedInv'
  <2> SUFFICES ASSUME failures = 0, NEW j \in Requests, Begun(j)', ~InFlight(j)'
               PROVE  request'[j].stage \in {"served", "recorded"}
    BY DEF ServedInv
  <2>1. InFlight(i)'
    BY <1>1 DEF InFlight, TypeInv
  <2>2. j # i
    BY <2>1
  <2>3. ~InFlight(j)
    <3>1. ASSUME NEW d \in Clients, pc[d] = "exchange", at[d] = j PROVE FALSE
      <4>1. d # c
        BY <3>1
      <4>2. pc'[d] = "exchange" /\ at'[d] = j
        BY <1>1, <3>1, <4>1 DEF TypeInv
      <4> QED BY <4>2 DEF InFlight
    <3> QED BY <3>1 DEF InFlight
  <2> QED BY <1>4, <2>2, <2>3 DEF ServedInv
<1>7. StampInv'
  <2>1. \A j \in Requests : Stamped(j)' <=> Stamped(j)
    BY <1>2, <1>3, <1>4 DEF Stamped
  <2>2. \A j \in Requests : Stamped(j) => request'[j] = request[j]
    BY <1>3, <1>4 DEF Stamped
  <2>3. Seeds \subseteq Requests /\ Counted \subseteq Requests
    BY DEF Requests
  <2> QED BY <1>1, <2>1, <2>2, <2>3 DEF StampInv
<1>8. RowInv'
  <2>1. \A k \in DOMAIN rows : rows[k].id \in Requests
    <3>1. \A k \in DOMAIN rows : rows[k] \in Row
      BY DEF TypeInv
    <3> QED BY <3>1 DEF Row
  <2>2. \A k \in DOMAIN rows : rows[k].id # i
    BY <1>3 DEF RowInv
  <2> QED BY <1>1, <1>2, <1>4, <2>1, <2>2 DEF RowInv
<1>9. made' \in [Requests -> {0, 1}]
  BY <1>1, <1>3 DEF TypeInv
<1>10. request' \in [Requests -> [op : {"none", "GET", "PUT"}, filename : Names \cup {"none"},
                                  stage : Stages, arrival_ns : Nat, start_ns : Nat]]
  BY <1>1, <1>2 DEF TypeInv
<1> QED BY <1>5, <1>6, <1>7, <1>8, <1>9, <1>10

(* Main makes the PUT of the next file.                                    *)
LEMMA SeedNextStep == ASSUME IInv, SeedNext PROVE IInv'
<1> USE DEF IInv
<1> DEFINE n == seeded + 1
<1>1. /\ pc[Main] = "seed" /\ seeded < Len(files)
      /\ Begin(Main, n, "PUT", files[n])
      /\ UNCHANGED <<seeded, counter, failures>>
  BY DEF SeedNext
<1>2. n \in Seeds /\ n \in Requests /\ files[n] \in Names /\ Main \in Clients
  <2>1. n \in Nat /\ 1 <= n /\ n <= Len(files)
    BY <1>1, LoadFacts DEF TypeInv
  <2> HIDE DEF n
  <2> QED BY <2>1, LoadFacts
<1>3. /\ pc' = [pc EXCEPT ![Main] = "exchange"] /\ at' = [at EXCEPT ![Main] = n]
      /\ pc'[Main] = "exchange" /\ at'[Main] = n /\ UNCHANGED <<rows, clock>>
  BY <1>1, <1>2 DEF Begin, TypeInv
<1>4. ~Begun(n) /\ \A j \in Requests : Begun(j)' <=> Begun(j) \/ j = n
  <2>1. ~Begun(n)
    BY <1>1, <1>2, LoadFacts DEF Begun, TypeInv
  <2>2. ASSUME NEW j \in Requests PROVE Begun(j)' <=> Begun(j) \/ j = n
    <3>1. CASE j \in Seeds
      BY <1>1, <1>3, <3>1 DEF Begun
    <3>2. CASE j \notin Seeds
      BY <1>1, <1>2, <3>2 DEF Begun
    <3> QED BY <3>1, <3>2
  <2> QED BY <2>1, <2>2
<1> HIDE DEF n
<1>5. /\ MadeInv' /\ ServedInv' /\ StampInv' /\ RowInv'
      /\ made' \in [Requests -> {0, 1}]
      /\ request' \in [Requests -> [op : {"none", "GET", "PUT"}, filename : Names \cup {"none"},
                                    stage : Stages, arrival_ns : Nat, start_ns : Nat]]
  BY <1>1, <1>2, <1>4, ExchangeBegins
<1>6. ThreadInv'
  <2>1. \A t \in Threads : pc'[t] = pc[t] /\ at'[t] = at[t]
    BY <1>3, LoadFacts DEF TypeInv
  <2> QED BY <1>1, <1>3, <2>1 DEF ThreadInv, n
<1>7. TypeInv'
  BY <1>1, <1>2, <1>3, <1>5 DEF TypeInv
<1> QED BY <1>5, <1>6, <1>7

(* A thread takes an index and begins the exchange.                        *)
LEMMA ClaimStep == ASSUME IInv, NEW t \in Threads, Claim(t) PROVE IInv'
<1> USE DEF IInv
<1> DEFINE n == Len(files) + counter + 1
<1>1. /\ pc[t] = "claim" /\ counter < n_requests /\ counter' = counter + 1
      /\ UNCHANGED <<seeded, failures>>
  BY DEF Claim
<1>2. PICK pick \in Picks : Begin(t, n, pick[1], pick[2])
  BY DEF Claim
<1>3. pick[1] \in {"GET", "PUT"} /\ pick[2] \in Names
  OBVIOUS
<1>4. n \in Counted /\ n \notin Seeds /\ n \in Requests /\ t \in Clients /\ t # Main
  <2>1. n \in Nat /\ Len(files) < n /\ n <= Len(files) + n_requests
    BY <1>1, LoadFacts DEF TypeInv
  <2> HIDE DEF n
  <2>2. n \in Counted /\ ~(n <= Len(files))
    BY <2>1, LoadFacts
  <2>3. n \notin Seeds /\ n \in Requests
    BY <2>2, LoadFacts
  <2>4. t \in Clients /\ t # Main
    BY LoadFacts
  <2> QED BY <2>2, <2>3, <2>4
<1>5. /\ pc' = [pc EXCEPT ![t] = "exchange"] /\ at' = [at EXCEPT ![t] = n]
      /\ UNCHANGED <<rows, clock>>
  BY <1>2 DEF Begin
<1>6. /\ pc'[Main] = pc[Main] /\ at'[Main] = at[Main]
      /\ pc[Main] \in {"join", "exited"}
  BY <1>1, <1>4, <1>5, LoadFacts DEF TypeInv, ThreadInv
<1>7. ~Begun(n) /\ \A j \in Requests : Begun(j)' <=> Begun(j) \/ j = n
  <2>1. ~Begun(n)
    BY <1>4, LoadFacts DEF Begun, TypeInv
  <2>2. ASSUME NEW j \in Requests PROVE Begun(j)' <=> Begun(j) \/ j = n
    <3>1. CASE j \in Seeds
      BY <1>1, <1>4, <1>6, <3>1 DEF Begun
    <3>2. CASE j \notin Seeds
      BY <1>1, <3>2, LoadFacts DEF Begun, TypeInv
    <3> QED BY <3>1, <3>2
  <2> QED BY <2>1, <2>2
<1>8. /\ MadeInv' /\ ServedInv' /\ StampInv' /\ RowInv'
      /\ made' \in [Requests -> {0, 1}]
      /\ request' \in [Requests -> [op : {"none", "GET", "PUT"}, filename : Names \cup {"none"},
                                    stage : Stages, arrival_ns : Nat, start_ns : Nat]]
  <2> HIDE DEF n
  <2> QED BY <1>1, <1>2, <1>3, <1>4, <1>7, ExchangeBegins
<1>9. ThreadInv'
  <2>1. \A u \in Threads : u # t => pc'[u] = pc[u] /\ at'[u] = at[u]
    BY <1>5, LoadFacts DEF TypeInv
  <2>2. pc'[t] = "exchange" /\ at'[t] = n
    BY <1>4, <1>5 DEF TypeInv
  <2>3. n <= Len(files) + counter'
    BY <1>1, LoadFacts DEF TypeInv
  <2>4. ASSUME NEW u \in Threads
        PROVE  /\ pc'[u] \in {"unborn", "claim", "exchange", "exited"}
               /\ pc'[u] = "exchange" => at'[u] \in Counted /\ at'[u] <= Len(files) + counter'
               /\ pc'[u] = "exited" => counter' >= n_requests
    <3> HIDE DEF n
    <3>1. CASE u = t
      BY <1>4, <2>2, <2>3, <3>1
    <3>2. CASE u # t
      <4>1. pc[u] = "exchange" => at[u] <= Len(files) + counter'
        BY <1>1, LoadFacts DEF TypeInv, ThreadInv
      <4> QED BY <1>1, <2>1, <3>2, <4>1, LoadFacts DEF TypeInv, ThreadInv
    <3> QED BY <3>1, <3>2
  <2>5. pc[Main] # "exited"
    BY <1>1 DEF ThreadInv
  <2> QED BY <1>1, <1>6, <2>4, <2>5 DEF ThreadInv
<1>10. TypeInv'
  <2> HIDE DEF n
  <2> QED BY <1>1, <1>4, <1>5, <1>8 DEF TypeInv
<1> QED BY <1>8, <1>9, <1>10

(* The threads are started, leave their loop, and are joined.              *)
LEMMA StartThreadsStep == ASSUME IInv, StartThreads PROVE IInv'
<1> USE DEF IInv
<1>1. /\ pc[Main] = "seed" /\ seeded = Len(files)
      /\ pc' = [c \in Clients |-> IF c = Main THEN "join" ELSE "claim"]
      /\ UNCHANGED <<at, seeded, counter, failures, made, request, rows, clock>>
  BY DEF StartThreads, serverVars
<1>2. pc'[Main] = "join" /\ \A t \in Threads : pc'[t] = "claim" /\ pc[t] = "unborn"
  BY <1>1, LoadFacts DEF ThreadInv
<1>3. \A i \in Requests : Begun(i)' <=> Begun(i)
  BY <1>1, <1>2 DEF Begun
<1>4. \A i \in Requests : ~InFlight(i)
  BY <1>1, <1>2, LoadFacts DEF InFlight
<1>5. MadeInv' /\ ServedInv' /\ StampInv' /\ RowInv'
  BY <1>1, <1>3, <1>4, ClientMoves DEF TypeInv, serverVars
<1>6. ThreadInv'
  BY <1>1, <1>2 DEF ThreadInv
<1>7. TypeInv'
  BY <1>1 DEF TypeInv
<1> QED BY <1>5, <1>6, <1>7

LEMMA LeaveLoopStep == ASSUME IInv, NEW t \in Threads, LeaveLoop(t) PROVE IInv'
<1> USE DEF IInv
<1>1. /\ pc[t] = "claim" /\ counter >= n_requests /\ counter' = counter + 1
      /\ pc' = [pc EXCEPT ![t] = "exited"]
      /\ UNCHANGED <<at, seeded, failures, made, request, rows, clock>>
  BY DEF LeaveLoop, serverVars
<1>2. /\ \A c \in Clients : c # t => pc'[c] = pc[c]
      /\ pc'[t] = "exited" /\ t \in Clients /\ t # Main /\ Main \in Clients
  BY <1>1, LoadFacts DEF TypeInv
<1>3. \A i \in Requests : Begun(i)' <=> Begun(i)
  <2>1. ASSUME NEW i \in Requests PROVE Begun(i)' <=> Begun(i)
    <3>1. CASE i \in Seeds
      BY <1>1, <1>2, <3>1 DEF Begun
    <3>2. CASE i \notin Seeds
      BY <1>1, <3>2, LoadFacts DEF Begun, TypeInv
    <3> QED BY <3>1, <3>2
  <2> QED BY <2>1
<1>4. \A i \in Requests : InFlight(i) => InFlight(i)'
  BY <1>1, <1>2 DEF InFlight
<1>5. MadeInv' /\ ServedInv' /\ StampInv' /\ RowInv'
  BY <1>1, <1>3, <1>4, ClientMoves DEF TypeInv, serverVars
<1>6. ThreadInv'
  <2>1. pc[Main] \in {"join", "exited"} /\ pc[Main] # "exited"
    BY <1>1 DEF ThreadInv
  <2>2. ASSUME NEW u \in Threads
        PROVE  /\ pc'[u] \in {"unborn", "claim", "exchange", "exited"}
               /\ pc'[u] = "exchange" => at'[u] \in Counted /\ at'[u] <= Len(files) + counter'
               /\ pc'[u] = "exited" => counter' >= n_requests
    <3>1. counter' >= n_requests
      BY <1>1, LoadFacts DEF TypeInv
    <3>2. pc[u] = "exchange" => at[u] <= Len(files) + counter'
      BY <1>1, LoadFacts DEF TypeInv, ThreadInv
    <3> QED BY <1>1, <1>2, <3>1, <3>2, LoadFacts DEF ThreadInv
  <2> QED BY <1>1, <1>2, <2>1, <2>2 DEF ThreadInv
<1>7. TypeInv'
  <2>1. counter' \in Nat
    BY <1>1 DEF TypeInv
  <2>2. pc' \in [Clients -> {"seed", "exchange", "join", "exited", "unborn", "claim"}]
    BY <1>1 DEF TypeInv
  <2> QED BY <1>1, <2>1, <2>2 DEF TypeInv
<1> QED BY <1>5, <1>6, <1>7

LEMMA JoinStep == ASSUME IInv, Join PROVE IInv'
<1> USE DEF IInv
<1>1. /\ pc[Main] = "join" /\ \A t \in Threads : pc[t] = "exited"
      /\ pc' = [pc EXCEPT ![Main] = "exited"]
      /\ UNCHANGED <<at, seeded, counter, failures, made, request, rows, clock>>
  BY DEF Join, serverVars
<1>2. pc'[Main] = "exited" /\ \A t \in Threads : pc'[t] = pc[t]
  BY <1>1, LoadFacts DEF TypeInv
<1>3. \A i \in Requests : Begun(i)' <=> Begun(i)
  BY <1>1, <1>2 DEF Begun
<1>4. \A i \in Requests : ~InFlight(i)
  BY <1>1, LoadFacts DEF InFlight
<1>5. MadeInv' /\ ServedInv' /\ StampInv' /\ RowInv'
  BY <1>1, <1>3, <1>4, ClientMoves DEF TypeInv, serverVars
<1>6. ThreadInv'
  BY <1>1, <1>2 DEF ThreadInv
<1>7. TypeInv'
  BY <1>1 DEF TypeInv
<1> QED BY <1>5, <1>6, <1>7

(* An exchange ends, well or badly.                                        *)
LEMMA EndStep == ASSUME IInv, NEW c \in Clients, Succeed(c) \/ Fail(c) PROVE IInv'
<1> USE DEF IInv
<1>1. /\ pc[c] = "exchange"
      /\ pc' = [pc EXCEPT ![c] = IF c = Main THEN "seed" ELSE "claim"]
      /\ seeded' = IF c = Main THEN seeded + 1 ELSE seeded
      /\ UNCHANGED <<at, counter, made, request, rows, clock>>
  BY DEF Succeed, Fail, EndExchange, serverVars
<1>2. /\ failures' \in Nat
      /\ failures' = 0 => failures = 0 /\ request[at[c]].stage \in {"served", "recorded"}
  BY DEF Succeed, Fail, TypeInv
<1>3. /\ \A d \in Clients : d # c => pc'[d] = pc[d]
      /\ pc'[c] = IF c = Main THEN "seed" ELSE "claim"
  BY <1>1 DEF TypeInv
<1>4. \A i \in Requests : Begun(i)' <=> Begun(i)
  <2>1. ASSUME NEW i \in Requests PROVE Begun(i)' <=> Begun(i)
    <3>1. CASE i \in Seeds /\ c = Main
      BY <1>1, <1>3, <3>1, LoadFacts DEF Begun, ThreadInv, TypeInv
    <3>2. CASE i \in Seeds /\ c # Main
      BY <1>1, <1>3, <3>2, LoadFacts DEF Begun
    <3>3. CASE i \notin Seeds
      BY <1>1, <3>3 DEF Begun
    <3> QED BY <3>1, <3>2, <3>3
  <2> QED BY <2>1
<1>5. \A i \in Requests : InFlight(i) => InFlight(i)' \/ i = at[c]
  BY <1>1, <1>3 DEF InFlight
<1>6. MadeInv' /\ ServedInv' /\ StampInv' /\ RowInv'
  BY <1>1, <1>2, <1>4, <1>5, ClientMoves DEF serverVars
<1>7. ThreadInv'
  <2>1. CASE c = Main
    <3>1. seeded < Len(files) /\ seeded' = seeded + 1 /\ \A t \in Threads : pc'[t] = pc[t]
      BY <1>1, <1>3, <2>1, LoadFacts DEF ThreadInv
    <3>2. seeded' <= Len(files)
      BY <3>1, LoadFacts DEF TypeInv
    <3> QED BY <1>1, <1>3, <2>1, <3>1, <3>2 DEF ThreadInv
  <2>2. CASE c # Main
    <3>1. c \in Threads /\ pc'[Main] = pc[Main] /\ pc'[c] = "claim" /\ seeded' = seeded
      BY <1>1, <1>3, <2>2, LoadFacts
    <3>2. pc[Main] \in {"join", "exited"} /\ pc[Main] # "exited"
      BY <1>1, <3>1 DEF ThreadInv
    <3> QED BY <1>1, <1>3, <3>1, <3>2, LoadFacts DEF ThreadInv
  <2> QED BY <2>1, <2>2
<1>8. TypeInv'
  <2>1. seeded' \in Nat
    BY <1>1 DEF TypeInv
  <2>2. pc' \in [Clients -> {"seed", "exchange", "join", "exited", "unborn", "claim"}]
    BY <1>1 DEF TypeInv
  <2> QED BY <1>1, <1>2, <2>1, <2>2 DEF TypeInv
<1> QED BY <1>6, <1>7, <1>8

(* The server's side of request i.  Whatever it does, the clients are      *)
(* where they were and the request keeps its verb and its file.            *)
LEMMA ServerMoves ==
    ASSUME IInv, NEW i \in Requests, UNCHANGED clientVars,
           NEW new, request' = [request EXCEPT ![i] = new],
           new \in [op : {"none", "GET", "PUT"}, filename : Names \cup {"none"},
                    stage : Stages, arrival_ns : Nat, start_ns : Nat],
           new.op = request[i].op, new.filename = request[i].filename,
           new.stage # "none", request[i].stage # "none",
           request[i].stage \in {"served", "recorded"} => new.stage \in {"served", "recorded"}
    PROVE  /\ ThreadInv' /\ MadeInv' /\ ServedInv'
           /\ request' \in [Requests -> [op : {"none", "GET", "PUT"}, filename : Names \cup {"none"},
                                         stage : Stages, arrival_ns : Nat, start_ns : Nat]]
           /\ \A j \in Requests : j # i => request'[j] = request[j]
           /\ request'[i] = new
<1> USE DEF IInv, clientVars
<1>1. /\ \A j \in Requests : j # i => request'[j] = request[j]
      /\ request'[i] = new
  BY DEF TypeInv
<1>2. request' \in [Requests -> [op : {"none", "GET", "PUT"}, filename : Names \cup {"none"},
                                 stage : Stages, arrival_ns : Nat, start_ns : Nat]]
  BY DEF TypeInv
<1>3. ThreadInv'
  BY DEF ThreadInv
<1>4. \A j \in Requests : Begun(j)' <=> Begun(j)
  BY DEF Begun
<1>5. \A j \in Requests : InFlight(j)' <=> InFlight(j)
  BY DEF InFlight
<1>6. MadeInv'
  BY <1>1, <1>4 DEF MadeInv
<1>7. ServedInv'
  BY <1>1, <1>4, <1>5 DEF ServedInv
<1> QED BY <1>1, <1>2, <1>3, <1>6, <1>7

(* While a request is sent or being served, no row is about it.            *)
LEMMA NoRowYet ==
    ASSUME IInv, NEW i \in Requests, request[i].stage # "recorded"
    PROVE  \A k \in DOMAIN rows : rows[k].id \in Requests /\ rows[k].id # i
<1>1. \A k \in DOMAIN rows : rows[k] \in Row
  BY DEF IInv, TypeInv
<1> QED BY <1>1 DEF IInv, RowInv, Row

(* Admission stamps the arrival.  As long as no exchange has failed, the   *)
(* seeds have been served when a counted request arrives.                  *)
LEMMA ArriveStep == ASSUME IInv, NEW i \in Requests, Arrive(i) PROVE IInv'
<1> USE DEF IInv
<1> DEFINE new == [request[i] EXCEPT !.stage = "arrived", !.arrival_ns = clock]
<1>1. /\ request[i].stage = "sent" /\ clock' = clock + 1
      /\ request' = [request EXCEPT ![i].stage = "arrived", ![i].arrival_ns = clock]
      /\ UNCHANGED clientVars /\ UNCHANGED rows
  BY DEF Arrive
<1>2. request[i] \in [op : {"none", "GET", "PUT"}, filename : Names \cup {"none"},
                      stage : Stages, arrival_ns : Nat, start_ns : Nat]
  BY DEF TypeInv
<1>3. request' = [request EXCEPT ![i] = new]
  BY <1>1
<1>4. /\ new \in [op : {"none", "GET", "PUT"}, filename : Names \cup {"none"},
                  stage : Stages, arrival_ns : Nat, start_ns : Nat]
      /\ new.op = request[i].op /\ new.filename = request[i].filename
      /\ new.stage = "arrived" /\ new.arrival_ns = clock
  <2>1. "arrived" \in Stages /\ clock \in Nat
    BY DEF Stages, TypeInv
  <2> QED BY <1>2, <2>1
<1> HIDE DEF new
<1>5. /\ ThreadInv' /\ MadeInv' /\ ServedInv'
      /\ request' \in [Requests -> [op : {"none", "GET", "PUT"}, filename : Names \cup {"none"},
                                    stage : Stages, arrival_ns : Nat, start_ns : Nat]]
      /\ \A j \in Requests : j # i => request'[j] = request[j]
      /\ request'[i] = new
  BY <1>1, <1>3, <1>4, ServerMoves
<1>6. TypeInv'
  <2>1. clock' \in Nat
    BY <1>1 DEF TypeInv
  <2> QED BY <1>1, <1>5, <2>1 DEF TypeInv, clientVars
<1>7. RowInv'
  BY <1>1, <1>4, <1>5, NoRowYet DEF RowInv
<1>8. /\ \A j \in Requests : j # i => (Stamped(j)' <=> Stamped(j))
      /\ Stamped(i)' /\ ~Stamped(i)
  BY <1>1, <1>4, <1>5 DEF Stamped
<1>9. \A j \in Requests : Stamped(j) => request[j].arrival_ns < clock /\ request[j].arrival_ns \in Nat
  BY DEF StampInv, TypeInv
<1>10. clock \in Nat
  BY DEF TypeInv
<1>11. StampInv'
  <2>1. \A j \in Requests : Stamped(j)' => request'[j].arrival_ns < clock'
    BY <1>1, <1>4, <1>5, <1>8, <1>9, <1>10
  <2>2. ASSUME NEW j \in Requests, NEW k \in Requests, Stamped(j)', Stamped(k)',
               request'[j].arrival_ns = request'[k].arrival_ns
        PROVE  j = k
    <3>1. CASE j # i /\ k # i
      BY <1>5, <1>8, <2>2, <3>1 DEF StampInv
    <3>2. CASE j = i /\ k # i
      BY <1>4, <1>5, <1>8, <1>9, <1>10, <2>2, <3>2
    <3>3. CASE j # i /\ k = i
      BY <1>4, <1>5, <1>8, <1>9, <1>10, <2>2, <3>3
    <3> QED BY <3>1, <3>2, <3>3
  <2>3. ASSUME failures = 0, NEW s \in Seeds, NEW j \in Counted, Stamped(j)'
        PROVE  Stamped(s)' /\ request'[s].arrival_ns < request'[j].arrival_ns
    <3>1. s \in Requests /\ j \in Requests /\ s # j
      BY LoadFacts
    <3>2. CASE j # i
      <4>1. Stamped(j) /\ request'[j] = request[j]
        BY <1>5, <1>8, <2>3, <3>1, <3>2
      <4>2. Stamped(s) /\ request[s].arrival_ns < request[j].arrival_ns
        BY <2>3, <4>1 DEF StampInv
      <4>3. s # i
        BY <1>8, <4>2
      <4> QED BY <1>5, <1>8, <3>1, <4>1, <4>2, <4>3
    <3>3. CASE j = i
      <4>1. Begun(i) /\ i \notin Seeds
        <5>1. Begun(i)
          BY <1>1 DEF MadeInv
        <5> QED BY <3>3, <5>1, LoadFacts
      <4>2. pc[Main] \in {"join", "exited"}
        <5>1. counter # 0
          BY <3>3, <4>1, LoadFacts DEF Begun, TypeInv
        <5> QED BY <5>1 DEF ThreadInv
      <4>3. Begun(s)
        BY <4>2, LoadFacts DEF Begun, ThreadInv
      <4>4. ~InFlight(s)
        BY <4>2, LoadFacts DEF InFlight, ThreadInv
      <4>5. Stamped(s)
        BY <2>3, <3>1, <4>3, <4>4 DEF ServedInv, Stamped
      <4>6. s # i
        BY <3>1, <3>3
      <4> QED BY <1>4, <1>5, <1>8, <1>9, <3>1, <3>3, <4>5, <4>6
    <3> QED BY <3>2, <3>3
  <2>4. failures' = failures
    BY <1>1 DEF clientVars
  <2> QED BY <2>1, <2>2, <2>3, <2>4 DEF StampInv
<1> QED BY <1>5, <1>6, <1>7, <1>11

(* Service changes no stamp of arrival, and a failure takes one away.      *)
LEMMA StampsStay ==
    ASSUME IInv, NEW i \in Requests, failures' = failures, clock' >= clock, clock' \in Nat,
           \A j \in Requests : j # i => request'[j] = request[j],
           Stamped(i)' => Stamped(i) /\ request'[i].arrival_ns = request[i].arrival_ns,
           failures = 0 /\ i \in Seeds /\ Stamped(i) /\ ~Stamped(i)' =>
               \A j \in Counted : ~Stamped(j)
    PROVE  StampInv'
<1> USE DEF IInv
<1>1. \A j \in Requests : /\ Stamped(j)' => Stamped(j)
                          /\ Stamped(j)' => request'[j].arrival_ns = request[j].arrival_ns
                          /\ j # i => (Stamped(j)' <=> Stamped(j))
  BY DEF Stamped
<1>2. \A j \in Requests : request[j].arrival_ns \in Nat /\ clock \in Nat
  BY DEF TypeInv
<1>3. \A j \in Requests : Stamped(j)' => request'[j].arrival_ns < clock'
  BY <1>1, <1>2 DEF StampInv
<1>4. \A j, k \in Requests :
         Stamped(j)' /\ Stamped(k)' /\ request'[j].arrival_ns = request'[k].arrival_ns => j = k
  BY <1>1 DEF StampInv
<1>5. ASSUME failures = 0, NEW s \in Seeds, NEW j \in Counted, Stamped(j)'
      PROVE  Stamped(s)' /\ request'[s].arrival_ns < request'[j].arrival_ns
  <2>1. s \in Requests /\ j \in Requests
    BY LoadFacts
  <2>2. Stamped(j)
    BY <1>1, <1>5, <2>1
  <2>3. Stamped(s) /\ request[s].arrival_ns < request[j].arrival_ns
    BY <1>5, <2>2 DEF StampInv
  <2>4. Stamped(s)'
    BY <1>1, <1>5, <2>1, <2>2, <2>3
  <2> QED BY <1>1, <1>5, <2>1, <2>3, <2>4
<1> QED BY <1>3, <1>4, <1>5 DEF StampInv

LEMMA ServeStep == ASSUME IInv, NEW i \in Requests, Serve(i) PROVE IInv'
<1> USE DEF IInv
<1> DEFINE new == [request[i] EXCEPT !.stage = "served", !.start_ns = clock]
<1>1. /\ request[i].stage = "arrived" /\ clock' = clock + 1
      /\ request' = [request EXCEPT ![i].stage = "served", ![i].start_ns = clock]
      /\ UNCHANGED clientVars /\ UNCHANGED rows
  BY DEF Serve
<1>2. request[i] \in [op : {"none", "GET", "PUT"}, filename : Names \cup {"none"},
                      stage : Stages, arrival_ns : Nat, start_ns : Nat]
  BY DEF TypeInv
<1>3. request' = [request EXCEPT ![i] = new]
  BY <1>1
<1>4. /\ new \in [op : {"none", "GET", "PUT"}, filename : Names \cup {"none"},
                  stage : Stages, arrival_ns : Nat, start_ns : Nat]
      /\ new.op = request[i].op /\ new.filename = request[i].filename
      /\ new.stage = "served" /\ new.arrival_ns = request[i].arrival_ns
  <2>1. "served" \in Stages /\ clock \in Nat
    BY DEF Stages, TypeInv
  <2> QED BY <1>2, <2>1
<1> HIDE DEF new
<1>5. /\ ThreadInv' /\ MadeInv' /\ ServedInv'
      /\ request' \in [Requests -> [op : {"none", "GET", "PUT"}, filename : Names \cup {"none"},
                                    stage : Stages, arrival_ns : Nat, start_ns : Nat]]
      /\ \A j \in Requests : j # i => request'[j] = request[j]
      /\ request'[i] = new
  BY <1>1, <1>3, <1>4, ServerMoves
<1>6. clock \in Nat /\ clock' \in Nat /\ clock' >= clock /\ failures' = failures
  BY <1>1 DEF TypeInv, clientVars
<1>7. TypeInv'
  BY <1>1, <1>5, <1>6 DEF TypeInv, clientVars
<1>8. RowInv'
  BY <1>1, <1>4, <1>5, NoRowYet DEF RowInv
<1>9. Stamped(i) /\ Stamped(i)' /\ request'[i].arrival_ns = request[i].arrival_ns
  BY <1>1, <1>4, <1>5 DEF Stamped
<1>10. StampInv'
  BY <1>5, <1>6, <1>9, StampsStay
<1> QED BY <1>5, <1>7, <1>8, <1>10

(* A refusal: as long as no exchange has failed, somebody still waits for  *)
(* the answer, and if it is main, no counted request has been made.        *)
LEMMA RefuseStep == ASSUME IInv, NEW i \in Requests, Refuse(i) PROVE IInv'
<1> USE DEF IInv
<1> DEFINE new == [request[i] EXCEPT !.stage = "failed"]
<1>1. /\ request[i].stage \in {"sent", "arrived"}
      /\ request' = [request EXCEPT ![i].stage = "failed"]
      /\ UNCHANGED clientVars /\ UNCHANGED <<rows, clock>>
  BY DEF Refuse
<1>2. request[i] \in [op : {"none", "GET", "PUT"}, filename : Names \cup {"none"},
                      stage : Stages, arrival_ns : Nat, start_ns : Nat]
  BY DEF TypeInv
<1>3. request' = [request EXCEPT ![i] = new]
  BY <1>1
<1>4. /\ new \in [op : {"none", "GET", "PUT"}, filename : Names \cup {"none"},
                  stage : Stages, arrival_ns : Nat, start_ns : Nat]
      /\ new.op = request[i].op /\ new.filename = request[i].filename
      /\ new.stage = "failed"
  <2>1. "failed" \in Stages
    BY DEF Stages
  <2> QED BY <1>2, <2>1
<1> HIDE DEF new
<1>5. /\ ThreadInv' /\ MadeInv' /\ ServedInv'
      /\ request' \in [Requests -> [op : {"none", "GET", "PUT"}, filename : Names \cup {"none"},
                                    stage : Stages, arrival_ns : Nat, start_ns : Nat]]
      /\ \A j \in Requests : j # i => request'[j] = request[j]
      /\ request'[i] = new
  BY <1>1, <1>3, <1>4, ServerMoves
<1>6. clock \in Nat /\ clock' = clock /\ failures' = failures
  BY <1>1 DEF TypeInv, clientVars
<1>7. TypeInv'
  BY <1>1, <1>5, <1>6 DEF TypeInv, clientVars
<1>8. RowInv'
  BY <1>1, <1>4, <1>5, NoRowYet DEF RowInv
<1>9. ~Stamped(i)'
  BY <1>4, <1>5 DEF Stamped
<1>10. ASSUME failures = 0, i \in Seeds, NEW j \in Counted PROVE ~Stamped(j)
  <2>1. Begun(i)
    BY <1>1 DEF MadeInv
  <2>2. InFlight(i)
    BY <1>1, <1>10, <2>1 DEF ServedInv
  <2>3. pc[Main] = "exchange"
    BY <1>10, <2>2, LoadFacts DEF InFlight, ThreadInv
  <2>4. counter = 0
    BY <2>3 DEF ThreadInv
  <2>5. ~Begun(j) /\ j \in Requests
    BY <2>4, LoadFacts DEF Begun
  <2> QED BY <2>5 DEF MadeInv, Stamped
<1>11. StampInv'
  BY <1>5, <1>6, <1>9, <1>10, StampsStay
<1> QED BY <1>5, <1>7, <1>8, <1>11

(* The row is written after the answer.                                    *)
LEMMA RecordStep == ASSUME IInv, NEW i \in Requests, Record(i) PROVE IInv'
<1> USE DEF IInv
<1> DEFINE new == [request[i] EXCEPT !.stage = "recorded"]
           r == request[i]
           row == [id |-> i, op |-> r.op, filename |-> r.filename, bytes |-> Size[r.filename],
                   rounds |-> Rounds[r.op][r.filename],
                   forfeited_bytes |-> Forfeits[r.op][r.filename],
                   arrival_ns |-> r.arrival_ns, start_ns |-> r.start_ns, finish_ns |-> clock]
<1>1. /\ request[i].stage = "served" /\ clock' = clock + 1
      /\ request' = [request EXCEPT ![i].stage = "recorded"]
      /\ rows' = Append(rows, row)
      /\ UNCHANGED clientVars
  BY DEF Record
<1>2. request[i] \in [op : {"none", "GET", "PUT"}, filename : Names \cup {"none"},
                      stage : Stages, arrival_ns : Nat, start_ns : Nat]
  BY DEF TypeInv
<1>3. request' = [request EXCEPT ![i] = new]
  BY <1>1
<1>4. /\ new \in [op : {"none", "GET", "PUT"}, filename : Names \cup {"none"},
                  stage : Stages, arrival_ns : Nat, start_ns : Nat]
      /\ new.op = request[i].op /\ new.filename = request[i].filename
      /\ new.stage = "recorded" /\ new.arrival_ns = request[i].arrival_ns
  <2>1. "recorded" \in Stages
    BY DEF Stages
  <2> QED BY <1>2, <2>1
<1> HIDE DEF new
<1>5. /\ ThreadInv' /\ MadeInv' /\ ServedInv'
      /\ request' \in [Requests -> [op : {"none", "GET", "PUT"}, filename : Names \cup {"none"},
                                    stage : Stages, arrival_ns : Nat, start_ns : Nat]]
      /\ \A j \in Requests : j # i => request'[j] = request[j]
      /\ request'[i] = new
  BY <1>1, <1>3, <1>4, ServerMoves
<1>6. clock \in Nat /\ clock' \in Nat /\ clock' >= clock /\ failures' = failures
  BY <1>1 DEF TypeInv, clientVars
<1>7. row \in Row /\ row.id = i /\ row.arrival_ns = request[i].arrival_ns
  <2>1. r.op \in {"GET", "PUT"} /\ r.filename \in Names
    <3>1. Begun(i)
      BY <1>1 DEF MadeInv
    <3> QED BY <1>2, <3>1 DEF MadeInv
  <2>2. /\ Size[r.filename] \in Nat /\ Rounds[r.op][r.filename] \in Nat
        /\ Forfeits[r.op][r.filename] \in Nat
    BY <2>1
  <2>3. r.arrival_ns \in Nat /\ r.start_ns \in Nat
    BY <1>2
  <2> HIDE DEF r
  <2>4. row \in Row /\ row.id = i /\ row.arrival_ns = r.arrival_ns
    BY <1>6, <2>1, <2>2, <2>3 DEF Row
  <2> QED BY <2>4 DEF r
<1> HIDE DEF row
<1>8. /\ rows \in Seq(Row) /\ rows' \in Seq(Row) /\ Len(rows') = Len(rows) + 1
      /\ \A k \in 1 .. Len(rows) : rows'[k] = rows[k]
      /\ rows'[Len(rows) + 1] = row
  <2>1. rows \in Seq(Row)
    BY DEF TypeInv
  <2> QED BY <1>1, <1>7, <2>1
<1>9. TypeInv'
  BY <1>1, <1>5, <1>6, <1>8 DEF TypeInv, clientVars
<1>10. RowInv'
  <2> DEFINE n == Len(rows)
  <2>1. n \in Nat /\ DOMAIN rows = 1 .. n /\ DOMAIN rows' = 1 .. n + 1
    BY <1>8
  <2>2. \A k \in 1 .. n + 1 : k \in 1 .. n \/ k = n + 1
    BY <2>1
  <2>3. \A k \in 1 .. n : rows[k].id \in Requests /\ rows[k].id # i
    BY <1>1, <2>1, NoRowYet
  <2>4. \A k \in 1 .. n : rows'[k] = rows[k] /\ request'[rows[k].id] = request[rows[k].id]
    BY <1>5, <1>8, <2>3
  <2>5. rows'[n + 1].id = i /\ rows'[n + 1].arrival_ns = request'[i].arrival_ns
    BY <1>4, <1>5, <1>7, <1>8
  <2> HIDE DEF n
  <2>6. ASSUME NEW k \in 1 .. n + 1
        PROVE  /\ request'[rows'[k].id].stage = "recorded"
               /\ rows'[k].arrival_ns = request'[rows'[k].id].arrival_ns
    <3>1. CASE k \in 1 .. n
      <4>1. /\ request[rows[k].id].stage = "recorded"
            /\ rows[k].arrival_ns = request[rows[k].id].arrival_ns
        BY <2>1, <3>1 DEF RowInv
      <4> QED BY <2>4, <3>1, <4>1
    <3>2. CASE k = n + 1
      BY <1>4, <1>5, <2>5, <3>2
    <3> QED BY <2>2, <3>1, <3>2
  <2>7. ASSUME NEW k \in 1 .. n + 1, NEW l \in 1 .. n + 1, rows'[k].id = rows'[l].id
        PROVE  k = l
    <3>1. CASE k \in 1 .. n /\ l \in 1 .. n
      <4>1. rows[k].id = rows[l].id
        BY <2>4, <2>7, <3>1
      <4> QED BY <2>1, <3>1, <4>1 DEF RowInv
    <3>2. CASE k \in 1 .. n /\ l = n + 1
      BY <2>3, <2>4, <2>5, <2>7, <3>2
    <3>3. CASE k = n + 1 /\ l \in 1 .. n
      BY <2>3, <2>4, <2>5, <2>7, <3>3
    <3> QED BY <2>2, <3>1, <3>2, <3>3
  <2>8. ASSUME NEW j \in Requests, request'[j].stage = "recorded"
        PROVE  \E k \in 1 .. n + 1 : rows'[k].id = j
    <3>1. CASE j = i
      BY <2>1, <2>5, <3>1
    <3>2. CASE j # i
      <4>1. PICK k \in 1 .. n : rows[k].id = j
        BY <1>5, <2>1, <2>8, <3>2 DEF RowInv
      <4> QED BY <2>1, <2>4, <4>1
    <3> QED BY <3>1, <3>2
  <2> QED BY <2>1, <2>6, <2>7, <2>8 DEF RowInv
<1>11. Stamped(i) /\ Stamped(i)' /\ request'[i].arrival_ns = request[i].arrival_ns
  BY <1>1, <1>4, <1>5 DEF Stamped
<1>12. StampInv'
  BY <1>5, <1>6, <1>11, StampsStay
<1> QED BY <1>5, <1>9, <1>10, <1>12

(* The invariant of the load generator and its metrics file.               *)
LEMMA LoadInv == Spec => []IInv
<1>1. Init => IInv
  BY InitLoad
<1>2. IInv /\ [Next]_vars => IInv'
  <2> SUFFICES ASSUME IInv, [Next]_vars PROVE IInv'
    OBVIOUS
  <2>1. CASE UNCHANGED vars
    BY <2>1 DEF vars, clientVars, serverVars, IInv, TypeInv, ThreadInv, MadeInv, ServedInv,
       StampInv, RowInv, Begun, InFlight, Stamped
  <2>2. CASE ServerStep
    BY <2>2, ArriveStep, ServeStep, RefuseStep, RecordStep DEF ServerStep
  <2> QED
    BY <2>1, <2>2, SeedNextStep, StartThreadsStep, JoinStep, ClaimStep, LeaveLoopStep, EndStep
    DEF Next
<1> QED BY <1>1, <1>2, PTL DEF Spec

(* The shared counter of load.cpp hands out every index once, for any      *)
(* number of threads and requests: fetch_add before the comparison, and a  *)
(* thread that finds the indices used up leaves them so.                   *)
THEOREM EachRequestOnce == Spec => []ExactlyRequested
<1>1. IInv => ExactlyRequested
  <2> SUFFICES ASSUME IInv PROVE ExactlyRequested
    OBVIOUS
  <2>1. \A i \in Requests : made[i] <= 1
    <3>1. \A i \in Requests : made[i] \in {0, 1}
      BY DEF IInv, TypeInv
    <3> QED BY <3>1
  <2>2. ASSUME pc[Main] = "exited", NEW i \in Requests PROVE made[i] = 1
    <3>1. seeded = Len(files) /\ counter >= n_requests
      BY <2>2 DEF IInv, ThreadInv
    <3>2. Begun(i)
      <4>1. CASE i \in Seeds
        BY <3>1, <4>1, LoadFacts DEF Begun
      <4>2. CASE i \notin Seeds
        BY <3>1, <4>2, LoadFacts DEF Begun, IInv, TypeInv
      <4> QED BY <4>1, <4>2
    <3> QED BY <3>2 DEF IInv, MadeInv
  <2> QED BY <2>1, <2>2 DEF ExactlyRequested
<1> QED BY <1>1, LoadInv, PTL
-----------------------------------------------------------------------------
(* The rows that exclude_seed_rows keeps: those from place seed_count + 1  *)
(* on, in the order of the arrivals.                                       *)
Arrivals == [k \in DOMAIN rows |-> rows[k].arrival_ns]

LEMMA RowFacts ==
    ASSUME IInv
    PROVE  /\ Len(rows) \in Nat /\ DOMAIN rows = 1 .. Len(rows)
           /\ \A k \in 1 .. Len(rows) : rows[k] \in Row
           /\ \A k \in 1 .. Len(rows) : /\ rows[k].id \in Requests /\ rows[k].arrival_ns \in Nat
                                        /\ rows[k].start_ns \in Nat /\ rows[k].finish_ns \in Nat
           /\ Arrivals \in [1 .. Len(rows) -> Int]
           /\ \A k \in 1 .. Len(rows) : Arrivals[k] = rows[k].arrival_ns
<1>1. rows \in Seq(Row)
  BY DEF IInv, TypeInv
<1>2. /\ Len(rows) \in Nat /\ DOMAIN rows = 1 .. Len(rows)
      /\ \A k \in 1 .. Len(rows) : rows[k] \in Row
  BY <1>1
<1>3. \A k \in 1 .. Len(rows) : /\ rows[k].id \in Requests /\ rows[k].arrival_ns \in Nat
                                /\ rows[k].start_ns \in Nat /\ rows[k].finish_ns \in Nat
  BY <1>2 DEF Row
<1> QED BY <1>2, <1>3 DEF Arrivals

LEMMA KeptRows ==
    ASSUME IInv, Len(rows) >= seed_count
    PROVE  LET order == Order(Len(rows), Arrivals)
               m == Len(rows) - seed_count
           IN  /\ Kept \in Seq(Row) /\ Len(Kept) = m /\ DOMAIN Kept = 1 .. m
               /\ \A k \in 1 .. m : Kept[k] = rows[order[seed_count + k]]
<1> DEFINE n == Len(rows)
           L == seed_count
           order == Order(n, Arrivals)
           sorted == SortByKey(rows, Arrivals)
<1>1. rows \in Seq(Row) /\ n \in Nat /\ L \in Nat
  BY RowFacts, SeedCountAssumption DEF IInv, TypeInv
<1>2. sorted = [k \in 1 .. n |-> rows[order[k]]] /\ sorted \in Seq(Row) /\ Len(sorted) = n
  BY <1>1, RowFacts, SortByKeySeq
<1>3. Kept = SubSeq(sorted, L + 1, Len(sorted))
  BY DEF Kept, ExcludeSeedRows, Arrivals
<1> HIDE DEF n, L, order, sorted
<1>4. L + 1 \in 1 .. Len(sorted) + 1 /\ n \in (L + 1) - 1 .. Len(sorted) /\ n >= L
  BY <1>1, <1>2 DEF n, L
<1>5. /\ Kept \in Seq(Row) /\ Len(Kept) = n - (L + 1) + 1
      /\ \A k \in 1 .. n - (L + 1) + 1 : Kept[k] = sorted[(L + 1) + k - 1]
  BY <1>2, <1>3, <1>4, SubSeqProperties
<1>6. Len(Kept) = n - L
  BY <1>1, <1>5
<1>7. ASSUME NEW k \in 1 .. n - L PROVE Kept[k] = rows[order[L + k]]
  <2>1. k \in 1 .. n - (L + 1) + 1 /\ (L + 1) + k - 1 = L + k /\ L + k \in 1 .. n
    BY <1>1, <1>4
  <2>2. Kept[k] = sorted[(L + 1) + k - 1]
    BY <1>5, <2>1
  <2> QED BY <1>2, <2>1, <2>2
<1>8. DOMAIN Kept = 1 .. n - L
  BY <1>5, <1>6
<1> QED BY <1>5, <1>6, <1>7, <1>8 DEF n, L, order

(* For any load, when the server has nothing left to do, the percentiles   *)
(* that run_metrics reports (metrics.py:35-42) are the nearest-rank ones   *)
(* of the rows that are kept.                                              *)
THEOREM ReportedPercentiles == Spec => []PercentilesAreRanks
<1>1. IInv => PercentilesAreRanks
  <2> SUFFICES ASSUME IInv, Len(rows) > seed_count PROVE PercentilesAreRanks
    BY DEF PercentilesAreRanks
  <2>10. Len(rows) \in Nat /\ seed_count \in Nat
    BY RowFacts, SeedCountAssumption
  <2>11. Len(rows) - seed_count \in Nat \ {0} /\ Len(rows) >= seed_count
    BY <2>10
  <2> DEFINE m == Len(rows) - seed_count
             waiting == [k \in 1 .. m |-> Waiting(Kept[k])]
             response == [k \in 1 .. m |-> Response(Kept[k])]
  <2>1. m \in Nat \ {0} /\ Len(rows) >= seed_count
    BY <2>11
  <2>2. Kept \in Seq(Row) /\ Len(Kept) = m /\ DOMAIN Kept = 1 .. m
    BY <2>1, KeptRows
  <2> HIDE DEF m
  <2>3. \A k \in 1 .. m : Kept[k] \in Row
    BY <2>2
  <2>4. \A k \in 1 .. m : Waiting(Kept[k]) \in Int /\ Response(Kept[k]) \in Int
    <3>1. \A k \in 1 .. m : /\ Kept[k].arrival_ns \in Nat /\ Kept[k].start_ns \in Nat
                            /\ Kept[k].finish_ns \in Nat
      BY <2>3 DEF Row
    <3> QED BY <3>1 DEF Waiting, Response
  <2>5. /\ waiting \in Seq(Int) /\ Len(waiting) = m /\ response \in Seq(Int) /\ Len(response) = m
    BY <2>1, <2>4
  <2>6. waiting # << >> /\ response # << >>
    BY <2>1, <2>5
  <2>7. Column(Kept, Waiting) = waiting /\ Column(Kept, Response) = response
    BY <2>2 DEF Column
  <2> HIDE DEF waiting, response
  <2>8. \A p \in 1 .. 100 : /\ IsNearestRank(waiting, p, NearestRankPercentile(Sorted(waiting), p))
                            /\ IsNearestRank(response, p, NearestRankPercentile(Sorted(response), p))
    BY <2>5, <2>6, PercentileByDefinition
  <2>9. LET metrics == RunMetrics(rows, seed_count)
        IN  /\ metrics.wait_p50_ns = NearestRankPercentile(Sorted(waiting), 50)
            /\ metrics.wait_p99_ns = NearestRankPercentile(Sorted(waiting), 99)
            /\ metrics.resp_p50_ns = NearestRankPercentile(Sorted(response), 50)
            /\ metrics.resp_p99_ns = NearestRankPercentile(Sorted(response), 99)
    BY <2>7 DEF RunMetrics, Kept, Column
  <2> QED BY <2>7, <2>8, <2>9 DEF PercentilesAreRanks
<1> QED BY <1>1, LoadInv, PTL

(* A set of places that begins at 1, has no gaps and has m elements.       *)
LEMMA InitialSegment ==
    ASSUME NEW n \in Nat, NEW m \in Nat, m <= n, NEW S \in SUBSET (1 .. n), Cardinality(S) = m,
           \A k, l \in 1 .. n : k < l /\ l \in S => k \in S
    PROVE  S = 1 .. m
<1>1. IsFiniteSet(S)
  <2>1. IsFiniteSet(1 .. n)
    BY Counting
  <2> QED BY <2>1, FS_Subset
<1>2. IsFiniteSet(1 .. m) /\ Cardinality(1 .. m) = m
  BY Counting
<1>3. CASE S \subseteq 1 .. m
  BY <1>2, <1>3, FS_Subset
<1>4. CASE ~(S \subseteq 1 .. m)
  <2>1. PICK l \in S : l \notin 1 .. m
    BY <1>4
  <2>2. \A k \in 1 .. m : k \in 1 .. n /\ k < l
    BY <2>1
  <2>3. 1 .. m \subseteq S
    BY <2>1, <2>2
  <2>4. S = 1 .. m
    BY <1>1, <1>2, <2>3, FS_Subset
  <2> QED BY <2>4
<1> QED BY <1>3, <1>4

(* When the load has succeeded and the server has nothing left to do, the  *)
(* rows and the requests correspond one to one, and seeds arrived first.   *)
LEMMA FileIsComplete ==
    ASSUME IInv, Succeeded, Drained
    PROVE  /\ Len(rows) = Len(files) + n_requests
           /\ \A i \in Requests : \E k \in 1 .. Len(rows) : rows[k].id = i
           /\ \A k, l \in 1 .. Len(rows) : rows[k].id = rows[l].id => k = l
           /\ \A k, l \in 1 .. Len(rows) :
                 rows[k].id \in Seeds /\ rows[l].id \in Counted => Arrivals[k] < Arrivals[l]
<1> DEFINE n == Len(rows)
<1>1. pc[Main] = "exited" /\ failures = 0
  BY DEF Succeeded
<1>2. \A i \in Requests : request[i].stage = "recorded"
  <2> SUFFICES ASSUME NEW i \in Requests PROVE request[i].stage = "recorded"
    OBVIOUS
  <2>1. seeded = Len(files) /\ counter >= n_requests /\ \A t \in Threads : pc[t] = "exited"
    BY <1>1 DEF IInv, ThreadInv
  <2>2. Begun(i)
    <3>1. CASE i \in Seeds
      BY <2>1, <3>1, LoadFacts DEF Begun
    <3>2. CASE i \notin Seeds
      BY <2>1, <3>2, LoadFacts DEF Begun, IInv, TypeInv
    <3> QED BY <3>1, <3>2
  <2>3. ~InFlight(i)
    BY <1>1, <2>1, LoadFacts DEF InFlight
  <2>4. request[i].stage \in {"served", "recorded"}
    BY <1>1, <2>2, <2>3 DEF IInv, ServedInv
  <2> QED BY <2>4 DEF Drained
<1>3. n \in Nat /\ DOMAIN rows = 1 .. n /\ \A k \in 1 .. n : rows[k].id \in Requests
  BY RowFacts
<1>4. /\ \A i \in Requests : \E k \in 1 .. n : rows[k].id = i
      /\ \A k, l \in 1 .. n : rows[k].id = rows[l].id => k = l
  BY <1>2, <1>3 DEF IInv, RowInv
<1>5. n = Len(files) + n_requests
  <2> DEFINE idOf == [k \in 1 .. n |-> rows[k].id]
  <2>1. idOf \in [1 .. n -> Requests]
    BY <1>3
  <2>2. \A k, l \in 1 .. n : idOf[k] = idOf[l] => k = l
    BY <1>4
  <2>3. \A i \in Requests : \E k \in 1 .. n : idOf[k] = i
    BY <1>4
  <2> HIDE DEF idOf, n
  <2>4. idOf \in Bijection(1 .. n, Requests)
    BY <2>1, <2>2, <2>3, Fun_IsBij
  <2>5. ExistsBijection(1 .. n, Requests)
    BY <2>4 DEF ExistsBijection
  <2>6. IsFiniteSet(1 .. n) /\ Cardinality(1 .. n) = n
    BY <1>3, Counting
  <2>7. Cardinality(Requests) = n
    BY <2>5, <2>6, FS_Bijection
  <2>8. Requests = 1 .. Len(files) + n_requests
    BY LoadFacts DEF Requests, Seeds, Counted
  <2>9. Cardinality(1 .. Len(files) + n_requests) = Len(files) + n_requests
    BY LoadFacts, Counting
  <2> QED BY <2>7, <2>8, <2>9
<1>6. ASSUME NEW k \in 1 .. n, NEW l \in 1 .. n, rows[k].id \in Seeds, rows[l].id \in Counted
      PROVE  Arrivals[k] < Arrivals[l]
  <2>1. rows[k].id \in Requests /\ rows[l].id \in Requests
    BY <1>3
  <2>2. Stamped(rows[l].id)
    BY <1>2, <2>1 DEF Stamped
  <2>3. request[rows[k].id].arrival_ns < request[rows[l].id].arrival_ns
    BY <1>1, <1>6, <2>2 DEF IInv, StampInv
  <2>4. /\ Arrivals[k] = request[rows[k].id].arrival_ns
        /\ Arrivals[l] = request[rows[l].id].arrival_ns
    BY <1>3, RowFacts DEF IInv, RowInv
  <2> QED BY <2>3, <2>4
<1> QED BY <1>4, <1>5, <1>6

(* Dropping the first seed_count rows by arrival (common.py:20-22) is      *)
(* right for any load that reports success: what is kept has one row for   *)
(* each counted request and none for a seed, in whatever order the rows    *)
(* were written, if seed_count is the number of files loaded.              *)
THEOREM SeedRowsAreDropped == SeedsAreFiles => (Spec => []SeedsDropped)
<1> SUFFICES ASSUME SeedsAreFiles PROVE Spec => []SeedsDropped
  OBVIOUS
<1>1. IInv => SeedsDropped
  <2> SUFFICES ASSUME IInv, Succeeded, Drained, NEW i \in Requests
               PROVE  Cardinality({k \in DOMAIN Kept : Kept[k].id = i})
                        = IF i \in Counted THEN 1 ELSE 0
    BY DEF SeedsDropped
  <2> DEFINE n == Len(rows)
             L == Len(files)
             order == Order(n, Arrivals)
             IdAt(k) == rows[order[k]].id
             seedAt == {k \in 1 .. n : IdAt(k) \in Seeds}
  <2>1. /\ n = L + n_requests /\ n \in Nat /\ L \in Nat /\ n_requests \in Nat
        /\ \A j \in Requests : \E k \in 1 .. n : rows[k].id = j
        /\ \A k, l \in 1 .. n : rows[k].id = rows[l].id => k = l
        /\ \A k, l \in 1 .. n :
              rows[k].id \in Seeds /\ rows[l].id \in Counted => Arrivals[k] < Arrivals[l]
    BY FileIsComplete, LoadFacts, RowFacts
  <2>2. /\ order \in [1 .. n -> 1 .. n]
        /\ \A k, l \in 1 .. n : order[k] = order[l] => k = l
        /\ \A j \in 1 .. n : \E k \in 1 .. n : order[k] = j
        /\ \A k, l \in 1 .. n : k < l => Arrivals[order[k]] <= Arrivals[order[l]]
    <3>1. /\ order \in Bijection(1 .. n, 1 .. n)
          /\ \A k, l \in 1 .. n : k < l => Arrivals[order[k]] <= Arrivals[order[l]]
      BY <2>1, RowFacts, OrderSorts
    <3> HIDE DEF order, n
    <3>2. order \in Injection(1 .. n, 1 .. n) /\ order \in Surjection(1 .. n, 1 .. n)
      BY <3>1 DEF Bijection
    <3>3. \A k, l \in 1 .. n : order[k] = order[l] => k = l
      BY <3>2 DEF Injection, IsInjective
    <3> QED BY <3>1, <3>2, <3>3 DEF Surjection
  <2>3. /\ \A k \in 1 .. n : IdAt(k) \in Requests
        /\ \A k, l \in 1 .. n : IdAt(k) = IdAt(l) => k = l
        /\ \A j \in Requests : \E k \in 1 .. n : IdAt(k) = j
    <3>1. \A k \in 1 .. n : IdAt(k) \in Requests
      BY <2>2, RowFacts
    <3>2. ASSUME NEW k \in 1 .. n, NEW l \in 1 .. n, IdAt(k) = IdAt(l) PROVE k = l
      <4>1. order[k] \in 1 .. n /\ order[l] \in 1 .. n
        BY <2>2
      <4>2. order[k] = order[l]
        BY <2>1, <3>2, <4>1
      <4> QED BY <2>2, <4>2
    <3>3. ASSUME NEW j \in Requests PROVE \E k \in 1 .. n : IdAt(k) = j
      <4>1. PICK x \in 1 .. n : rows[x].id = j
        BY <2>1
      <4>2. PICK k \in 1 .. n : order[k] = x
        BY <2>2
      <4> QED BY <4>1, <4>2
    <3> QED BY <3>1, <3>2, <3>3
  <2>4. \A k, l \in 1 .. n : k < l /\ IdAt(l) \in Seeds => IdAt(k) \in Seeds
    <3> SUFFICES ASSUME NEW k \in 1 .. n, NEW l \in 1 .. n, k < l, IdAt(l) \in Seeds,
                        IdAt(k) \notin Seeds
                 PROVE  FALSE
      OBVIOUS
    <3>1. IdAt(k) \in Counted
      BY <2>3, LoadFacts
    <3>2. order[k] \in 1 .. n /\ order[l] \in 1 .. n
      BY <2>2
    <3>3. Arrivals[order[l]] < Arrivals[order[k]]
      BY <2>1, <3>1, <3>2
    <3>4. Arrivals[order[k]] <= Arrivals[order[l]]
      BY <2>2
    <3>5. Arrivals[order[k]] \in Int /\ Arrivals[order[l]] \in Int
      BY <3>2, RowFacts
    <3> QED BY <3>3, <3>4, <3>5
  <2>5. /\ \A k \in 1 .. n - L : Kept[k].id = IdAt(L + k)
        /\ DOMAIN Kept = 1 .. n - L
    <3>1. Len(rows) >= seed_count /\ seed_count = L
      BY <2>1 DEF SeedsAreFiles
    <3> QED BY <3>1, KeptRows
  <2> HIDE DEF n, L, order, IdAt
  <2>6. Cardinality(seedAt) = L
    <3> DEFINE f == [k \in seedAt |-> IdAt(k)]
    <3>1. f \in [seedAt -> Seeds]
      OBVIOUS
    <3>2. \A k, l \in seedAt : f[k] = f[l] => k = l
      BY <2>3
    <3>3. \A j \in Seeds : \E k \in seedAt : f[k] = j
      BY <2>3, LoadFacts
    <3>4. seedAt \in SUBSET (1 .. n)
      OBVIOUS
    <3> HIDE DEF f, seedAt
    <3>5. f \in Bijection(seedAt, Seeds)
      BY <3>1, <3>2, <3>3, Fun_IsBij
    <3>6. ExistsBijection(seedAt, Seeds)
      BY <3>5 DEF ExistsBijection
    <3>7. IsFiniteSet(seedAt)
      <4>1. IsFiniteSet(1 .. n)
        BY <2>1, Counting
      <4> QED BY <3>4, <4>1, FS_Subset
    <3>8. Cardinality(Seeds) = Cardinality(seedAt)
      BY <3>6, <3>7, FS_Bijection
    <3>9. Cardinality(1 .. L) = L
      BY <2>1, Counting
    <3>10. Seeds = 1 .. L
      BY DEF Seeds, L
    <3> QED BY <3>8, <3>9, <3>10
  <2>7. seedAt = 1 .. L
    <3>1. L <= n /\ seedAt \in SUBSET (1 .. n)
      BY <2>1
    <3>2. \A k, l \in 1 .. n : k < l /\ l \in seedAt => k \in seedAt
      BY <2>4
    <3> HIDE DEF seedAt
    <3> QED BY <2>1, <2>6, <3>1, <3>2, InitialSegment
  <2> DEFINE of == {k \in DOMAIN Kept : Kept[k].id = i}
  <2>8. PICK place \in 1 .. n : IdAt(place) = i
    BY <2>3
  <2>9. CASE i \in Counted
    <3>1. i \notin Seeds
      BY <2>9, LoadFacts
    <3>2. place \notin 1 .. L
      BY <2>7, <2>8, <3>1
    <3>3. place - L \in 1 .. n - L /\ L + (place - L) = place
      BY <2>1, <3>2
    <3>4. \A k \in 1 .. n - L : L + k \in 1 .. n
      BY <2>1
    <3>5. \A k \in 1 .. n - L : Kept[k].id = i => k = place - L
      <4>1. ASSUME NEW k \in 1 .. n - L, Kept[k].id = i PROVE k = place - L
        <5>1. IdAt(L + k) = IdAt(place)
          BY <2>5, <2>8, <4>1
        <5>2. L + k = place
          BY <2>3, <3>4, <5>1
        <5> QED BY <2>1, <3>3, <5>2
      <4> QED BY <4>1
    <3>6. Kept[place - L].id = i
      BY <2>5, <2>8, <3>3
    <3>7. of = {place - L}
      BY <2>5, <3>3, <3>5, <3>6
    <3> QED BY <2>9, <3>7, FS_Singleton
  <2>10. CASE i \notin Counted
    <3>1. i \in Seeds
      BY <2>10, LoadFacts
    <3>2. place \in 1 .. L
      BY <2>7, <2>8, <3>1
    <3>3. ASSUME NEW k \in 1 .. n - L, Kept[k].id = i PROVE FALSE
      <4>1. L + k \in 1 .. n /\ L + k \notin 1 .. L
        BY <2>1
      <4>2. IdAt(L + k) = IdAt(place)
        BY <2>5, <2>8, <3>3
      <4> QED BY <2>3, <3>2, <4>1, <4>2
    <3>4. of = {}
      BY <2>5, <3>3
    <3> QED BY <2>10, <3>4, FS_EmptySet
  <2> QED BY <2>9, <2>10
<1> QED BY <1>1, LoadInv, PTL
-----------------------------------------------------------------------------
(* The scripts on the rows of a run.  The size in a row is that of the     *)
(* file it names.                                                          *)
BytesInv == \A k \in DOMAIN rows : rows[k].bytes = Size[rows[k].filename]

LEMMA RecordBytes == ASSUME IInv, BytesInv, NEW i \in Requests, Record(i) PROVE BytesInv'
<1> DEFINE r == request[i]
           row == [id |-> i, op |-> r.op, filename |-> r.filename, bytes |-> Size[r.filename],
                   rounds |-> Rounds[r.op][r.filename],
                   forfeited_bytes |-> Forfeits[r.op][r.filename],
                   arrival_ns |-> r.arrival_ns, start_ns |-> r.start_ns, finish_ns |-> clock]
<1>1. rows' = Append(rows, row) /\ row.bytes = Size[row.filename]
  BY DEF Record
<1>2. Len(rows) \in Nat /\ DOMAIN rows = 1 .. Len(rows) /\ rows \in Seq(Row)
  BY RowFacts DEF IInv, TypeInv
<1> HIDE DEF row
<1>3. /\ DOMAIN rows' = 1 .. Len(rows) + 1 /\ rows'[Len(rows) + 1] = row
      /\ \A k \in 1 .. Len(rows) : rows'[k] = rows[k]
  BY <1>1, <1>2
<1>4. ASSUME NEW k \in DOMAIN rows' PROVE rows'[k].bytes = Size[rows'[k].filename]
  <2>1. CASE k = Len(rows) + 1
    BY <1>1, <1>3, <2>1
  <2>2. CASE k # Len(rows) + 1
    <3>1. k \in 1 .. Len(rows)
      BY <1>2, <1>3, <2>2
    <3> QED BY <1>2, <1>3, <3>1 DEF BytesInv
  <2> QED BY <2>1, <2>2
<1> QED BY <1>4 DEF BytesInv

LEMMA BytesAlways == Spec => [](IInv /\ BytesInv)
<1>1. Init => BytesInv
  BY DEF Init, BytesInv
<1>2. IInv /\ BytesInv /\ [Next]_vars => BytesInv'
  <2> SUFFICES ASSUME IInv, BytesInv, [Next]_vars PROVE BytesInv'
    OBVIOUS
  <2>1. CASE \E i \in Requests : Record(i)
    BY <2>1, RecordBytes
  <2>2. CASE ~ \E i \in Requests : Record(i)
    <3>1. UNCHANGED rows
      BY <2>2 DEF Next, vars, clientVars, serverVars, ServerStep, Arrive, Serve, Refuse, SeedNext,
         StartThreads, Join, Claim, LeaveLoop, Succeed, Fail, EndExchange, Begin
    <3> QED BY <3>1 DEF BytesInv
  <2> QED BY <2>1, <2>2
<1>3. Spec => []IInv
  BY LoadInv
<1> QED BY <1>1, <1>2, <1>3, PTL DEF Spec

(* Dividing by the size of a file that is not empty, the rows of class     *)
(* large are the rows of large.txt.                                        *)
LEMMA LargeRows ==
    ASSUME LargeIsOneFile, NEW s \in Seq(Row),
           \A k \in 1 .. Len(s) : s[k].bytes = Size[s[k].filename]
    PROVE  Only(s, {r \in ToSet(s) : r.filename = "large.txt" /\ r.bytes > 0})
               = Only(s, OfClass("large") \cap NotEmpty)
<1> DEFINE chosen == {r \in ToSet(s) : r.filename = "large.txt" /\ r.bytes > 0}
<1>1. ASSUME NEW k \in 1 .. Len(s)
      PROVE  s[k] \in chosen <=> s[k] \in OfClass("large") \cap NotEmpty
  <2>1. s[k] \in Row /\ s[k] \in ToSet(s) /\ s[k].filename \in Names /\ s[k].bytes = Size[s[k].filename]
    <3>1. s[k] \in Row /\ k \in DOMAIN s
      OBVIOUS
    <3>2. s[k] \in ToSet(s)
      BY <3>1 DEF ToSet
    <3>3. s[k].filename \in Names
      BY <3>1 DEF Row
    <3> QED BY <3>1, <3>2, <3>3
  <2>2. SizeClass([filename |-> s[k].filename, bytes |-> Size[s[k].filename]]) = SizeClass(s[k])
    BY <2>1 DEF SizeClass
  <2>3. s[k].bytes > 0 =>
            (s[k].filename = "large.txt" <=> SizeClass(s[k]) = "large")
    BY <2>1, <2>2 DEF LargeIsOneFile
  <2> QED BY <2>1, <2>3 DEF OfClass, NotEmpty
<1> HIDE DEF chosen
<1>2. Only(s, chosen) = Only(s, OfClass("large") \cap NotEmpty)
  BY <1>1, OnlySame
<1> QED BY <1>2 DEF chosen

(* run_metrics, analysis.py and compare_rr_drr.py agree, and the classes   *)
(* account for every row, on the metrics file of every run, whatever the   *)
(* files, their sizes and costs, the threads and the failures, when the    *)
(* long line file is the one that is large.                                *)
THEOREM ScriptsAlwaysAgree == LargeIsOneFile => (Spec => []ScriptsAgree)
<1> SUFFICES ASSUME LargeIsOneFile PROVE Spec => []ScriptsAgree
  OBVIOUS
<1>1. IInv /\ BytesInv => ScriptsAgree
  <2> SUFFICES ASSUME IInv, BytesInv, Len(rows) > seed_count PROVE ScriptsAgree
    BY DEF ScriptsAgree
  <2> DEFINE m == RunMetrics(rows, seed_count)
             a == AnalysisMain(rows, seed_count)
             c == CompareMain(rows, seed_count, "large.txt")
             nonempty(cls) == Column(Only(Kept, OfClass(cls) \cap NotEmpty), Slowdown)
             forfeits(cls) == Column(Only(Kept, OfClass(cls)), LAMBDA r : r.forfeited_bytes)
  <2>1. Kept \in Seq(Row) /\ \A k \in 1 .. Len(Kept) : Kept[k].bytes = Size[Kept[k].filename]
    <3> DEFINE order == Order(Len(rows), Arrivals)
               n == Len(rows)
               L == seed_count
    <3>1. n \in Nat /\ L \in Nat /\ n >= L /\ DOMAIN rows = 1 .. n /\ Arrivals \in [1 .. n -> Int]
      BY RowFacts, SeedCountAssumption
    <3>2. /\ Kept \in Seq(Row) /\ Len(Kept) = n - L
          /\ \A k \in 1 .. n - L : Kept[k] = rows[order[L + k]]
      BY <3>1, KeptRows
    <3>3. order \in [1 .. n -> 1 .. n]
      BY <3>1, OrderSorts DEF Bijection, Injection
    <3> HIDE DEF order, n, L
    <3>4. ASSUME NEW k \in 1 .. Len(Kept) PROVE Kept[k].bytes = Size[Kept[k].filename]
      <4>1. k \in 1 .. n - L /\ L + k \in 1 .. n
        BY <3>1, <3>2
      <4>2. order[L + k] \in DOMAIN rows
        BY <3>1, <3>3, <4>1
      <4> QED BY <3>2, <4>1, <4>2 DEF BytesInv
    <3> QED BY <3>2, <3>4
  <2>2. ASSUME NEW cls \in CLASSES
        PROVE  /\ RowsOfClass(Kept, cls) = Only(Kept, OfClass(cls))
               /\ Only(RowsOfClass(Kept, cls), {r \in ToSet(RowsOfClass(Kept, cls)) : r.bytes > 0})
                      = Only(Kept, OfClass(cls) \cap NotEmpty)
               /\ SlowdownsByClass(Kept)[cls] = nonempty(cls)
               /\ ForfeitedByClass(Kept)[cls] = Total(forfeits(cls))
    <3>1. RowsOfClass(Kept, cls) = Only(Kept, OfClass(cls)) /\ RowsOfClass(Kept, cls) \in Seq(Row)
      BY <2>1, ClassRows
    <3>2. Only(RowsOfClass(Kept, cls), {r \in ToSet(RowsOfClass(Kept, cls)) : r.bytes > 0})
              = Only(RowsOfClass(Kept, cls), NotEmpty)
      BY <3>1, NotEmptyRows
    <3>3. Only(Only(Kept, OfClass(cls)), NotEmpty) = Only(Kept, OfClass(cls) \cap NotEmpty)
      BY <2>1, OnlyOfOnly
    <3>4. SlowdownsByClass(Kept)[cls] = nonempty(cls)
      BY <2>1, SlowdownsAgree
    <3>5. ForfeitedByClass(Kept)[cls] = Total(forfeits(cls))
      BY <2>1, ForfeitsAgree
    <3> QED BY <3>1, <3>2, <3>3, <3>4, <3>5
  <2>3. SlowdownForFile(Kept, "large.txt") = SortedQuotients(nonempty("large"))
    BY <2>1, LargeRows DEF SlowdownForFile
  <2>4. <<m.n, m.wait_p50_ns, m.wait_p99_ns, m.throughput>> = <<a.n, a.p50, a.p99, a.throughput>>
    BY DEF RunMetrics, AnalysisMain
  <2>5. ASSUME NEW cls \in CLASSES
        PROVE  /\ m.by_class[cls] = ClassMetrics(RowsOfClass(Kept, cls))
               /\ m.by_class[cls].n = Len(Only(Kept, OfClass(cls)))
               /\ m.by_class[cls].slow_med = NearestRankPercentile(SortedQuotients(nonempty(cls)), 50)
               /\ m.by_class[cls].slow_p99 = NearestRankPercentile(SortedQuotients(nonempty(cls)), 99)
               /\ m.by_class[cls].forfeited = Total(forfeits(cls))
    <3>1. m.by_class[cls] = ClassMetrics(RowsOfClass(Kept, cls))
      BY DEF RunMetrics, Kept
    <3>2. /\ ClassMetrics(RowsOfClass(Kept, cls)).n = Len(RowsOfClass(Kept, cls))
          /\ ClassMetrics(RowsOfClass(Kept, cls)).forfeited
                 = Total(Column(RowsOfClass(Kept, cls), LAMBDA r : r.forfeited_bytes))
      BY DEF ClassMetrics
    <3> DEFINE slow == SortedQuotients(Column(Only(RowsOfClass(Kept, cls),
                                {r \in ToSet(RowsOfClass(Kept, cls)) : r.bytes > 0}), Slowdown))
    <3>3. /\ ClassMetrics(RowsOfClass(Kept, cls)).slow_med = NearestRankPercentile(slow, 50)
          /\ ClassMetrics(RowsOfClass(Kept, cls)).slow_p99 = NearestRankPercentile(slow, 99)
      BY DEF ClassMetrics
    <3>4. slow = SortedQuotients(nonempty(cls))
      BY <2>2
    <3> QED BY <2>2, <3>1, <3>2, <3>3, <3>4
  <2>6. ASSUME NEW cls \in CLASSES
        PROVE  a.slow[cls] = <<NearestRankPercentile(SortedQuotients(nonempty(cls)), 50),
                               NearestRankPercentile(SortedQuotients(nonempty(cls)), 99)>>
    <3>1. a.slow[cls] = <<NearestRankPercentile(SortedQuotients(SlowdownsByClass(Kept)[cls]), 50),
                          NearestRankPercentile(SortedQuotients(SlowdownsByClass(Kept)[cls]), 99)>>
      BY DEF AnalysisMain, Kept
    <3> QED BY <2>2, <3>1
  <2>7. /\ c.forfeited = ForfeitedByClass(Kept)
        /\ c.slow = <<NearestRankPercentile(SlowdownForFile(Kept, "large.txt"), 50),
                      NearestRankPercentile(SlowdownForFile(Kept, "large.txt"), 99)>>
    BY DEF CompareMain, Kept
  <2> HIDE DEF m, a, c, nonempty, forfeits
  <2>8. m.by_class["small"].n + m.by_class["medium"].n + m.by_class["large"].n = m.n
    <3>1. m.n = Len(Kept)
      BY DEF RunMetrics, Kept, m
    <3>2. ASSUME NEW cls \in CLASSES PROVE m.by_class[cls].n = Len(Only(Kept, OfClass(cls)))
      BY <2>5
    <3>3. /\ m.by_class["small"].n = Len(Only(Kept, OfClass("small")))
          /\ m.by_class["medium"].n = Len(Only(Kept, OfClass("medium")))
          /\ m.by_class["large"].n = Len(Only(Kept, OfClass("large")))
      BY <3>2 DEF CLASSES
    <3>4. Len(Only(Kept, OfClass("small"))) + Len(Only(Kept, OfClass("medium")))
              + Len(Only(Kept, OfClass("large"))) = Len(Kept)
      BY <2>1, ClassesAccount
    <3> QED BY <3>1, <3>3, <3>4
  <2>9. ASSUME NEW cls \in CLASSES
        PROVE  /\ a.slow[cls] = <<m.by_class[cls].slow_med, m.by_class[cls].slow_p99>>
               /\ c.forfeited[cls] = m.by_class[cls].forfeited
               /\ cls = "large" => c.slow = <<m.by_class[cls].slow_med, m.by_class[cls].slow_p99>>
    <3> DEFINE med(k) == NearestRankPercentile(SortedQuotients(nonempty(k)), 50)
               p99(k) == NearestRankPercentile(SortedQuotients(nonempty(k)), 99)
    <3>1. m.by_class[cls].slow_med = med(cls) /\ m.by_class[cls].slow_p99 = p99(cls)
      BY <2>5
    <3>2. a.slow[cls] = <<med(cls), p99(cls)>>
      BY <2>6
    <3>3. c.forfeited[cls] = Total(forfeits(cls)) /\ m.by_class[cls].forfeited = Total(forfeits(cls))
      BY <2>2, <2>5, <2>7
    <3>4. c.slow = <<med("large"), p99("large")>>
      BY <2>3, <2>7
    <3> HIDE DEF med, p99
    <3> QED BY <3>1, <3>2, <3>3, <3>4
  <2> QED BY <2>4, <2>8, <2>9 DEF ScriptsAgree, m, a, c
<1> QED BY <1>1, BytesAlways, PTL
=============================================================================
