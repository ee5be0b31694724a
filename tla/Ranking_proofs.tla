----------------------------- MODULE Ranking_proofs -----------------------------
(***************************************************************************)
(* Facts of sequences and finite sets that the proofs of the components    *)
(* cite: what sorting and filtering by rank give, for any finite set and   *)
(* order; sequences with a part replaced, cut into pieces, rearranged.     *)
(***************************************************************************)
EXTENDS Ranking, SequencesExt, FiniteSetsExt, SequenceTheorems, FiniteSetTheorems, TLAPS

-----------------------------------------------------------------------------
(* Numbers *)

\* Every set of natural numbers has a least one.
LEMMA NatMin ==
    ASSUME NEW T, T \subseteq Nat, T # {}
    PROVE  \E m \in T : \A k \in T : m <= k
<1> DEFINE R == {ss \in Nat \X Nat : ss[1] < ss[2]}
<1>1. IsWellFoundedOn(R, Nat)
  BY NatLessThanWellFounded DEF OpToRel
<1>2. PICK m \in T : \A k \in T : ~(<<k, m>> \in R)
  BY <1>1, WFMin
<1>3. ASSUME NEW k \in T PROVE m <= k
  <2>1. ~(<<k, m>> \in R)
    BY <1>2
  <2>2. <<k, m>> \in Nat \X Nat
    OBVIOUS
  <2>3. QED
    BY <2>1, <2>2
<1>4. QED
  BY <1>3

\* A function on 1..N that grows from each number to the next one grows.
LEMMA StepwiseGrowing ==
    ASSUME NEW N \in Nat, NEW f, \A n \in 1 .. N : f[n] \in Int,
           \A n \in 1 .. N - 1 : f[n] < f[n + 1]
    PROVE  \A m, n \in 1 .. N : m < n => f[m] < f[n]
<1> DEFINE Bad == {n \in 1 .. N : \E m \in 1 .. N : m < n /\ ~(f[m] < f[n])}
<1>1. SUFFICES ASSUME Bad # {} PROVE FALSE
  OBVIOUS
<1>2. PICK b \in Bad : \A k \in Bad : b <= k
  <2>1. Bad \subseteq Nat
    OBVIOUS
  <2> HIDE DEF Bad
  <2>2. QED
    BY <1>1, <2>1, NatMin
<1>3. PICK m \in 1 .. N : m < b /\ ~(f[m] < f[b])
  BY <1>2
<1>4. b - 1 \in 1 .. N - 1 /\ b - 1 \notin Bad
  BY <1>2, <1>3
<1>5. f[b - 1] < f[b]
  <2>1. (b - 1) + 1 = b
    BY <1>2
  <2>2. QED
    BY <1>4, <2>1
<1>6. m = b - 1 \/ f[m] < f[b - 1]
  BY <1>3, <1>4
<1>7. QED
  BY <1>3, <1>4, <1>5, <1>6

\* A function on 1..n is a sequence of n entries.
LEMMA FunctionIsSequence ==
    ASSUME NEW T, NEW n \in Nat, NEW f \in [1 .. n -> T]
    PROVE  f \in Seq(T) /\ Len(f) = n
<1>1. f \in Seq(T)
  BY SeqDef
<1>2. DOMAIN f = 1 .. Len(f) /\ Len(f) \in Nat
  BY <1>1, LenProperties
<1>3. DOMAIN f = 1 .. n
  OBVIOUS
<1>4. QED
  BY <1>1, <1>2, <1>3

\* There are n numbers from 1 to n.
LEMMA IntervalSize == \A n \in Nat : IsFiniteSet(1 .. n) /\ Cardinality(1 .. n) = n
<1> TAKE n \in Nat
<1>1. IsFiniteSet(1 .. n) /\ Cardinality(1 .. n) = IF 1 > n THEN 0 ELSE n - 1 + 1
  BY FS_Interval
<1>2. QED
  BY <1>1

-----------------------------------------------------------------------------
(* Ranks *)

\* Below an element there are fewer elements than below one after it.
LEMMA RankGrows ==
    ASSUME NEW R, NEW S, IsFiniteSet(S), StrictOrder(R, S),
           NEW x \in S, NEW y \in S, <<x, y>> \in R
    PROVE  Rank(R, S, x) < Rank(R, S, y)
<1> DEFINE X == Before(R, S, x)
           Y == Before(R, S, y)
<1>1. IsFiniteSet(Y) /\ Cardinality(Y) \in Nat
  BY FS_Subset, FS_CardinalityType DEF Before
<1>2. X \subseteq Y /\ x \in Y /\ x \notin X
  BY DEF Before, StrictOrder
<1>3. Cardinality(X) <= Cardinality(Y) /\ Cardinality(X) # Cardinality(Y)
      /\ Cardinality(X) \in Nat
  BY <1>1, <1>2, FS_Subset, FS_CardinalityType
<1>4. QED
  BY <1>1, <1>3 DEF Rank

\* A rank is less than the number of elements.
LEMMA RankRange ==
    ASSUME NEW R, NEW S, IsFiniteSet(S), StrictOrder(R, S), NEW x \in S
    PROVE  Rank(R, S, x) \in 0 .. Cardinality(S) - 1
<1> DEFINE X == Before(R, S, x)
<1>1. X \subseteq S /\ x \notin X
  BY DEF Before, StrictOrder
<1>2. Cardinality(X) <= Cardinality(S) /\ Cardinality(X) # Cardinality(S)
  BY <1>1, FS_Subset
<1>3. Cardinality(X) \in Nat /\ Cardinality(S) \in Nat
  BY <1>1, FS_Subset, FS_CardinalityType
<1>4. QED
  BY <1>2, <1>3 DEF Rank

\* No two elements have the same rank.
LEMMA RankDistinct ==
    ASSUME NEW R, NEW S, IsFiniteSet(S), StrictOrder(R, S),
           NEW x \in S, NEW y \in S, Rank(R, S, x) = Rank(R, S, y)
    PROVE  x = y
<1> SUFFICES ASSUME x # y PROVE FALSE
  OBVIOUS
<1>1. <<x, y>> \in R \/ <<y, x>> \in R
  BY DEF StrictOrder
<1>2. Rank(R, S, x) \in Int /\ Rank(R, S, y) \in Int
  BY RankRange, FS_CardinalityType
<1>3. QED
  BY <1>1, <1>2, RankGrows

\* Every number below the size of the set is a rank.
LEMMA RankOnto ==
    ASSUME NEW R, NEW S, IsFiniteSet(S), StrictOrder(R, S),
           NEW n \in 0 .. Cardinality(S) - 1
    PROVE  \E x \in S : Rank(R, S, x) = n
<1> DEFINE T == 0 .. Cardinality(S) - 1
           f == [x \in S |-> Rank(R, S, x)]
<1>1. Cardinality(S) \in Nat
  BY FS_CardinalityType
<1>2. f \in [S -> T]
  BY RankRange
<1>3. f \in Injection(S, T)
  BY <1>2, RankDistinct DEF Injection, IsInjective
<1>4. IsFiniteSet(T) /\ Cardinality(T) = Cardinality(S)
  BY <1>1, FS_Interval
<1>5. f \in Surjection(S, T)
  <2> HIDE DEF T, f
  <2>1. QED
    BY <1>3, <1>4, FS_Injection
<1>6. QED
  BY <1>5 DEF Surjection

\* Sorting a set gives each of its elements once, in order.
LEMMA Sorting ==
    ASSUME NEW R, NEW S, IsFiniteSet(S), StrictOrder(R, S)
    PROVE  LET s == InOrderOf(R, S) IN
           /\ s \in Seq(S)
           /\ Len(s) = Cardinality(S)
           /\ \A i \in 1 .. Len(s) : s[i] \in S /\ Rank(R, S, s[i]) = i - 1
           /\ \A x \in S : \E i \in 1 .. Len(s) : s[i] = x
           /\ \A i, j \in 1 .. Len(s) : i < j <=> <<s[i], s[j]>> \in R
           /\ \A i, j \in 1 .. Len(s) : s[i] = s[j] => i = j
<1> DEFINE s == InOrderOf(R, S)
           N == Cardinality(S)
<1>1. N \in Nat
  BY FS_CardinalityType
<1>2. \A i \in 1 .. N : s[i] \in S /\ Rank(R, S, s[i]) = i - 1
  <2> SUFFICES ASSUME NEW i \in 1 .. N
               PROVE  s[i] \in S /\ Rank(R, S, s[i]) = i - 1
    OBVIOUS
  <2>1. s[i] = CHOOSE x \in S : Rank(R, S, x) = i - 1
    BY DEF InOrderOf
  <2>2. \E x \in S : Rank(R, S, x) = i - 1
    <3>1. i - 1 \in 0 .. N - 1
      BY <1>1
    <3>2. QED
      BY <3>1, RankOnto
  <2>3. QED
    BY <2>1, <2>2
<1>3. s = [i \in 1 .. N |-> s[i]]
  BY DEF InOrderOf
<1> HIDE DEF s
<1>4. s \in [1 .. N -> S]
  BY <1>2, <1>3
<1>5. s \in Seq(S) /\ Len(s) = N
  BY <1>1, <1>4, LenProperties, SeqDef
<1>6. \A x \in S : \E i \in 1 .. N : s[i] = x
  <2> SUFFICES ASSUME NEW x \in S PROVE \E i \in 1 .. N : s[i] = x
    OBVIOUS
  <2>1. Rank(R, S, x) \in 0 .. N - 1
    BY RankRange
  <2> DEFINE i == Rank(R, S, x) + 1
  <2>2. i \in 1 .. N /\ i - 1 = Rank(R, S, x)
    BY <2>1, <1>1
  <2>3. Rank(R, S, s[i]) = Rank(R, S, x) /\ s[i] \in S
    BY <2>2, <1>2
  <2>4. s[i] = x
    BY <2>3, RankDistinct
  <2>5. QED
    BY <2>2, <2>4
<1>7. \A i, j \in 1 .. N : s[i] = s[j] => i = j
  BY <1>1, <1>2
<1>8. \A i, j \in 1 .. N : i < j <=> <<s[i], s[j]>> \in R
  <2> SUFFICES ASSUME NEW i \in 1 .. N, NEW j \in 1 .. N
               PROVE  i < j <=> <<s[i], s[j]>> \in R
    OBVIOUS
  <2>1. <<s[i], s[j]>> \in R => i < j
    <3> HAVE <<s[i], s[j]>> \in R
    <3>1. Rank(R, S, s[i]) < Rank(R, S, s[j])
      BY <1>2, RankGrows
    <3>2. QED
      BY <3>1, <1>2, <1>1
  <2>2. i < j => <<s[i], s[j]>> \in R
    <3> HAVE i < j
    <3>1. s[i] # s[j]
      BY <1>7
    <3>2. ~(<<s[j], s[i]>> \in R)
      <4> SUFFICES ASSUME <<s[j], s[i]>> \in R PROVE FALSE
        OBVIOUS
      <4>1. Rank(R, S, s[j]) < Rank(R, S, s[i])
        BY <1>2, RankGrows
      <4>2. QED
        BY <4>1, <1>2, <1>1
    <3>3. QED
      BY <3>1, <3>2, <1>2 DEF StrictOrder
  <2>3. QED
    BY <2>1, <2>2
<1>9. QED
  BY <1>2, <1>5, <1>6, <1>7, <1>8 DEF s

-----------------------------------------------------------------------------
(* Increasing numbers *)

\* Increasing order is an order without ties.
LEMMA LessOrder == ASSUME NEW S \in SUBSET Int PROVE StrictOrder(Less(S), S)
BY DEF StrictOrder, Less

\* The numbers of a set in increasing order.
LEMMA IncreasingNumbers ==
    ASSUME NEW S \in SUBSET Int, IsFiniteSet(S)
    PROVE  LET s == Increasing(S) IN
           /\ s \in Seq(S)
           /\ Len(s) = Cardinality(S) /\ Len(s) \in Nat
           /\ \A i \in 1 .. Len(s) : s[i] \in S
           /\ \A x \in S : \E i \in 1 .. Len(s) : s[i] = x
           /\ \A i, j \in 1 .. Len(s) : i < j <=> s[i] < s[j]
           /\ \A i, j \in 1 .. Len(s) : s[i] = s[j] => i = j
<1> DEFINE s == Increasing(S)
<1>1. StrictOrder(Less(S), S)
  BY LessOrder
<1>2. /\ s \in Seq(S)
      /\ Len(s) = Cardinality(S)
      /\ \A i \in 1 .. Len(s) : s[i] \in S
      /\ \A x \in S : \E i \in 1 .. Len(s) : s[i] = x
      /\ \A i, j \in 1 .. Len(s) : i < j <=> <<s[i], s[j]>> \in Less(S)
      /\ \A i, j \in 1 .. Len(s) : s[i] = s[j] => i = j
  BY <1>1, Sorting DEF Increasing
<1>3. \A x, y \in S : <<x, y>> \in Less(S) <=> x < y
  BY DEF Less
<1>4. Len(s) \in Nat
  BY <1>2, FS_CardinalityType
<1>5. QED
  BY <1>2, <1>3, <1>4

-----------------------------------------------------------------------------
(* Filtering *)

\* r has the entries of s at the positions P, in order: entry i is the one at p[i].
SelectedBy(r, p, s, P, T) ==
    /\ r \in Seq(T)
    /\ Len(r) = Cardinality(P) /\ Len(r) = Len(p) /\ Len(r) \in Nat
    /\ \A i \in 1 .. Len(r) : p[i] \in P /\ r[i] = s[p[i]]
    /\ \A x \in P : \E i \in 1 .. Len(r) : p[i] = x
    /\ \A i, j \in 1 .. Len(r) : i < j <=> p[i] < p[j]

\* The entries of a sequence at some of its positions: those, in order.
LEMMA Selecting ==
    ASSUME NEW T, NEW s \in Seq(T), NEW P \in SUBSET (1 .. Len(s))
    PROVE  SelectedBy(AtPositions(s, P), Increasing(P), s, P, T)
<1> DEFINE r == AtPositions(s, P)
           p == Increasing(P)
<1>1. Len(s) \in Nat /\ \A n \in 1 .. Len(s) : s[n] \in T
  BY LenProperties, ElementOfSeq
<1>2. IsFiniteSet(P) /\ P \in SUBSET Int
  <2>1. IsFiniteSet(1 .. Len(s))
    BY <1>1, FS_Interval
  <2>2. IsFiniteSet(P)
    BY <2>1, FS_Subset
  <2>3. QED
    BY <1>1, <2>2
<1>3. /\ p \in Seq(P)
      /\ Len(p) = Cardinality(P) /\ Len(p) \in Nat
      /\ \A i \in 1 .. Len(p) : p[i] \in P
      /\ \A x \in P : \E i \in 1 .. Len(p) : p[i] = x
      /\ \A i, j \in 1 .. Len(p) : i < j <=> p[i] < p[j]
  BY <1>2, IncreasingNumbers
<1>4. DOMAIN p = 1 .. Len(p)
  BY <1>3, LenProperties
<1>5. r = [n \in 1 .. Len(p) |-> s[p[n]]]
  BY <1>4 DEF AtPositions
<1> HIDE DEF r, p
<1>6. \A n \in 1 .. Len(p) : s[p[n]] \in T
  BY <1>1, <1>3
<1>7. r \in [1 .. Len(p) -> T]
  BY <1>5, <1>6
<1>8. r \in Seq(T) /\ Len(r) = Len(p)
  BY <1>3, <1>7, SeqDef, LenProperties
<1>9. SelectedBy(r, p, s, P, T)
  BY <1>3, <1>5, <1>8 DEF SelectedBy
<1>10. QED
  BY <1>9 DEF r, p

\* Filtering keeps exactly the good entries.
LEMMA Filtering ==
    ASSUME NEW T, NEW s \in Seq(T), NEW good
    PROVE  LET r == Filter(s, good) IN
           /\ r \in Seq(T) /\ Len(r) \in Nat /\ Len(r) <= Len(s)
           /\ \A i \in 1 .. Len(r) : r[i] \in good /\ \E n \in 1 .. Len(s) : r[i] = s[n]
           /\ \A n \in 1 .. Len(s) : s[n] \in good => \E i \in 1 .. Len(r) : r[i] = s[n]
<1> DEFINE P == {n \in DOMAIN s : s[n] \in good}
           r == AtPositions(s, P)
           p == Increasing(P)
<1>1. DOMAIN s = 1 .. Len(s)
  BY LenProperties
<1>2. P \in SUBSET (1 .. Len(s))
  BY <1>1
<1> HIDE DEF P
<1>3. /\ r \in Seq(T)
      /\ Len(r) \in Nat
      /\ \A i \in 1 .. Len(r) : p[i] \in P /\ r[i] = s[p[i]]
      /\ \A x \in P : \E i \in 1 .. Len(r) : p[i] = x
  <2>1. SelectedBy(r, p, s, P, T)
    BY <1>2, Selecting
  <2> HIDE DEF r, p
  <2>2. QED
    BY <2>1 DEF SelectedBy
<1>4. r = Filter(s, good)
  BY DEF Filter, P
<1>5. \A i \in 1 .. Len(r) : r[i] \in good /\ \E n \in 1 .. Len(s) : r[i] = s[n]
  BY <1>1, <1>3 DEF P
<1>6. \A n \in 1 .. Len(s) : s[n] \in good => n \in P
  BY <1>1 DEF P
<1>7. \A n \in 1 .. Len(s) : s[n] \in good => \E i \in 1 .. Len(r) : r[i] = s[n]
  <2> HIDE DEF r, p
  <2>1. QED
    BY <1>3, <1>6
<1>8. Len(r) <= Len(s)
  <2>1. Len(s) \in Nat /\ IsFiniteSet(1 .. Len(s)) /\ Cardinality(1 .. Len(s)) = Len(s)
    <3>1. Len(s) \in Nat
      BY LenProperties
    <3>2. QED
      BY <3>1, FS_Interval, SMTT(20)
  <2>2. Len(r) = Cardinality(P)
    <3>1. SelectedBy(r, p, s, P, T)
      BY <1>2, Selecting
    <3> HIDE DEF r, p
    <3>2. QED
      BY <3>1 DEF SelectedBy
  <2>3. Cardinality(P) <= Cardinality(1 .. Len(s))
    BY <1>2, <2>1, FS_Subset
  <2>4. QED
    BY <2>1, <2>2, <2>3
<1>9. QED
  BY <1>3, <1>4, <1>5, <1>7, <1>8

\* An increasing sequence of numbers stays above its positions.
LEMMA AbovePosition ==
    ASSUME NEW N \in Nat, NEW p, \A i \in 1 .. N : p[i] \in Nat \ {0},
           \A i, j \in 1 .. N : i < j => p[i] < p[j]
    PROVE  \A i \in 1 .. N : p[i] >= i
<1> DEFINE Bad == {n \in 1 .. N : ~(p[n] >= n)}
<1>1. SUFFICES ASSUME Bad # {} PROVE FALSE
  OBVIOUS
<1>2. PICK b \in Bad : \A k \in Bad : b <= k
  <2>1. Bad \subseteq Nat
    OBVIOUS
  <2> HIDE DEF Bad
  <2>2. QED
    BY <1>1, <2>1, NatMin
<1>3. CASE b = 1
  BY <1>2, <1>3
<1>4. CASE b # 1
  <2>1. b - 1 \in 1 .. N /\ b - 1 \notin Bad /\ b - 1 < b
    BY <1>2, <1>4
  <2>2. p[b - 1] >= b - 1 /\ p[b - 1] < p[b]
    BY <2>1, <1>2
  <2>3. QED
    BY <2>2, <1>2
<1>5. QED
  BY <1>3, <1>4

\* A sequence whose entries are all good is not changed by filtering.
LEMMA FilterAllGood ==
    ASSUME NEW T, NEW s \in Seq(T), NEW good, \A n \in 1 .. Len(s) : s[n] \in good
    PROVE  Filter(s, good) = s
<1> DEFINE P == {n \in DOMAIN s : s[n] \in good}
           r == AtPositions(s, P)
           p == Increasing(P)
<1>1. DOMAIN s = 1 .. Len(s) /\ Len(s) \in Nat
  BY LenProperties
<1>2. P = 1 .. Len(s)
  BY <1>1
<1> HIDE DEF P
<1>3. P \in SUBSET (1 .. Len(s)) /\ P \in SUBSET Int /\ IsFiniteSet(P)
      /\ Cardinality(P) = Len(s)
  BY <1>1, <1>2, FS_Interval
<1>4. /\ r \in Seq(T)
      /\ Len(r) = Len(s)
      /\ \A i \in 1 .. Len(r) : p[i] \in P /\ r[i] = s[p[i]]
      /\ \A i, j \in 1 .. Len(r) : i < j <=> p[i] < p[j]
  <2>1. SelectedBy(r, p, s, P, T)
    BY <1>3, Selecting
  <2> HIDE DEF r, p
  <2>2. QED
    BY <2>1, <1>3 DEF SelectedBy
<1>5. \A i \in 1 .. Len(s) : p[i] >= i
  <2>1. \A i \in 1 .. Len(s) : p[i] \in Nat \ {0}
    BY <1>2, <1>4
  <2>2. \A i, j \in 1 .. Len(s) : i < j => p[i] < p[j]
    BY <1>4
  <2> HIDE DEF p
  <2>3. QED
    BY <1>1, <2>1, <2>2, AbovePosition
<1>6. \A i \in 1 .. Len(s) : p[i] = i
  <2> DEFINE Bad == {k \in 0 .. Len(s) : k < Len(s) /\ p[Len(s) - k] # Len(s) - k}
  <2>1. SUFFICES ASSUME Bad # {} PROVE FALSE
    <3> SUFFICES ASSUME NEW i \in 1 .. Len(s), p[i] # i PROVE FALSE
      OBVIOUS
    <3>1. Len(s) - i \in Bad
      BY <1>1
    <3>2. QED
      BY <2>1, <3>1
  <2>2. PICK b \in Bad : \A k \in Bad : b <= k
    <3>1. Bad \subseteq Nat
      BY <1>1
    <3> HIDE DEF Bad
    <3>2. QED
      BY <2>1, <3>1, NatMin
  <2> DEFINE i == Len(s) - b
  <2>3. i \in 1 .. Len(s) /\ p[i] > i
    BY <2>2, <1>1, <1>2, <1>4, <1>5
  <2>4. CASE b = 0
    BY <2>3, <2>4, <1>1, <1>2, <1>4
  <2>5. CASE b # 0
    <3>1. b - 1 \notin Bad /\ b - 1 \in 0 .. Len(s) /\ Len(s) - (b - 1) = i + 1
      BY <2>2, <2>5, <1>1
    <3>2. p[i + 1] = i + 1 /\ i + 1 \in 1 .. Len(s)
      BY <2>2, <2>3, <2>5, <3>1, <1>1
    <3>3. p[i] < p[i + 1]
      BY <2>3, <3>2, <1>4, <1>1
    <3>4. QED
      BY <2>3, <3>2, <3>3, <1>2, <1>4
  <2>6. QED
    BY <2>4, <2>5
<1>7. \A i \in 1 .. Len(s) : r[i] = s[i]
  BY <1>4, <1>6
<1>8. r = s
  BY <1>4, <1>7, SeqEqual
<1>9. QED
  BY <1>8 DEF Filter, P

\* A good entry is kept by filtering.
LEMMA FilterKeeps ==
    ASSUME NEW T, NEW s \in Seq(T), NEW good, NEW n \in 1 .. Len(s), s[n] \in good
    PROVE  /\ Len(Filter(s, good)) \in Nat
           /\ \E i \in 1 .. Len(Filter(s, good)) : Filter(s, good)[i] = s[n]
<1> DEFINE r == Filter(s, good)
<1>1. Len(r) \in Nat /\ \A m \in 1 .. Len(s) : s[m] \in good => \E i \in 1 .. Len(r) : r[i] = s[m]
  BY Filtering
<1> HIDE DEF r
<1>2. \E i \in 1 .. Len(r) : r[i] = s[n]
  BY <1>1
<1>3. QED
  BY <1>1, <1>2 DEF r

\* Filtering keeps as many entries as are good, and distinct ones distinct.
LEMMA FilterDistinct ==
    ASSUME NEW T, NEW s \in Seq(T), NEW good
    PROVE  /\ Len(Filter(s, good)) = Cardinality({n \in 1 .. Len(s) : s[n] \in good})
           /\ (\A m, n \in 1 .. Len(s) : s[m] = s[n] => m = n) =>
                 \A i, j \in 1 .. Len(Filter(s, good)) :
                     Filter(s, good)[i] = Filter(s, good)[j] => i = j
<1> DEFINE P == {n \in 1 .. Len(s) : s[n] \in good}
           r == AtPositions(s, P)
           p == Increasing(P)
<1>1. DOMAIN s = 1 .. Len(s)
  BY LenProperties
<1>2. P \in SUBSET (1 .. Len(s)) /\ r = Filter(s, good)
  BY <1>1 DEF Filter
<1> HIDE DEF P
<1>3. /\ Len(r) = Cardinality(P) /\ Len(r) = Len(p) /\ Len(r) \in Nat
      /\ \A i \in 1 .. Len(r) : p[i] \in P /\ r[i] = s[p[i]]
      /\ \A i, j \in 1 .. Len(r) : i < j <=> p[i] < p[j]
  <2>1. SelectedBy(r, p, s, P, T)
    BY <1>2, Selecting
  <2> HIDE DEF r, p
  <2>2. QED
    BY <2>1 DEF SelectedBy
<1> HIDE DEF r, p
<1>4. ASSUME \A m, n \in 1 .. Len(s) : s[m] = s[n] => m = n,
             NEW i \in 1 .. Len(r), NEW j \in 1 .. Len(r), r[i] = r[j]
      PROVE  i = j
  <2>1. p[i] \in 1 .. Len(s) /\ p[j] \in 1 .. Len(s) /\ s[p[i]] = s[p[j]]
    BY <1>2, <1>3, <1>4
  <2>2. p[i] = p[j]
    BY <2>1, <1>4
  <2>3. Len(s) \in Nat /\ p[i] \in Int
    BY <2>1, LenProperties
  <2>4. ~(p[i] < p[j]) /\ ~(p[j] < p[i])
    BY <2>2, <2>3
  <2>5. QED
    BY <2>4, <1>3
<1>5. QED
  BY <1>2, <1>3, <1>4 DEF P

-----------------------------------------------------------------------------
(* Sums of lists *)

\* What Total adds up, as a function of how far it has come.
Sums(list, s) ==
    s = [n \in 0 .. Len(list) |-> IF n = 0 THEN 0 ELSE s[n - 1] + list[n]]

\* The sums of a list exist.
LEMMA SumsExist ==
    ASSUME NEW N \in Nat
    PROVE  \A list \in [1 .. N -> Int] : \E s \in [0 .. N -> Int] :
               s = [n \in 0 .. N |-> IF n = 0 THEN 0 ELSE s[n - 1] + list[n]]
<1> DEFINE Good(k, list, s) ==
               s[0] = 0 /\ \A n \in 1 .. k : s[n] = s[n - 1] + list[n]
           Bad == {k \in 0 .. N : \E list \in [1 .. N -> Int] :
                      ~ \E s \in [0 .. N -> Int] : Good(k, list, s)}
<1>0. /\ Bad \subseteq 0 .. N
      /\ \A k \in 0 .. N : k \notin Bad =>
            \A list \in [1 .. N -> Int] : \E s \in [0 .. N -> Int] : Good(k, list, s)
  OBVIOUS
<1>1. Bad = {}
  <2>1. SUFFICES ASSUME Bad # {} PROVE FALSE
    OBVIOUS
  <2>2. PICK b \in Bad : \A k \in Bad : b <= k
    <3>1. Bad \subseteq Nat
      OBVIOUS
    <3> HIDE DEF Bad
    <3>2. QED
      BY <2>1, <3>1, NatMin
  <2>3. PICK list \in [1 .. N -> Int] : ~ \E s \in [0 .. N -> Int] : Good(b, list, s)
    BY <2>2
  <2>4. CASE b = 0
    <3>1. [n \in 0 .. N |-> 0] \in [0 .. N -> Int] /\ Good(b, list, [n \in 0 .. N |-> 0])
      BY <2>4
    <3>2. QED
      BY <3>1, <2>3
  <2>5. CASE b # 0
    <3>1. b \in 1 .. N /\ b - 1 \in 0 .. N /\ b - 1 \notin Bad
      <4> HIDE DEF Bad
      <4>1. b \in 0 .. N
        BY <1>0
      <4>2. QED
        BY <4>1, <2>2, <2>5
    <3>2. PICK s \in [0 .. N -> Int] : Good(b - 1, list, s)
      BY <3>1, <1>0
    <3> DEFINE t == [s EXCEPT ![b] = s[b - 1] + list[b]]
    <3>3. t \in [0 .. N -> Int]
      BY <3>1
    <3>4. \A n \in 1 .. b : t[n] = t[n - 1] + list[n]
      <4> TAKE n \in 1 .. b
      <4>1. n \in 0 .. N /\ n - 1 \in 0 .. N /\ n - 1 # b
        BY <3>1
      <4>2. CASE n = b
        BY <4>1, <4>2
      <4>3. CASE n # b
        <5>1. n \in 1 .. b - 1 /\ t[n] = s[n] /\ t[n - 1] = s[n - 1]
          BY <4>1, <4>3, <3>1
        <5>2. QED
          BY <5>1, <3>2
      <4>4. QED
        BY <4>2, <4>3
    <3>5. t[0] = 0
      BY <3>1, <3>2
    <3> HIDE DEF t
    <3>6. QED
      BY <3>3, <3>4, <3>5, <2>3
  <2>6. QED
    BY <2>4, <2>5
<1>2. ASSUME NEW list \in [1 .. N -> Int]
      PROVE  \E s \in [0 .. N -> Int] :
                 s = [n \in 0 .. N |-> IF n = 0 THEN 0 ELSE s[n - 1] + list[n]]
  <2>1. N \in 0 .. N /\ N \notin Bad
    <3> HIDE DEF Bad
    <3>1. QED
      BY <1>1
  <2>2. PICK s \in [0 .. N -> Int] : Good(N, list, s)
    BY <2>1, <1>0
  <2>3. \A n \in 0 .. N : s[n] = IF n = 0 THEN 0 ELSE s[n - 1] + list[n]
    BY <2>2
  <2>4. s = [n \in 0 .. N |-> s[n]]
    OBVIOUS
  <2>5. QED
    BY <2>3, <2>4
<1>3. QED
  BY <1>2

\* Total returns the last of the sums.
LEMMA TotalIsSum ==
    ASSUME NEW list \in Seq(Int)
    PROVE  \E s \in [0 .. Len(list) -> Int] :
              /\ s[0] = 0
              /\ \A n \in 1 .. Len(list) : s[n] = s[n - 1] + list[n]
              /\ Total(list) = s[Len(list)]
<1>1. list \in [1 .. Len(list) -> Int] /\ Len(list) \in Nat
  BY LenProperties
<1> DEFINE N == Len(list)
           sum == CHOOSE s : Sums(list, s)
<1>2. Total(list) = sum[N]
  BY DEF Total, Sums
<1>3. \E s : Sums(list, s)
  BY <1>1, SumsExist DEF Sums
<1>4. Sums(list, sum)
  BY <1>3
<1>5. PICK s \in [0 .. N -> Int] : Sums(list, s)
  BY <1>1, SumsExist DEF Sums
<1> HIDE DEF sum
<1>6. \A n \in 0 .. N : sum[n] = IF n = 0 THEN 0 ELSE sum[n - 1] + list[n]
  BY <1>4 DEF Sums
<1>7. sum = [n \in 0 .. N |-> sum[n]]
  BY <1>4 DEF Sums
<1>8. \A n \in 0 .. N : sum[n] \in Int
  <2> DEFINE Bad == {n \in 0 .. N : sum[n] \notin Int}
  <2>1. SUFFICES ASSUME Bad # {} PROVE FALSE
    OBVIOUS
  <2>2. PICK b \in Bad : \A k \in Bad : b <= k
    <3>1. Bad \subseteq Nat
      BY <1>1
    <3> HIDE DEF Bad
    <3>2. QED
      BY <2>1, <3>1, NatMin
  <2>3. b # 0
    BY <2>2, <1>6
  <2>4. b - 1 \in 0 .. N /\ b - 1 \notin Bad /\ list[b] \in Int
    BY <2>2, <2>3, <1>1
  <2>5. QED
    BY <2>2, <2>3, <2>4, <1>6
<1>9. sum \in [0 .. N -> Int]
  BY <1>7, <1>8
<1>10. sum[0] = 0 /\ \A n \in 1 .. N : sum[n] = sum[n - 1] + list[n]
  BY <1>1, <1>6
<1>11. QED
  BY <1>2, <1>9, <1>10

\* The sum of a list is a number, and that of the empty list is zero.
LEMMA TotalType ==
    ASSUME NEW list \in Seq(Int)
    PROVE  Total(list) \in Int /\ (Len(list) = 0 => Total(list) = 0)
<1>1. PICK s \in [0 .. Len(list) -> Int] : s[0] = 0 /\ Total(list) = s[Len(list)]
  BY TotalIsSum
<1>2. Len(list) \in 0 .. Len(list)
  BY LenProperties
<1>3. QED
  BY <1>1, <1>2

\* A list that is nowhere below the two others together has at least their sum.
LEMMA TotalCovers ==
    ASSUME NEW a \in Seq(Int), NEW b \in Seq(Int), NEW c \in Seq(Int),
           Len(a) = Len(b), Len(a) = Len(c), \A i \in 1 .. Len(a) : c[i] <= a[i] + b[i]
    PROVE  Total(c) <= Total(a) + Total(b)
<1> DEFINE N == Len(a)
<1>1. PICK sa \in [0 .. N -> Int] :
         sa[0] = 0 /\ (\A n \in 1 .. N : sa[n] = sa[n - 1] + a[n]) /\ Total(a) = sa[N]
  BY TotalIsSum
<1>2. PICK sb \in [0 .. N -> Int] :
         sb[0] = 0 /\ (\A n \in 1 .. N : sb[n] = sb[n - 1] + b[n]) /\ Total(b) = sb[N]
  BY TotalIsSum
<1>3. PICK sc \in [0 .. N -> Int] :
         sc[0] = 0 /\ (\A n \in 1 .. N : sc[n] = sc[n - 1] + c[n]) /\ Total(c) = sc[N]
  BY TotalIsSum
<1>4. /\ N \in Nat
      /\ \A i \in 1 .. N : a[i] \in Int /\ b[i] \in Int /\ c[i] \in Int
  BY LenProperties, ElementOfSeq
<1> DEFINE Bad == {n \in 0 .. N : ~(sc[n] <= sa[n] + sb[n])}
<1>5. Bad = {}
  <2>1. SUFFICES ASSUME Bad # {} PROVE FALSE
    OBVIOUS
  <2>2. PICK m \in Bad : \A k \in Bad : m <= k
    <3>1. Bad \subseteq Nat
      BY <1>4
    <3> HIDE DEF Bad
    <3>2. QED
      BY <2>1, <3>1, NatMin
  <2>3. m # 0
    BY <2>2, <1>1, <1>2, <1>3
  <2>4. m \in 1 .. N /\ m - 1 \in 0 .. N /\ m - 1 \notin Bad
    BY <2>2, <2>3, <1>4
  <2>5. /\ sa[m - 1] \in Int /\ sb[m - 1] \in Int /\ sc[m - 1] \in Int
        /\ sc[m - 1] <= sa[m - 1] + sb[m - 1]
    BY <2>4
  <2>6. /\ sa[m] = sa[m - 1] + a[m] /\ sb[m] = sb[m - 1] + b[m] /\ sc[m] = sc[m - 1] + c[m]
        /\ c[m] <= a[m] + b[m] /\ a[m] \in Int /\ b[m] \in Int /\ c[m] \in Int
    BY <2>4, <1>1, <1>2, <1>3, <1>4
  <2>7. sc[m] <= sa[m] + sb[m]
    <3>1. \A x, y, z, p, q, r \in Int :
             z <= x + y /\ r <= p + q => z + r <= (x + p) + (y + q)
      OBVIOUS
    <3>2. sc[m - 1] + c[m] <= (sa[m - 1] + a[m]) + (sb[m - 1] + b[m])
      BY <2>5, <2>6, <3>1
    <3>3. QED
      BY <2>6, <3>2
  <2>8. QED
    BY <2>2, <2>7
<1>6. \A n \in 0 .. N : n \notin Bad => sc[n] <= sa[n] + sb[n]
  OBVIOUS
<1>7. sc[N] <= sa[N] + sb[N]
  <2> HIDE DEF Bad
  <2>1. N \in 0 .. N
    BY <1>4
  <2>2. QED
    BY <1>5, <1>6, <2>1
<1>8. QED
  BY <1>1, <1>2, <1>3, <1>7

\* The sum of a list that is the sum of two lists.
LEMMA TotalAdds ==
    ASSUME NEW a \in Seq(Int), NEW b \in Seq(Int), NEW c \in Seq(Int),
           Len(a) = Len(b), Len(a) = Len(c), \A i \in 1 .. Len(a) : c[i] = a[i] + b[i]
    PROVE  Total(c) = Total(a) + Total(b)
<1> DEFINE N == Len(a)
<1>1. PICK sa \in [0 .. N -> Int] :
         sa[0] = 0 /\ (\A n \in 1 .. N : sa[n] = sa[n - 1] + a[n]) /\ Total(a) = sa[N]
  BY TotalIsSum
<1>2. PICK sb \in [0 .. N -> Int] :
         sb[0] = 0 /\ (\A n \in 1 .. N : sb[n] = sb[n - 1] + b[n]) /\ Total(b) = sb[N]
  BY TotalIsSum
<1>3. PICK sc \in [0 .. N -> Int] :
         sc[0] = 0 /\ (\A n \in 1 .. N : sc[n] = sc[n - 1] + c[n]) /\ Total(c) = sc[N]
  BY TotalIsSum
<1>4. /\ N \in Nat
      /\ \A i \in 1 .. N : a[i] \in Int /\ b[i] \in Int /\ c[i] \in Int
  BY LenProperties, ElementOfSeq
<1> DEFINE Bad == {n \in 0 .. N : sc[n] # sa[n] + sb[n]}
<1>5. Bad = {}
  <2>1. SUFFICES ASSUME Bad # {} PROVE FALSE
    OBVIOUS
  <2>2. PICK m \in Bad : \A k \in Bad : m <= k
    <3>1. Bad \subseteq Nat
      BY <1>4
    <3> HIDE DEF Bad
    <3>2. QED
      BY <2>1, <3>1, NatMin
  <2>3. m # 0
    BY <2>2, <1>1, <1>2, <1>3
  <2>4. m \in 1 .. N /\ m - 1 \in 0 .. N /\ m - 1 \notin Bad
    BY <2>2, <2>3, <1>4
  <2>5. /\ sa[m - 1] \in Int /\ sb[m - 1] \in Int /\ sc[m - 1] \in Int
        /\ sc[m - 1] = sa[m - 1] + sb[m - 1]
    BY <2>4
  <2>6. /\ sa[m] = sa[m - 1] + a[m] /\ sb[m] = sb[m - 1] + b[m] /\ sc[m] = sc[m - 1] + c[m]
        /\ c[m] = a[m] + b[m] /\ a[m] \in Int /\ b[m] \in Int /\ c[m] \in Int
    BY <2>4, <1>1, <1>2, <1>3, <1>4
  <2>7. sc[m] = sa[m] + sb[m]
    <3>1. \A x, y, z, p, q, r \in Int :
             z = x + y /\ r = p + q => z + r = (x + p) + (y + q)
      OBVIOUS
    <3> DEFINE x == sa[m - 1]
               y == sb[m - 1]
               z == sc[m - 1]
               p == a[m]
               q == b[m]
               r == c[m]
    <3>2. x \in Int /\ y \in Int /\ z \in Int /\ p \in Int /\ q \in Int /\ r \in Int
      BY <2>5, <2>6
    <3>3. z = x + y /\ r = p + q /\ sa[m] = x + p /\ sb[m] = y + q /\ sc[m] = z + r
      BY <2>5, <2>6
    <3> HIDE DEF x, y, z, p, q, r
    <3>4. QED
      BY <3>1, <3>2, <3>3
  <2>8. QED
    BY <2>2, <2>7
<1>6. \A n \in 0 .. N : n \notin Bad => sc[n] = sa[n] + sb[n]
  OBVIOUS
<1>7. sc[N] = sa[N] + sb[N]
  <2> HIDE DEF Bad
  <2>1. N \in 0 .. N
    BY <1>4
  <2>2. QED
    BY <1>5, <1>6, <2>1
<1>8. QED
  BY <1>1, <1>2, <1>3, <1>7

\* A number at the end adds to the sum.
LEMMA TotalAppend ==
    ASSUME NEW list \in Seq(Int), NEW x \in Int
    PROVE  Total(Append(list, x)) = Total(list) + x
<1> DEFINE N == Len(list)
           long == Append(list, x)
<1>1. /\ N \in Nat /\ long \in Seq(Int) /\ Len(long) = N + 1
      /\ \A i \in 1 .. N : long[i] = list[i]
      /\ long[N + 1] = x
  BY LenProperties, AppendProperties
<1> HIDE DEF long
<1>2. PICK s \in [0 .. N -> Int] :
         s[0] = 0 /\ (\A n \in 1 .. N : s[n] = s[n - 1] + list[n]) /\ Total(list) = s[N]
  BY TotalIsSum
<1>3. PICK t \in [0 .. N + 1 -> Int] :
         t[0] = 0 /\ (\A n \in 1 .. N + 1 : t[n] = t[n - 1] + long[n]) /\ Total(long) = t[N + 1]
  BY <1>1, TotalIsSum
<1> DEFINE Bad == {n \in 0 .. N : t[n] # s[n]}
<1>4. Bad = {}
  <2>1. SUFFICES ASSUME Bad # {} PROVE FALSE
    OBVIOUS
  <2>2. PICK m \in Bad : \A k \in Bad : m <= k
    <3>1. Bad \subseteq Nat
      BY <1>1
    <3> HIDE DEF Bad
    <3>2. QED
      BY <2>1, <3>1, NatMin
  <2>3. m # 0
    BY <2>2, <1>2, <1>3
  <2>4. m \in 1 .. N /\ m \in 1 .. N + 1 /\ m - 1 \in 0 .. N /\ m - 1 \notin Bad
    <3>1. m \in 1 .. N /\ m - 1 \in 0 .. N /\ m - 1 < m
      BY <2>2, <2>3, <1>1
    <3>2. m - 1 \notin Bad
      <4> HIDE DEF Bad
      <4>1. QED
        BY <3>1, <2>2
    <3>3. QED
      BY <3>1, <3>2, <1>1
  <2>5. s[m - 1] = t[m - 1] /\ list[m] = long[m]
    BY <2>4, <1>1
  <2>6. s[m] = s[m - 1] + list[m] /\ t[m] = t[m - 1] + long[m]
    BY <2>4, <1>2, <1>3
  <2>7. QED
    BY <2>2, <2>5, <2>6
<1>5. \A n \in 0 .. N : n \notin Bad => t[n] = s[n]
  OBVIOUS
<1>6. s[N] = t[N]
  <2> HIDE DEF Bad
  <2>1. N \in 0 .. N
    BY <1>1
  <2>2. QED
    BY <1>4, <1>5, <2>1
<1>7. t[N + 1] = t[N] + x
  <2>1. N + 1 \in 1 .. N + 1 /\ (N + 1) - 1 = N
    BY <1>1
  <2>2. QED
    BY <1>1, <1>3, <2>1
<1>8. QED
  BY <1>2, <1>3, <1>6, <1>7 DEF long

\* Another number in one place changes the sum by the difference.
LEMMA TotalExcept ==
    ASSUME NEW list \in Seq(Int), NEW o \in 1 .. Len(list), NEW x \in Int
    PROVE  Total([list EXCEPT ![o] = x]) = Total(list) + (x - list[o])
<1> DEFINE N == Len(list)
           other == [list EXCEPT ![o] = x]
<1>1. /\ N \in Nat /\ other \in Seq(Int) /\ Len(other) = N
      /\ \A i \in 1 .. N : other[i] = IF i = o THEN x ELSE list[i]
      /\ \A i \in 1 .. N : list[i] \in Int
  BY LenProperties, ElementOfSeq, ExceptSeq
<1> HIDE DEF other
<1>2. PICK s \in [0 .. N -> Int] :
         s[0] = 0 /\ (\A n \in 1 .. N : s[n] = s[n - 1] + list[n]) /\ Total(list) = s[N]
  BY TotalIsSum
<1>3. PICK t \in [0 .. N -> Int] :
         t[0] = 0 /\ (\A n \in 1 .. N : t[n] = t[n - 1] + other[n]) /\ Total(other) = t[N]
  BY <1>1, TotalIsSum
<1> DEFINE shift(n) == IF n < o THEN 0 ELSE x - list[o]
           Bad == {n \in 0 .. N : t[n] # s[n] + shift(n)}
<1>4. \A n \in 0 .. N : n \notin Bad => t[n] = s[n] + shift(n)
  OBVIOUS
<1>5. Bad = {}
  <2>1. SUFFICES ASSUME Bad # {} PROVE FALSE
    OBVIOUS
  <2>2. PICK m \in Bad : \A k \in Bad : m <= k
    <3>1. Bad \subseteq Nat
      BY <1>1
    <3> HIDE DEF Bad
    <3>2. QED
      BY <2>1, <3>1, NatMin
  <2>3. m # 0
    BY <2>2, <1>2, <1>3
  <2>4. m \in 1 .. N /\ m - 1 \in 0 .. N /\ m - 1 < m
    BY <2>2, <2>3, <1>1
  <2>5. m - 1 \notin Bad
    <3> HIDE DEF Bad
    <3>1. QED
      BY <2>2, <2>4
  <2>6. t[m - 1] = s[m - 1] + shift(m - 1)
    BY <1>4, <2>4, <2>5
  <2>7. /\ s[m] = s[m - 1] + list[m] /\ t[m] = t[m - 1] + other[m]
        /\ s[m - 1] \in Int /\ t[m - 1] \in Int /\ list[m] \in Int /\ list[o] \in Int
    BY <2>4, <1>1, <1>2, <1>3
  <2>8. t[m] = s[m] + shift(m)
    <3>1. CASE m < o
      <4>1. shift(m) = 0 /\ shift(m - 1) = 0 /\ other[m] = list[m]
        BY <3>1, <2>4, <1>1
      <4>2. t[m - 1] = s[m - 1] /\ t[m] = s[m - 1] + list[m]
        BY <4>1, <2>6, <2>7
      <4>3. QED
        BY <4>1, <4>2, <2>7
    <3>2. CASE m = o
      <4>1. shift(m) = x - list[o] /\ shift(m - 1) = 0 /\ other[m] = x /\ list[m] = list[o]
        BY <3>2, <2>4, <1>1
      <4>2. QED
        BY <4>1, <2>6, <2>7, SMTT(20)
    <3>3. CASE m > o
      <4> DEFINE d == x - list[o]
      <4>1. shift(m) = d /\ shift(m - 1) = d /\ other[m] = list[m]
        BY <3>3, <2>4, <1>1
      <4>2. d \in Int
        BY <2>7
      <4> HIDE DEF d, shift, Bad
      <4>3. QED
        BY <4>1, <4>2, <2>6, <2>7
    <3>4. QED
      BY <3>1, <3>2, <3>3, <2>4, <1>1
  <2>9. QED
    BY <2>2, <2>8
<1>6. t[N] = s[N] + (x - list[o])
  <2> HIDE DEF Bad
  <2>1. N \in 0 .. N /\ N \notin Bad
    BY <1>1, <1>5
  <2>2. ~(N < o)
    BY <1>1
  <2>3. QED
    BY <1>4, <2>1, <2>2
<1>7. QED
  BY <1>2, <1>3, <1>6 DEF other

-----------------------------------------------------------------------------
(* Counting up, least and greatest, and division into parts *)

\* The least element of a set of numbers is its minimum.
LEMMA LeastIs ==
  ASSUME NEW X \in SUBSET Int, NEW x \in X, \A y \in X : x <= y
  PROVE  Min(X) = x
<1>1. Min(X) \in X /\ \A y \in X : Min(X) <= y
  BY DEF Min
<1>2. Min(X) \in Int /\ x \in Int /\ Min(X) <= x /\ x <= Min(X)
  BY <1>1
<1>3. QED
  BY <1>2

\* The greatest element of a set of numbers is its maximum.
LEMMA GreatestIs ==
  ASSUME NEW X \in SUBSET Int, NEW x \in X, \A y \in X : x >= y
  PROVE  Max(X) = x
<1>1. Max(X) \in X /\ \A y \in X : Max(X) >= y
  BY DEF Max
<1>2. Max(X) \in Int /\ x \in Int /\ Max(X) >= x /\ x >= Max(X)
  BY <1>1
<1>3. QED
  BY <1>2

\* What holds of 0, and of each number if of the one before, holds of all up to n.
LEMMA UpInduction ==
  ASSUME NEW n \in Nat, NEW A, 0 \in A, \A k \in 1 .. n : k - 1 \in A => k \in A
  PROVE  \A k \in 0 .. n : k \in A
<1> SUFFICES ASSUME NEW x \in 0 .. n, x \notin A PROVE FALSE
  OBVIOUS
<1> DEFINE Bad == {k \in 0 .. n : k \notin A}
<1>1. Bad \subseteq 0 .. n /\ x \in Bad
  OBVIOUS
<1>2. \A k \in Bad : k \in 0 .. n /\ k \notin A
  OBVIOUS
<1>3. \A k \in 0 .. n : k \in Bad \/ k \in A
  OBVIOUS
<1> HIDE DEF Bad
<1>4. Bad \subseteq Nat /\ Bad # {}
  BY <1>1
<1>5. PICK m \in Bad : \A k \in Bad : m <= k
  BY <1>4, NatMin
<1>6. m \in 1 .. n
  BY <1>2, <1>5
<1>7. m - 1 \in 0 .. n /\ ~(m <= m - 1)
  BY <1>6
<1>8. m - 1 \notin Bad
  BY <1>5, <1>7
<1>9. m - 1 \in A
  BY <1>3, <1>7, <1>8
<1>10. QED
  BY <1>2, <1>5, <1>6, <1>9

\* f starts at x and each value follows from the one before by H.
Iterates(f, n, x, H) == f = [k \in 0 .. n |-> IF k = 0 THEN x ELSE H[f[k - 1]]]

\* A function can be iterated any number of times.
LEMMA IterateExists ==
  ASSUME NEW X, NEW x \in X, NEW H \in [X -> X], NEW n \in Nat
  PROVE  \E f \in [0 .. n -> X] : Iterates(f, n, x, H)
<1> DEFINE A == {k \in 0 .. n : \E f \in [0 .. k -> X] : Iterates(f, k, x, H)}
<1>1. 0 \in A
  <2> DEFINE f == [i \in 0 .. 0 |-> x]
  <2>1. f \in [0 .. 0 -> X] /\ 0 \in 0 .. n
    OBVIOUS
  <2>2. \A i \in 0 .. 0 : i = 0
    OBVIOUS
  <2>3. f = [i \in 0 .. 0 |-> IF i = 0 THEN x ELSE H[f[i - 1]]]
    BY <2>2
  <2>4. Iterates(f, 0, x, H)
    BY <2>3 DEF Iterates
  <2> HIDE DEF f
  <2>5. QED
    BY <2>1, <2>4
<1>2. ASSUME NEW k \in 1 .. n, k - 1 \in A PROVE k \in A
  <2>1. PICK g \in [0 .. k - 1 -> X] : Iterates(g, k - 1, x, H)
    BY <1>2
  <2>2. \A i \in 0 .. k - 1 : g[i] = IF i = 0 THEN x ELSE H[g[i - 1]]
    <3>1. g = [i \in 0 .. k - 1 |-> IF i = 0 THEN x ELSE H[g[i - 1]]]
      BY <2>1 DEF Iterates
    <3>2. QED
      BY <3>1
  <2> DEFINE f == [i \in 0 .. k |-> IF i = k THEN H[g[k - 1]] ELSE g[i]]
  <2>3. k - 1 \in 0 .. k - 1 /\ \A i \in 0 .. k : i # k => i \in 0 .. k - 1
    OBVIOUS
  <2>4. f \in [0 .. k -> X]
    BY <2>3
  <2>5. ASSUME NEW i \in 0 .. k PROVE f[i] = IF i = 0 THEN x ELSE H[f[i - 1]]
    <3>1. CASE i = k
      <4>1. f[k] = H[g[k - 1]] /\ f[k - 1] = g[k - 1] /\ k # 0
        BY <2>3
      <4> HIDE DEF f
      <4>2. QED
        BY <3>1, <4>1
    <3>2. CASE i # k
      <4>1. i \in 0 .. k - 1 /\ (i # 0 => i - 1 \in 0 .. k /\ i - 1 # k)
        BY <3>2
      <4>2. f[i] = g[i] /\ (i # 0 => f[i - 1] = g[i - 1])
        BY <3>2, <4>1
      <4> HIDE DEF f
      <4>3. QED
        BY <2>2, <4>1, <4>2
    <3>3. QED
      BY <3>1, <3>2
  <2> HIDE DEF f
  <2>6. f = [i \in 0 .. k |-> IF i = 0 THEN x ELSE H[f[i - 1]]]
    BY <2>4, <2>5
  <2>7. Iterates(f, k, x, H) /\ k \in 0 .. n
    BY <2>6 DEF Iterates
  <2>8. QED
    BY <2>4, <2>7
<1>3. n \in 0 .. n
  OBVIOUS
<1>4. \A k \in 0 .. n : k \in A
  <2> HIDE DEF A
  <2>1. QED
    BY <1>1, <1>2, UpInduction
<1>5. n \in A
  BY <1>3, <1>4
<1>6. QED
  BY <1>5

\* A set of numbers up to n that has one has a least and a greatest one.
LEMMA MinMax ==
  ASSUME NEW n \in Nat, NEW X \in SUBSET (0 .. n), X # {}
  PROVE  Min(X) \in X /\ Max(X) \in X /\ (\A x \in X : Min(X) <= x) /\ (\A x \in X : x <= Max(X))
<1>1. X \subseteq Nat /\ X \subseteq Int
  OBVIOUS
<1>2. PICK m \in X : \A x \in X : m <= x
  BY <1>1, NatMin
<1>3. Min(X) = m
  BY <1>1, <1>2, LeastIs
<1> DEFINE Y == {y \in 0 .. n : n - y \in X}
<1>4. Y \subseteq 0 .. n /\ (\A y \in Y : n - y \in X) /\ (\A x \in X : n - x \in Y)
  <2>1. \A x \in X : x \in 0 .. n /\ n - x \in 0 .. n /\ n - (n - x) = x
    OBVIOUS
  <2>2. QED
    BY <2>1
<1> HIDE DEF Y
<1>5. Y \subseteq Nat /\ Y # {}
  BY <1>4
<1>6. PICK b \in Y : \A y \in Y : b <= y
  BY <1>5, NatMin
<1>7. n - b \in X /\ b \in 0 .. n
  BY <1>4, <1>6
<1>8. ASSUME NEW x \in X PROVE n - b >= x
  <2>1. b <= n - x /\ x \in 0 .. n
    BY <1>4, <1>6
  <2>2. QED
    BY <1>7, <2>1
<1>9. Max(X) = n - b
  <2> DEFINE c == n - b
  <2>1. c \in X /\ \A x \in X : c >= x
    BY <1>7, <1>8
  <2> HIDE DEF c
  <2>2. Max(X) = c
    BY <1>1, <2>1, GreatestIs
  <2>3. QED
    BY <2>2 DEF c
<1>10. ASSUME NEW x \in X PROVE x <= Max(X)
  <2>1. x \in Int /\ n - b >= x /\ n - b \in Int
    BY <1>7, <1>8
  <2>2. QED
    BY <1>9, <2>1
<1>11. QED
  BY <1>2, <1>3, <1>7, <1>9, <1>10

\* How many chunks of B elements N elements make.
Enough(n, N, B) == n \in Nat /\ N <= n * B /\ (n > 0 => (n - 1) * B < N) /\ (N = 0 <=> n = 0)

\* The number of chunks, rounded up.
LEMMA HowManyChunks ==
  ASSUME NEW N \in Nat, NEW B \in Nat, B >= 1, NEW n, n = (N + B - 1) \div B
  PROVE  Enough(n, N, B)
<1>1. n \in Int /\ n * B <= N + B - 1 /\ N + B - 1 < n * B + B
  OBVIOUS
<1>2. QED
  BY <1>1 DEF Enough

\* How many elements the first k chunks hold.
ChunkEnd(k, B, N) == IF k * B < N THEN k * B ELSE N

\* The k-th of n chunks.
ChunkSize(k, n, B, N) ==
    /\ k \in Nat /\ k >= 1 /\ ChunkEnd(k - 1, B, N) = (k - 1) * B /\ (k - 1) * B \in Nat
    /\ ChunkEnd(k, B, N) \in Nat /\ ChunkEnd(k, B, N) <= N
    /\ ChunkEnd(k, B, N) - (k - 1) * B \in 1 .. B
    /\ k * B \in Nat

\* Each chunk has at least one element and at most B.
LEMMA ChunkSizes ==
  ASSUME NEW N \in Nat, NEW B \in Nat, B >= 1, NEW n, n = (N + B - 1) \div B, NEW k \in 1 .. n
  PROVE  ChunkSize(k, n, B, N)
<1>1. n \in Nat /\ N <= n * B /\ (n > 0 => (n - 1) * B < N)
  BY HowManyChunks DEF Enough
<1>2. k \in Nat /\ k >= 1 /\ k <= n /\ n > 0
  BY <1>1
<1>3. (k - 1) * B \in Nat /\ k * B \in Nat /\ k * B = (k - 1) * B + B
  BY <1>2
<1>4. (k - 1) * B <= (n - 1) * B
  <2>1. k - 1 \in Nat /\ n - 1 \in Nat /\ k - 1 <= n - 1
    BY <1>1, <1>2
  <2> DEFINE a == k - 1
             b == n - 1
  <2> HIDE DEF a, b
  <2>2. a * B <= b * B
    BY <2>1 DEF a, b
  <2>3. QED
    BY <2>2 DEF a, b
<1>5. (k - 1) * B < N
  <2>1. (n - 1) * B \in Int
    BY <1>1
  <2>2. QED
    BY <1>1, <1>2, <1>3, <1>4, <2>1
<1>6. ChunkEnd(k - 1, B, N) = (k - 1) * B
  BY <1>5 DEF ChunkEnd
<1>7. ChunkEnd(k, B, N) \in Nat /\ ChunkEnd(k, B, N) <= N /\ ChunkEnd(k, B, N) - (k - 1) * B \in 1 .. B
  <2>1. CASE k * B < N
    BY <1>3, <2>1 DEF ChunkEnd
  <2>2. CASE ~(k * B < N)
    <3> DEFINE x == (k - 1) * B
    <3>1. x \in Nat /\ x < N /\ N <= x + B
      BY <1>3, <1>5, <2>2
    <3> HIDE DEF x
    <3>2. N - x \in 1 .. B
      BY <3>1
    <3>3. QED
      BY <2>2, <3>2 DEF ChunkEnd, x
  <2>3. QED
    BY <2>1, <2>2
<1>8. QED
  BY <1>2, <1>3, <1>6, <1>7 DEF ChunkSize

-----------------------------------------------------------------------------
(* Sequences with a part replaced *)

\* The sequence a with b in the place of its entries from j + 1 to k.
Splice(a, j, k, b) ==
    [i \in 1 .. j + Len(b) + (Len(a) - k) |->
        IF i <= j THEN a[i] ELSE IF i <= j + Len(b) THEN b[i - j] ELSE a[i - j - Len(b) + k]]

\* The same, as what is known of the sequence r.
Spliced(r, a, j, k, b) ==
    /\ Len(r) = j + Len(b) + (Len(a) - k)
    /\ \A i \in 1 .. j : r[i] = a[i]
    /\ \A i \in 1 .. Len(b) : r[j + i] = b[i]
    /\ \A i \in k + 1 .. Len(a) : r[j + Len(b) + i - k] = a[i]

\* A splice is a sequence, and has the entries it should.
LEMMA SpliceType ==
  ASSUME NEW S, NEW a \in Seq(S), NEW b \in Seq(S), NEW j \in Nat, NEW k \in Nat,
         j <= k, k <= Len(a)
  PROVE  Splice(a, j, k, b) \in Seq(S) /\ Spliced(Splice(a, j, k, b), a, j, k, b)
<1> DEFINE n == j + Len(b) + (Len(a) - k)
<1>1. n \in Nat /\ Len(a) \in Nat /\ Len(b) \in Nat
  OBVIOUS
<1>2. \A i \in 1 .. n : Splice(a, j, k, b)[i] \in S
  BY <1>1 DEF Splice
<1>3. Splice(a, j, k, b) \in [1 .. n -> S]
  BY <1>1, <1>2 DEF Splice
<1>4. Splice(a, j, k, b) \in Seq(S) /\ Len(Splice(a, j, k, b)) = n
  BY <1>1, <1>3, FunctionIsSequence
<1>5. \A i \in 1 .. j : Splice(a, j, k, b)[i] = a[i]
  BY <1>1 DEF Splice
<1>6. \A i \in 1 .. Len(b) : Splice(a, j, k, b)[j + i] = b[i]
  BY <1>1 DEF Splice
<1>7. \A i \in k + 1 .. Len(a) : Splice(a, j, k, b)[j + Len(b) + i - k] = a[i]
  BY <1>1 DEF Splice
<1> QED
  BY <1>4, <1>5, <1>6, <1>7 DEF Spliced

\* The entries of s after the first k.
Rest(s, k) == SubSeq(s, k + 1, Len(s))

\* What the rest of a sequence is.
LEMMA RestType ==
  ASSUME NEW T, NEW s \in Seq(T), NEW k \in 0 .. Len(s)
  PROVE  /\ Rest(s, k) \in Seq(T) /\ Len(Rest(s, k)) = Len(s) - k
         /\ \A i \in 1 .. Len(s) - k : Rest(s, k)[i] = s[k + i]
<1>1. Len(s) \in Nat /\ k \in Nat /\ k <= Len(s)
  OBVIOUS
<1>2. \A i \in k + 1 .. Len(s) : s[i] \in T
  BY <1>1
<1>3. Rest(s, k) \in Seq(T) /\ Len(Rest(s, k)) = IF k + 1 <= Len(s) THEN Len(s) - (k + 1) + 1 ELSE 0
  BY <1>1, <1>2, SubSeqProperties DEF Rest
<1>4. Len(Rest(s, k)) = Len(s) - k
  BY <1>1, <1>3
<1>5. \A i \in 1 .. Len(s) - k : Rest(s, k)[i] = s[k + i]
  BY <1>1 DEF Rest
<1>6. QED
  BY <1>3, <1>4, <1>5

\* From the entry a + 1 of s on there is c.
SameFrom(s, a, c) == \A i \in 1 .. Len(c) : s[a + i] = c[i]

\* The rest from a on begins with what is there.
LEMMA RestConcat ==
  ASSUME NEW T, NEW s \in Seq(T), NEW a \in 0 .. Len(s), NEW b \in 0 .. Len(s),
         NEW c \in Seq(T), b = a + Len(c), SameFrom(s, a, c)
  PROVE  Rest(s, a) = c \o Rest(s, b)
<1> DEFINE x == Rest(s, a)
           z == Rest(s, b)
           y == c \o z
<1>1. Len(s) \in Nat /\ Len(c) \in Nat /\ a \in Nat /\ b \in Nat
  OBVIOUS
<1>2. /\ x \in Seq(T) /\ Len(x) = Len(s) - a
      /\ \A i \in 1 .. Len(s) - a : x[i] = s[a + i]
  BY RestType
<1>3. /\ z \in Seq(T) /\ Len(z) = Len(s) - b
      /\ \A i \in 1 .. Len(s) - b : z[i] = s[b + i]
  BY RestType
<1> HIDE DEF x, z
<1>4. /\ y \in Seq(T) /\ Len(y) = Len(c) + Len(z)
      /\ \A i \in 1 .. Len(c) + Len(z) : y[i] = IF i <= Len(c) THEN c[i] ELSE z[i - Len(c)]
  BY <1>3, ConcatProperties
<1> HIDE DEF y
<1>5. Len(x) = Len(y)
  BY <1>1, <1>2, <1>3, <1>4
<1>6. ASSUME NEW i \in 1 .. Len(x) PROVE x[i] = y[i]
  <2>1. i \in Nat /\ i \in 1 .. Len(s) - a /\ i \in 1 .. Len(c) + Len(z)
    BY <1>2, <1>4, <1>5
  <2>2. CASE i <= Len(c)
    <3>1. i \in 1 .. Len(c)
      BY <2>1, <2>2
    <3>2. QED
      BY <2>1, <2>2, <3>1, <1>2, <1>4 DEF SameFrom
  <2>3. CASE ~(i <= Len(c))
    <3>1. i - Len(c) \in 1 .. Len(s) - b /\ b + (i - Len(c)) = a + i
      BY <2>1, <2>3, <1>1
    <3>2. z[i - Len(c)] = s[b + (i - Len(c))]
      BY <3>1, <1>3
    <3>3. QED
      BY <2>1, <2>3, <3>1, <3>2, <1>2, <1>4
  <2>4. QED
    BY <2>2, <2>3
<1>7. x = y
  BY <1>2, <1>4, <1>5, <1>6, SeqEqual
<1>8. QED
  BY <1>7 DEF x, y, z

\* The rest from the beginning on, and that from the end on.
LEMMA RestEnds ==
  ASSUME NEW T, NEW s \in Seq(T)
  PROVE  Rest(s, 0) = s /\ Rest(s, Len(s)) = <<>>
<1>1. Len(s) \in Nat /\ 0 \in 0 .. Len(s) /\ Len(s) \in 0 .. Len(s)
  OBVIOUS
<1>2. /\ Rest(s, 0) \in Seq(T) /\ Len(Rest(s, 0)) = Len(s) - 0
      /\ \A i \in 1 .. Len(s) - 0 : Rest(s, 0)[i] = s[0 + i]
  BY <1>1, RestType
<1>3. Rest(s, Len(s)) \in Seq(T) /\ Len(Rest(s, Len(s))) = Len(s) - Len(s)
  BY <1>1, RestType
<1> DEFINE x == Rest(s, 0)
           y == Rest(s, Len(s))
<1> HIDE DEF x, y
<1>4. Len(x) = Len(s) /\ \A i \in 1 .. Len(s) : x[i] = s[i]
  BY <1>1, <1>2 DEF x
<1>5. x = s
  BY <1>2, <1>4, SeqEqual DEF x
<1>6. Len(y) = 0
  BY <1>1, <1>3 DEF y
<1>7. y = <<>>
  BY <1>3, <1>6, EmptySeq DEF y
<1>8. QED
  BY <1>5, <1>7 DEF x, y

\* A sequence that is spliced is the splice.
LEMMA SpliceOnly ==
  ASSUME NEW T, NEW a \in Seq(T), NEW b \in Seq(T), NEW j \in Nat, NEW k \in Nat, j <= k, k <= Len(a),
         NEW r \in Seq(T), Spliced(r, a, j, k, b)
  PROVE  r = Splice(a, j, k, b)
<1> DEFINE y == Splice(a, j, k, b)
<1>1. y \in Seq(T) /\ Spliced(y, a, j, k, b)
  BY SpliceType
<1> HIDE DEF y
<1> DEFINE q == Len(b)
           n == Len(a)
           N == j + q + (n - k)
<1>2. q \in Nat /\ n \in Nat /\ N \in Nat /\ k <= n
  OBVIOUS
<1>3. Len(r) = N /\ Len(y) = N
  BY <1>1 DEF Spliced
<1>4. ASSUME NEW i \in 1 .. N PROVE r[i] = y[i]
  <2>1. CASE i \in 1 .. j
    BY <1>1, <2>1 DEF Spliced
  <2>2. CASE i \in j + 1 .. j + q
    <3> DEFINE x == i - j
    <3>1. x \in 1 .. q /\ j + x = i
      BY <2>2, <1>2
    <3> HIDE DEF x
    <3>2. r[j + x] = b[x] /\ y[j + x] = b[x]
      BY <1>1, <3>1 DEF Spliced
    <3>3. QED
      BY <3>1, <3>2
  <2>3. CASE i \in j + q + 1 .. N
    <3> DEFINE x == (i - j - q) + k
    <3>0. /\ (i - j - q) + k >= k + 1
          /\ (i - j - q) + k <= n
      <4> HIDE DEF q, n
      <4>1. QED
        BY <2>3, <1>2
    <3>1. x \in k + 1 .. n /\ j + q + x - k = i
      BY <3>0, <2>3, <1>2
    <3> HIDE DEF x
    <3>2. r[j + q + x - k] = a[x] /\ y[j + q + x - k] = a[x]
      BY <1>1, <3>1 DEF Spliced
    <3>3. QED
      BY <3>1, <3>2
  <2>4. QED
    BY <2>1, <2>2, <2>3, <1>2
<1> HIDE DEF N
<1>5. r = y
  BY <1>1, <1>2, <1>3, <1>4, SeqEqual
<1>6. QED
  BY <1>5 DEF y

\* A splice within a part of a sequence is one of the sequence.
LEMMA SpliceWithin ==
  ASSUME NEW T, NEW s \in Seq(T), NEW p \in Nat, NEW q \in Nat, p <= q, q <= Len(s),
         NEW c \in Seq(T), q = p + Len(c), SameFrom(s, p, c),
         NEW a \in Nat, NEW b \in Nat, a <= b, b <= Len(c), NEW x \in Seq(T)
  PROVE  Splice(s, p, q, Splice(c, a, b, x)) = Splice(s, p + a, p + b, x)
<1> DEFINE r == Splice(c, a, b, x)
           y == Splice(s, p, q, r)
           n == Len(s)
           m == Len(c)
           z == Len(x)
           t == Len(r)
<1>1. r \in Seq(T) /\ Spliced(r, c, a, b, x)
  BY SpliceType
<1> HIDE DEF r
<1>2. y \in Seq(T) /\ Spliced(y, s, p, q, r)
  BY <1>1, SpliceType
<1> HIDE DEF y
<1>3. n \in Nat /\ m \in Nat /\ z \in Nat /\ t \in Nat
  BY <1>1
<1>4. t = a + z + (m - b) /\ q = p + m /\ q <= n /\ b <= m
  BY <1>1 DEF Spliced
<1>5. Len(y) = p + t + (n - q)
  BY <1>2 DEF Spliced
<1>6. /\ \A i \in 1 .. a : r[i] = c[i]
      /\ \A i \in 1 .. z : r[a + i] = x[i]
      /\ \A i \in b + 1 .. m : r[a + z + i - b] = c[i]
  BY <1>1 DEF Spliced
<1>7. /\ \A i \in 1 .. p : y[i] = s[i]
      /\ \A i \in 1 .. t : y[p + i] = r[i]
      /\ \A i \in q + 1 .. n : y[p + t + i - q] = s[i]
  BY <1>2 DEF Spliced
<1>8. \A i \in 1 .. m : s[p + i] = c[i]
  BY DEF SameFrom
<1> HIDE DEF n, m, z, t
<1>9. Len(y) = (p + a) + z + (n - (p + b))
  BY <1>3, <1>4, <1>5
<1>10. ASSUME NEW i \in 1 .. p + a PROVE y[i] = s[i]
  <2>1. CASE i <= p
    BY <1>7, <2>1
  <2>2. CASE i > p
    <3> DEFINE d == i - p
    <3>1. d \in 1 .. a /\ d \in 1 .. t /\ d \in 1 .. m /\ p + d = i
      BY <1>3, <1>4, <2>2
    <3> HIDE DEF d
    <3>2. QED
      BY <3>1, <1>6, <1>7, <1>8
  <2>3. QED
    BY <2>1, <2>2
<1>11. ASSUME NEW i \in 1 .. z PROVE y[(p + a) + i] = x[i]
  <2>1. a + i \in 1 .. t /\ p + (a + i) = (p + a) + i
    BY <1>3, <1>4
  <2>2. y[p + (a + i)] = r[a + i]
    BY <2>1, <1>7
  <2>3. QED
    BY <2>1, <2>2, <1>6
<1>12. ASSUME NEW i \in (p + b) + 1 .. n PROVE y[(p + a) + z + i - (p + b)] = s[i]
  <2>1. CASE i <= q
    <3> DEFINE d == i - p
               e == a + z + d - b
    <3>1. d \in b + 1 .. m /\ d \in 1 .. m /\ p + d = i
      BY <1>3, <1>4, <2>1
    <3>2. e \in 1 .. t /\ p + e = (p + a) + z + i - (p + b)
      BY <1>3, <1>4, <2>1, <3>1
    <3> HIDE DEF d
    <3>3. r[e] = c[d] /\ s[p + d] = c[d]
      BY <3>1, <1>6, <1>8
    <3> HIDE DEF e
    <3>4. y[p + e] = r[e]
      BY <3>2, <1>7
    <3>5. QED
      BY <3>1, <3>2, <3>3, <3>4
  <2>2. CASE i > q
    <3> HIDE DEF n, m, z, t
    <3>1. i \in q + 1 .. n
      BY <2>2, <1>3, <1>4
    <3>2. p + t + i - q = (p + a) + z + i - (p + b)
      <4>1. t - m = a + z - b
        BY <1>3, <1>4
      <4>2. p + t + i - q = t - m + i
        BY <3>1, <1>3, <1>4
      <4>3. (p + a) + z + i - (p + b) = a + z - b + i
        BY <3>1, <1>3
      <4>4. QED
        BY <4>1, <4>2, <4>3
    <3>3. y[p + t + i - q] = s[i]
      BY <3>1, <1>7
    <3>4. QED
      BY <3>2, <3>3
  <2>3. i \in Int /\ q \in Int
    BY <1>3
  <2>4. QED
    BY <2>1, <2>2, <2>3
<1>13. Spliced(y, s, p + a, p + b, x)
  BY <1>9, <1>10, <1>11, <1>12 DEF Spliced, n, z
<1>14. p + a \in Nat /\ p + b \in Nat /\ p + a <= p + b /\ p + b <= Len(s)
  BY <1>3, <1>4 DEF n
<1>15. QED
  BY <1>2, <1>13, <1>14, SpliceOnly DEF y, r

\* The sequence operators, as splices.
LEMMA ConcatSplices ==
  ASSUME NEW T, NEW s \in Seq(T), NEW j \in Nat, NEW k \in Nat, j <= k, k <= Len(s), NEW b \in Seq(T)
  PROVE  (SubSeq(s, 1, j) \o b) \o SubSeq(s, k + 1, Len(s)) = Splice(s, j, k, b)
<1> DEFINE x == SubSeq(s, 1, j)
           z == Rest(s, k)
           u == x \o b
           r == u \o z
           n == Len(s)
           q == Len(b)
<1>1. n \in Nat /\ q \in Nat /\ k <= n
  OBVIOUS
<1>2. z \in Seq(T) /\ Len(z) = n - k /\ \A i \in 1 .. n - k : z[i] = s[k + i]
  BY <1>1, RestType
<1>3. x \in Seq(T) /\ Len(x) = j /\ \A i \in 1 .. j : x[i] = s[i]
  <2>1. \A i \in 1 .. j : s[i] \in T
    BY <1>1
  <2>2. x \in Seq(T) /\ Len(x) = IF 1 <= j THEN j - 1 + 1 ELSE 0
    BY <2>1, SubSeqProperties
  <2>3. \A i \in 1 .. j : x[i] = s[i]
    OBVIOUS
  <2>4. QED
    BY <2>2, <2>3
<1> HIDE DEF x, z
<1>4. /\ u \in Seq(T) /\ Len(u) = j + q
      /\ \A i \in 1 .. j : u[i] = x[i]
      /\ \A i \in 1 .. q : u[j + i] = b[i]
  <2>1. u \in Seq(T) /\ Len(u) = j + q
    BY <1>1, <1>3, ConcatProperties
  <2>2. \A i \in 1 .. j : u[i] = x[i]
    BY <1>1, <1>3
  <2>3. ASSUME NEW i \in 1 .. q PROVE u[j + i] = b[i]
    <3>1. j + i \in 1 .. Len(x) + q /\ j + i > Len(x) /\ (j + i) - Len(x) = i
      BY <1>1, <1>3
    <3>2. QED
      BY <1>1, <1>3, <3>1
  <2>4. QED
    BY <2>1, <2>2, <2>3
<1> HIDE DEF u
<1>5. r \in Seq(T) /\ Len(r) = (j + q) + (n - k)
  BY <1>1, <1>2, <1>4, ConcatProperties
<1>6. ASSUME NEW i \in 1 .. j + q PROVE r[i] = u[i]
  BY <1>1, <1>2, <1>4
<1>7. ASSUME NEW i \in 1 .. n - k PROVE r[(j + q) + i] = z[i]
  <2> DEFINE v == j + q
  <2>1. v \in Nat /\ Len(u) = v
    BY <1>1, <1>4
  <2> HIDE DEF v
  <2>2. v + i \in 1 .. Len(u) + Len(z) /\ v + i > Len(u) /\ (v + i) - Len(u) = i
    BY <1>1, <1>2, <2>1
  <2>3. r[v + i] = z[i]
    BY <1>2, <1>4, <2>2, SMTT(20)
  <2>4. QED
    BY <2>3 DEF v
<1> HIDE DEF r
<1>8. \A i \in 1 .. j : r[i] = s[i]
  <2>1. \A i \in 1 .. j : i \in 1 .. j + q
    BY <1>1
  <2>2. QED
    BY <2>1, <1>3, <1>4, <1>6
<1>9. \A i \in 1 .. q : r[j + i] = b[i]
  <2>1. \A i \in 1 .. q : j + i \in 1 .. j + q
    BY <1>1
  <2>2. QED
    BY <2>1, <1>4, <1>6
<1>10. ASSUME NEW i \in k + 1 .. n PROVE r[j + q + i - k] = s[i]
  <2>1. i - k \in 1 .. n - k /\ k + (i - k) = i /\ (j + q) + (i - k) = j + q + i - k
    BY <1>1
  <2>2. r[(j + q) + (i - k)] = z[i - k] /\ z[i - k] = s[k + (i - k)]
    BY <2>1, <1>2, <1>7
  <2>3. QED
    BY <2>1, <2>2
<1>11. Spliced(r, s, j, k, b)
  BY <1>5, <1>8, <1>9, <1>10 DEF Spliced
<1>12. QED
  BY <1>1, <1>5, <1>11, SpliceOnly DEF r, u, x, z, Rest

\* To leave entries out is to put nothing in their place.
LEMMA DeleteSplices ==
  ASSUME NEW T, NEW s \in Seq(T), NEW j \in Nat, NEW k \in Nat, j <= k, k <= Len(s)
  PROVE  SubSeq(s, 1, j) \o SubSeq(s, k + 1, Len(s)) = Splice(s, j, k, <<>>)
<1>1. SubSeq(s, 1, j) \in Seq(T)
  <2>1. \A i \in 1 .. j : s[i] \in T
    OBVIOUS
  <2>2. QED
    BY <2>1, SubSeqProperties
<1>2. SubSeq(s, 1, j) \o <<>> = SubSeq(s, 1, j)
  BY <1>1, ConcatEmptySeq
<1>3. <<>> \in Seq(T)
  BY EmptySeq
<1>4. (SubSeq(s, 1, j) \o <<>>) \o SubSeq(s, k + 1, Len(s)) = Splice(s, j, k, <<>>)
  BY <1>3, ConcatSplices
<1>5. QED
  BY <1>2, <1>4

\* The first j entries.
LEMMA FrontSplices ==
  ASSUME NEW T, NEW s \in Seq(T), NEW j \in Nat, j <= Len(s)
  PROVE  SubSeq(s, 1, j) = Splice(s, j, Len(s), <<>>) /\ SubSeq(s, 1, j) \in Seq(T)
         /\ Len(SubSeq(s, 1, j)) = j /\ \A i \in 1 .. j : SubSeq(s, 1, j)[i] = s[i]
<1> DEFINE r == SubSeq(s, 1, j)
           n == Len(s)
<1>1. n \in Nat
  OBVIOUS
<1>2. r \in Seq(T) /\ Len(r) = j /\ \A i \in 1 .. j : r[i] = s[i]
  <2>1. \A i \in 1 .. j : s[i] \in T
    OBVIOUS
  <2>2. r \in Seq(T) /\ Len(r) = IF 1 <= j THEN j - 1 + 1 ELSE 0
    BY <2>1, SubSeqProperties
  <2>3. \A i \in 1 .. j : r[i] = s[i]
    OBVIOUS
  <2>4. QED
    BY <2>2, <2>3
<1>3. Spliced(r, s, j, n, <<>>)
  <2>1. Len(<<>>) = 0
    OBVIOUS
  <2>2. QED
    BY <1>1, <1>2, <2>1 DEF Spliced
<1>4. <<>> \in Seq(T)
  BY EmptySeq
<1>5. r = Splice(s, j, n, <<>>)
  <2> HIDE DEF r
  <2>1. n <= Len(s) /\ j <= n
    BY <1>1
  <2>2. QED
    BY <1>1, <1>2, <1>3, <1>4, <2>1, SpliceOnly
<1>6. QED
  BY <1>2, <1>5

\* To insert an entry is to put it in the place of none.
LEMMA InsertSplices ==
  ASSUME NEW T, NEW s \in Seq(T), NEW i \in 1 .. Len(s) + 1, NEW v \in T
  PROVE  InsertAt(s, i, v) = Splice(s, i - 1, i - 1, <<v>>)
<1>1. i - 1 \in Nat /\ i - 1 <= Len(s) /\ (i - 1) + 1 = i /\ <<v>> \in Seq(T)
  OBVIOUS
<1>2. (SubSeq(s, 1, i - 1) \o <<v>>) \o SubSeq(s, (i - 1) + 1, Len(s)) = Splice(s, i - 1, i - 1, <<v>>)
  <2> DEFINE j == i - 1
             b == <<v>>
  <2>1. j \in Nat /\ j <= j /\ j <= Len(s) /\ b \in Seq(T)
    BY <1>1
  <2> HIDE DEF j, b
  <2>2. (SubSeq(s, 1, j) \o b) \o SubSeq(s, j + 1, Len(s)) = Splice(s, j, j, b)
    BY <2>1, ConcatSplices
  <2>3. QED
    BY <2>2 DEF j, b
<1>3. QED
  BY <1>1, <1>2 DEF InsertAt

\* To remove an entry is to put nothing in its place.
LEMMA RemoveSplices ==
  ASSUME NEW T, NEW s \in Seq(T), NEW i \in 1 .. Len(s)
  PROVE  RemoveAt(s, i) = Splice(s, i - 1, i, <<>>)
<1>1. i - 1 \in Nat /\ i - 1 <= i /\ i \in Nat /\ i <= Len(s)
  OBVIOUS
<1>2. SubSeq(s, 1, i - 1) \o SubSeq(s, i + 1, Len(s)) = Splice(s, i - 1, i, <<>>)
  BY <1>1, DeleteSplices
<1>3. QED
  BY <1>2 DEF RemoveAt

\* To change an entry is to put another one in its place.
LEMMA ExceptSplices ==
  ASSUME NEW T, NEW s \in Seq(T), NEW i \in 1 .. Len(s), NEW v \in T
  PROVE  [s EXCEPT ![i] = v] = Splice(s, i - 1, i, <<v>>) /\ [s EXCEPT ![i] = v] \in Seq(T)
         /\ Len([s EXCEPT ![i] = v]) = Len(s)
<1> DEFINE r == [s EXCEPT ![i] = v]
           b == <<v>>
           n == Len(s)
<1>1. r \in Seq(T) /\ Len(r) = n
  BY ExceptSeq
<1>2. n \in Nat /\ DOMAIN s = 1 .. n /\ i \in 1 .. n
  BY LenProperties
<1>3. \A k \in 1 .. n : r[k] = IF k = i THEN v ELSE s[k]
  BY <1>2
<1>4. Len(b) = 1 /\ b[1] = v /\ b \in Seq(T)
  OBVIOUS
<1> HIDE DEF r, b
<1>5. Len(r) = (i - 1) + Len(b) + (n - i)
  BY <1>1, <1>2, <1>4
<1>6. \A k \in 1 .. i - 1 : r[k] = s[k]
  BY <1>2, <1>3
<1>7. \A k \in 1 .. Len(b) : r[(i - 1) + k] = b[k]
  BY <1>2, <1>3, <1>4
<1>8. \A k \in i + 1 .. n : r[(i - 1) + Len(b) + k - i] = s[k]
  <2> SUFFICES ASSUME NEW k \in i + 1 .. n PROVE r[(i - 1) + Len(b) + k - i] = s[k]
    OBVIOUS
  <2>1. (i - 1) + Len(b) + k - i = k /\ k \in 1 .. n /\ k # i
    BY <1>2, <1>4
  <2>2. QED
    BY <1>3, <2>1
<1>9. Spliced(r, s, i - 1, i, b)
  BY <1>5, <1>6, <1>7, <1>8 DEF Spliced
<1>10. i - 1 \in Nat /\ i \in Nat /\ i - 1 <= i /\ i <= n
  BY <1>2
<1>11. r = Splice(s, i - 1, i, b)
  BY <1>1, <1>4, <1>9, <1>10, SpliceOnly
<1>12. QED
  BY <1>1, <1>11 DEF r, b

\* To join two sequences is to put the second one behind the last entry.
LEMMA JoinSplices ==
  ASSUME NEW T, NEW s \in Seq(T), NEW t \in Seq(T)
  PROVE  s \o t = Splice(s, Len(s), Len(s), t)
<1> DEFINE r == s \o t
           n == Len(s)
<1>1. r \in Seq(T) /\ Len(r) = n + Len(t)
  BY ConcatProperties
<1>2. n \in Nat /\ Len(t) \in Nat
  OBVIOUS
<1>3. \A i \in 1 .. n : r[i] = s[i]
  OBVIOUS
<1>4. ASSUME NEW i \in 1 .. Len(t) PROVE r[n + i] = t[i]
  <2>1. n + i \in 1 .. Len(s) + Len(t) /\ n + i > Len(s) /\ (n + i) - Len(s) = i
    BY <1>2
  <2>2. QED
    BY <2>1
<1> HIDE DEF r
<1>5. Spliced(r, s, n, n, t)
  BY <1>1, <1>2, <1>3, <1>4 DEF Spliced
<1>6. QED
  <2>1. n \in Nat /\ n <= n /\ n <= Len(s)
    BY <1>2
  <2>2. r = Splice(s, n, n, t)
    BY <1>1, <1>5, <2>1, SpliceOnly
  <2>3. QED
    BY <2>2 DEF r

\* The same for one entry.
LEMMA AppendSplices ==
  ASSUME NEW T, NEW s \in Seq(T), NEW v \in T
  PROVE  Append(s, v) = Splice(s, Len(s), Len(s), <<v>>) /\ Append(s, v) \in Seq(T)
         /\ Len(Append(s, v)) = Len(s) + 1
<1>1. Append(s, v) = s \o <<v>>
  BY AppendIsConcat
<1>2. <<v>> \in Seq(T)
  OBVIOUS
<1>3. s \o <<v>> = Splice(s, Len(s), Len(s), <<v>>)
  BY <1>2, JoinSplices
<1>4. Append(s, v) \in Seq(T) /\ Len(Append(s, v)) = Len(s) + 1
  BY AppendProperties
<1>5. QED
  BY <1>1, <1>3, <1>4

\* The last entry of s can go to the sequence that follows.
Rejoins(T, s) == \A d \in Seq(T) : Front(s) \o (<<Last(s)>> \o d) = s \o d

\* A sequence is its front and its last entry.
LEMMA FrontAndLast ==
  ASSUME NEW T, NEW s \in Seq(T), Len(s) >= 1
  PROVE  /\ Front(s) \in Seq(T) /\ Len(Front(s)) = Len(s) - 1 /\ Last(s) \in T
         /\ Front(s) \o <<Last(s)>> = s
         /\ Rejoins(T, s)
<1> DEFINE n == Len(s)
           f == Front(s)
           e == Last(s)
<1>1. n \in Nat /\ n - 1 \in Nat /\ n - 1 <= n /\ n \in 1 .. n
  OBVIOUS
<1>2. f \in Seq(T) /\ Len(f) = n - 1 /\ \A i \in 1 .. n - 1 : f[i] = s[i]
  BY <1>1, FrontSplices DEF Front
<1>3. e \in T /\ e = s[n] /\ <<e>> \in Seq(T)
  BY <1>1 DEF Last
<1> HIDE DEF f, e
<1>4. f \o <<e>> = s
  <2> DEFINE r == f \o <<e>>
  <2>1. r \in Seq(T) /\ Len(r) = (n - 1) + 1
    BY <1>1, <1>2, <1>3, ConcatProperties
  <2>2. ASSUME NEW i \in 1 .. n PROVE r[i] = s[i]
    <3>1. CASE i = n
      BY <3>1, <1>1, <1>2, <1>3
    <3>2. CASE i # n
      BY <3>2, <1>1, <1>2, <1>3
    <3>3. QED
      BY <3>1, <3>2
  <2> HIDE DEF r
  <2>3. Len(r) = Len(s)
    BY <1>1, <2>1
  <2>4. r = s
    BY <2>1, <2>2, <2>3, SeqEqual
  <2>5. QED
    BY <2>4 DEF r
<1>5. ASSUME NEW d \in Seq(T) PROVE f \o (<<e>> \o d) = s \o d
  <2>1. (f \o <<e>>) \o d = f \o (<<e>> \o d)
    <3>1. f \in Seq(T) /\ <<e>> \in Seq(T)
      BY <1>2, <1>3
    <3>2. QED
      BY <3>1, ConcatAssociative
  <2>2. QED
    BY <1>4, <2>1
<1>6. QED
  BY <1>2, <1>3, <1>4, <1>5 DEF f, e, Rejoins

\* What a splice puts back as it was.
LEMMA SpliceKeeps ==
  ASSUME NEW T, NEW s \in Seq(T), NEW p \in Nat, NEW q \in Nat, p <= q, NEW c \in Seq(T),
         NEW d \in Seq(T), q + Len(d) <= Len(s), SameFrom(s, q, d)
  PROVE  Splice(s, p, q + Len(d), c \o d) = Splice(s, p, q, c)
<1> DEFINE e == Len(d)
           x == Len(c)
           n == Len(s)
           t == c \o d
           y == Splice(s, p, q + e, t)
<1>1. e \in Nat /\ x \in Nat /\ n \in Nat /\ q + e \in Nat /\ p <= q + e /\ q + e <= n /\ q <= n
  OBVIOUS
<1>2. t \in Seq(T) /\ Len(t) = x + e
  BY ConcatProperties
<1>3. \A i \in 1 .. x : t[i] = c[i]
  OBVIOUS
<1>4. \A i \in 1 .. e : t[x + i] = d[i]
  <2> SUFFICES ASSUME NEW i \in 1 .. e PROVE t[x + i] = d[i]
    OBVIOUS
  <2>1. x + i \in 1 .. x + e /\ x + i > x /\ (x + i) - x = i
    BY <1>1
  <2>2. QED
    BY <2>1
<1> HIDE DEF t
<1>5. y \in Seq(T) /\ Spliced(y, s, p, q + e, t)
  BY <1>1, <1>2, SpliceType
<1> HIDE DEF y
<1>6. \A i \in 1 .. e : s[q + i] = d[i]
  BY DEF SameFrom
<1> HIDE DEF e, x, n
<1>7. /\ Len(y) = p + (x + e) + (n - (q + e))
      /\ \A i \in 1 .. p : y[i] = s[i]
      /\ \A i \in 1 .. x + e : y[p + i] = t[i]
      /\ \A i \in (q + e) + 1 .. n : y[p + (x + e) + i - (q + e)] = s[i]
  BY <1>2, <1>5 DEF Spliced, n
<1>8. Len(y) = p + x + (n - q)
  BY <1>1, <1>7
<1>9. ASSUME NEW i \in 1 .. x PROVE y[p + i] = c[i]
  <2>1. i \in 1 .. x + e
    BY <1>1
  <2>2. QED
    BY <1>3, <1>7, <2>1
<1>10. ASSUME NEW i \in q + 1 .. n PROVE y[p + x + i - q] = s[i]
  <2>1. CASE i <= q + e
    <3> DEFINE a == i - q
    <3>1. a \in 1 .. e /\ x + a \in 1 .. x + e /\ q + a = i /\ p + (x + a) = p + x + i - q
      BY <1>1, <2>1
    <3> HIDE DEF a
    <3>2. y[p + (x + a)] = t[x + a] /\ t[x + a] = d[a] /\ s[q + a] = d[a]
      BY <1>4, <1>6, <1>7, <3>1
    <3>3. QED
      BY <3>1, <3>2
  <2>2. CASE i > q + e
    <3>1. i \in (q + e) + 1 .. n /\ p + (x + e) + i - (q + e) = p + x + i - q
      BY <1>1, <2>2
    <3>2. QED
      BY <1>7, <3>1
  <2>3. QED
    BY <2>1, <2>2, <1>1
<1>11. Spliced(y, s, p, q, c)
  BY <1>7, <1>8, <1>9, <1>10 DEF Spliced, x, n
<1>12. QED
  BY <1>1, <1>5, <1>11, SpliceOnly DEF y, t, e, n

\* n entries after the first a of the rest of a sequence are a part of the sequence.
PartAt(s, o, a, n) == SubSeq(Rest(s, o), a + 1, a + n) = SubSeq(s, (o + a) + 1, (o + a) + n)

\* A part of the rest of a sequence is a part of the sequence.
LEMMA PartOfRest ==
  ASSUME NEW T, NEW s \in Seq(T), NEW o \in Nat, NEW a \in Nat, NEW n \in Nat, (o + a) + n <= Len(s)
  PROVE  PartAt(s, o, a, n)
<1> DEFINE Z == Len(s)
           r == Rest(s, o)
           t == o + a
           x == SubSeq(r, a + 1, a + n)
           y == SubSeq(s, t + 1, t + n)
<1>1. Z \in Nat /\ o \in 0 .. Z /\ t \in Nat /\ t + n <= Z /\ a + n \in Nat
  OBVIOUS
<1>2. r \in Seq(T) /\ Len(r) = Z - o /\ \A i \in 1 .. Z - o : r[i] = s[o + i]
  BY <1>1, RestType
<1> HIDE DEF r, Z, y
<1>3. a + n <= Z - o
  BY <1>1
<1> SUFFICES x = y
  BY DEF y, r, PartAt
<1>4. x = [i \in 1 .. (a + n) - (a + 1) + 1 |-> r[a + 1 + i - 1]]
  OBVIOUS
<1>5. y = [i \in 1 .. (t + n) - (t + 1) + 1 |-> s[t + 1 + i - 1]]
  BY DEF y
<1>6. (a + n) - (a + 1) + 1 = n /\ (t + n) - (t + 1) + 1 = n
  BY <1>1
<1>7. ASSUME NEW i \in 1 .. n PROVE r[a + 1 + i - 1] = s[t + 1 + i - 1]
  <2>1. a + 1 + i - 1 \in 1 .. Z - o /\ o + (a + 1 + i - 1) = t + 1 + i - 1
    BY <1>1, <1>3
  <2> HIDE DEF t
  <2>2. QED
    BY <1>2, <2>1
<1> HIDE DEF x, t
<1>8. QED
  BY <1>4, <1>5, <1>6, <1>7

\* What takes the place of the whole sequence.
LEMMA SpliceAll ==
  ASSUME NEW T, NEW s \in Seq(T), NEW x \in Seq(T)
  PROVE  Splice(s, 0, Len(s), x) = x
<1> DEFINE Z == Len(s)
           X == Len(x)
           r == Splice(s, 0, Z, x)
<1>1. Z \in Nat /\ X \in Nat
  OBVIOUS
<1>2. r = [i \in 1 .. 0 + X + (Z - Z) |->
        IF i <= 0 THEN s[i] ELSE IF i <= 0 + X THEN x[i - 0] ELSE s[i - 0 - X + Z]]
  BY DEF Splice
<1> HIDE DEF r, Z
<1>3. x = [i \in 1 .. X |-> x[i]]
  OBVIOUS
<1> HIDE DEF X
<1>4. 1 .. 0 + X + (Z - Z) = 1 .. X
  BY <1>1
<1>5. \A i \in 1 .. X : ~(i <= 0) /\ i <= 0 + X /\ i - 0 = i
  BY <1>1
<1>6. r = [i \in 1 .. X |-> x[i]]
  BY <1>2, <1>4, <1>5
<1>7. QED
  BY <1>3, <1>6 DEF r, Z

\* The entries of r are those of s from the last to the first.
Backward(r, s) == Len(r) = Len(s) /\ \A i \in 1 .. Len(s) : r[i] = s[Len(s) - i + 1]

\* What Reverse gives.
LEMMA ReverseIs ==
  ASSUME NEW T, NEW s \in Seq(T)
  PROVE  Reverse(s) \in Seq(T) /\ Backward(Reverse(s), s)
<1> DEFINE Z == Len(s)
<1>1. Z \in Nat
  OBVIOUS
<1>2. Reverse(s) = [i \in 1 .. Z |-> s[(Z - i) + 1]]
  BY DEF Reverse
<1> HIDE DEF Z
<1>3. ASSUME NEW i \in 1 .. Z PROVE (Z - i) + 1 \in 1 .. Z /\ (Z - i) + 1 = Z - i + 1
  BY <1>1
<1>4. \A i \in 1 .. Z : s[(Z - i) + 1] \in T
  BY <1>3, ElementOfSeq DEF Z
<1>5. Reverse(s) \in [1 .. Z -> T]
  BY <1>2, <1>4
<1>6. Reverse(s) \in Seq(T)
  BY <1>1, <1>5, FunctionIsSequence
<1>7. DOMAIN Reverse(s) = 1 .. Z
  BY <1>2
<1>8. Len(Reverse(s)) = Z
  BY <1>1, <1>6, <1>7, LenProperties
<1>9. \A i \in 1 .. Z : Reverse(s)[i] = s[Z - i + 1]
  BY <1>2, <1>3
<1>10. QED
  BY <1>6, <1>8, <1>9 DEF Backward, Z

\* bl_append leaves v behind the others: where it is also inserted.
LEMMA AppendInserts ==
  ASSUME NEW T, NEW s \in Seq(T), NEW v \in T
  PROVE  Append(s, v) = InsertAt(s, Len(s) + 1, v)
<1> DEFINE Z == Len(s)
           i == Z + 1
<1>1. Z \in Nat /\ i \in 1 .. Z + 1 /\ i - 1 = Z
  OBVIOUS
<1> HIDE DEF i
<1>2. InsertAt(s, i, v) = Splice(s, i - 1, i - 1, <<v>>)
  BY <1>1, InsertSplices
<1>3. Append(s, v) = Splice(s, Z, Z, <<v>>)
  BY AppendSplices
<1>4. QED
  BY <1>1, <1>2, <1>3 DEF i

\* What a splice puts back as it was, in front.
LEMMA SpliceKeepsFront ==
  ASSUME NEW T, NEW s \in Seq(T), NEW p \in Nat, NEW c \in Seq(T), NEW q \in Nat, p + Len(c) <= q,
         q <= Len(s), SameFrom(s, p, c)
  PROVE  Splice(s, p, q, c) = Splice(s, p + Len(c), q, <<>>)
<1> DEFINE r == Splice(s, p, q, c)
           C == Len(c)
           Z == Len(s)
           a == p + C
<1>1. C \in Nat /\ Z \in Nat /\ p \in Nat /\ q \in Nat /\ p + C <= q /\ q <= Z /\ p <= q
  <2>1. C \in Nat /\ Z \in Nat /\ p \in Nat /\ q \in Nat /\ p + C <= q /\ q <= Z
    BY LenProperties
  <2> HIDE DEF C, Z
  <2>2. p <= q
    BY <2>1
  <2>3. QED
    BY <2>1, <2>2
<1>2. r \in Seq(T) /\ Spliced(r, s, p, q, c)
  BY <1>1, SpliceType
<1>3. /\ Len(r) = p + C + (Z - q)
      /\ \A i \in 1 .. p : r[i] = s[i]
      /\ \A i \in 1 .. C : r[p + i] = c[i]
      /\ \A i \in q + 1 .. Z : r[p + C + i - q] = s[i]
  BY <1>2 DEF Spliced
<1>4. \A i \in 1 .. C : s[p + i] = c[i]
  BY DEF SameFrom
<1> HIDE DEF r, C, Z, a
<1>5. a \in Nat /\ a <= q
  BY <1>1 DEF a
<1>6. ASSUME NEW i \in 1 .. a PROVE r[i] = s[i]
  <2>1. CASE i <= p
    <3>1. i \in 1 .. p
      BY <1>1, <1>5, <2>1
    <3>2. QED
      BY <1>3, <3>1
  <2>2. CASE ~(i <= p)
    <3> DEFINE y == i - p
    <3>1. y \in 1 .. C /\ p + y = i
      BY <1>1, <1>5, <2>2 DEF a
    <3> HIDE DEF y
    <3>2. r[p + y] = c[y] /\ s[p + y] = c[y]
      BY <1>3, <1>4, <3>1
    <3>3. QED
      BY <3>1, <3>2
  <2>3. QED
    BY <2>1, <2>2
<1>7. Spliced(r, s, a, q, <<>>)
  <2> DEFINE x == <<>>
  <2>1. Len(x) = 0
    OBVIOUS
  <2> HIDE DEF x
  <2>2. Len(r) = a + Len(x) + (Len(s) - q)
    <3>1. Len(r) = p + C + (Z - q)
      BY <1>3
    <3>2. p + C + (Z - q) = a + 0 + (Z - q)
      BY <1>1 DEF a
    <3>3. QED
      BY <2>1, <3>1, <3>2 DEF Z
  <2>3. \A i \in 1 .. Len(x) : r[a + i] = x[i]
    BY <2>1
  <2>4. ASSUME NEW i \in q + 1 .. Len(s) PROVE r[a + Len(x) + i - q] = s[i]
    <3>1. i \in q + 1 .. Z
      BY DEF Z
    <3>2. r[p + C + i - q] = s[i]
      BY <1>3, <3>1
    <3>3. p + C + i - q = a + 0 + i - q
      BY <1>1, <3>1 DEF a
    <3>4. QED
      BY <2>1, <3>2, <3>3
  <2>5. Spliced(r, s, a, q, x)
    BY <1>6, <2>2, <2>3, <2>4 DEF Spliced
  <2>6. QED
    BY <2>5 DEF x
<1>8. r = Splice(s, a, q, <<>>)
  <2> DEFINE x == <<>>
  <2>1. x \in Seq(T)
    OBVIOUS
  <2> HIDE DEF x
  <2>2. q <= Len(s)
    BY <1>1 DEF Z
  <2>3. r = Splice(s, a, q, x)
    BY <1>1, <1>2, <1>5, <1>7, <2>1, <2>2, SpliceOnly DEF x
  <2>4. QED
    BY <2>3 DEF x
<1>9. QED
  BY <1>8 DEF r, a, C

\* A part of one entry.
LEMMA OneEntry ==
  ASSUME NEW T, NEW s \in Seq(T), NEW a \in 1 .. Len(s)
  PROVE  SubSeq(s, a, a) = <<s[a]>>
<1> DEFINE r == SubSeq(s, a, a)
<1>1. /\ r \in Seq(T) /\ Len(r) = a - a + 1 /\ r[1] = s[a + 1 - 1] /\ s[a] \in T /\ a \in Nat
  BY SubSeqProperties, ElementOfSeq
<1> HIDE DEF r
<1>2. Len(r) = 1 /\ r[1] = s[a]
  BY <1>1
<1>3. r = <<s[a]>>
  BY <1>1, <1>2
<1>4. QED
  BY <1>3 DEF r

-----------------------------------------------------------------------------
(* Sequences cut into pieces *)

\* The pieces cs, of up to size entries each, together are s; off[k] entries are in the
\* first k pieces.
Cuts(size, cs, off, s) ==
    /\ cs \in Seq(Seq(Int))
    /\ \A k \in 1 .. Len(cs) : Len(cs[k]) \in 1 .. size
    /\ off \in [0 .. Len(cs) -> Nat] /\ off[0] = 0
    /\ \A k \in 1 .. Len(cs) : off[k] = off[k - 1] + Len(cs[k])
    /\ s \in Seq(Int) /\ Len(s) = off[Len(cs)]
    /\ \A k \in 1 .. Len(cs) : \A i \in 1 .. Len(cs[k]) : s[off[k - 1] + i] = cs[k][i]

\* The sums grow along the pieces, up to the length of the sequence.
LEMMA CutsGrow ==
  ASSUME NEW size \in Nat \ {0}, NEW cs, NEW off, NEW s, Cuts(size, cs, off, s)
  PROVE  /\ \A j, k \in 0 .. Len(cs) : j < k => off[j] < off[k]
         /\ \A j, k \in 0 .. Len(cs) : j <= k => off[j] <= off[k]
         /\ \A k \in 0 .. Len(cs) : off[k] \in Nat /\ off[k] <= Len(s)
         /\ \A k \in 1 .. Len(cs) : off[k] \in Nat /\ off[k - 1] \in Nat /\ off[k] <= Len(s)
         /\ Len(s) \in Nat /\ Len(cs) \in Nat
<1> DEFINE N == Len(cs)
           f == [i \in 1 .. N + 1 |-> off[i - 1]]
<1>1. N \in Nat /\ N + 1 \in Nat /\ Len(s) \in Nat /\ Len(s) = off[N]
  BY DEF Cuts
<1>2. \A k \in 0 .. N : off[k] \in Nat
  BY <1>1 DEF Cuts
<1>3. \A k \in 1 .. N : off[k - 1] < off[k]
  <2> SUFFICES ASSUME NEW k \in 1 .. N PROVE off[k - 1] < off[k]
    OBVIOUS
  <2>1. off[k] = off[k - 1] + Len(cs[k]) /\ Len(cs[k]) \in 1 .. size /\ k - 1 \in 0 .. N
    BY <1>1 DEF Cuts
  <2>2. QED
    BY <2>1, <1>2
<1>4. \A i \in 1 .. N + 1 : f[i] \in Int
  BY <1>1, <1>2
<1>5. \A i \in 1 .. (N + 1) - 1 : f[i] < f[i + 1]
  <2> SUFFICES ASSUME NEW i \in 1 .. (N + 1) - 1 PROVE f[i] < f[i + 1]
    OBVIOUS
  <2>1. i \in 1 .. N /\ i \in 1 .. N + 1 /\ i + 1 \in 1 .. N + 1 /\ (i + 1) - 1 = i
    BY <1>1
  <2>2. QED
    BY <1>3, <2>1
<1>6. \A m, n \in 1 .. N + 1 : m < n => f[m] < f[n]
  <2> HIDE DEF f, N
  <2>1. QED
    BY <1>1, <1>4, <1>5, StepwiseGrowing
<1>7. ASSUME NEW j \in 0 .. N, NEW k \in 0 .. N, j < k PROVE off[j] < off[k]
  <2>1. j + 1 \in 1 .. N + 1 /\ k + 1 \in 1 .. N + 1 /\ j + 1 < k + 1
        /\ (j + 1) - 1 = j /\ (k + 1) - 1 = k
    BY <1>1, <1>7
  <2>2. f[j + 1] < f[k + 1] /\ f[j + 1] = off[j] /\ f[k + 1] = off[k]
    BY <1>6, <2>1
  <2>3. QED
    BY <2>2
<1>8. \A j, k \in 0 .. N : j <= k => off[j] <= off[k]
  <2> HIDE DEF f, N
  <2> SUFFICES ASSUME NEW j \in 0 .. N, NEW k \in 0 .. N, j <= k PROVE off[j] <= off[k]
    OBVIOUS
  <2>1. CASE j = k
    BY <1>2, <2>1
  <2>2. CASE j < k
    BY <1>2, <1>7, <2>2
  <2>3. QED
    BY <2>1, <2>2, <1>1
<1>9. \A k \in 0 .. N : off[k] <= Len(s)
  BY <1>1, <1>8
<1>10. \A k \in 1 .. N : k - 1 \in 0 .. N /\ k \in 0 .. N
  BY <1>1
<1> HIDE DEF f
<1>11. QED
  BY <1>1, <1>2, <1>7, <1>8, <1>9, <1>10

\* Every entry is in a piece.
LEMMA CutsFind ==
  ASSUME NEW size \in Nat \ {0}, NEW cs, NEW off, NEW s, Cuts(size, cs, off, s), NEW i \in Nat, i < Len(s)
  PROVE  \E k \in 1 .. Len(cs) : off[k - 1] <= i /\ i < off[k]
<1> DEFINE Past == {k \in 0 .. Len(cs) : i < off[k]}
<1>1. Len(cs) \in Nat /\ \A k \in 0 .. Len(cs) : off[k] \in Nat
  BY CutsGrow
<1>2. Len(cs) \in Past /\ Past \subseteq Nat
  BY <1>1 DEF Cuts
<1>3. PICK k \in Past : \A j \in Past : k <= j
  <2> HIDE DEF Past
  <2>1. QED
    BY <1>2, NatMin
<1>4. k # 0
  BY <1>3 DEF Cuts
<1>5. k \in 1 .. Len(cs) /\ k - 1 \in 0 .. Len(cs) /\ k - 1 \notin Past
  BY <1>1, <1>3, <1>4
<1>6. off[k - 1] <= i
  BY <1>1, <1>5
<1>7. QED
  BY <1>3, <1>5, <1>6

\* The sums off of n pieces after the pieces from j + 1 to k gave way to q ones, of the
\* sums mo.
SpliceSums(off, n, j, k, mo, q) ==
    [i \in 0 .. j + q + (n - k) |->
        IF i <= j THEN off[i] ELSE IF i <= j + q THEN off[j] + mo[i - j]
        ELSE off[j] + mo[q] + (off[i - j - q + k] - off[k])]

\* Other pieces in the place of some of them make up other entries in the place of theirs.
LEMMA CutsSplice ==
  ASSUME NEW size \in Nat \ {0}, NEW cs, NEW off, NEW s, Cuts(size, cs, off, s),
         NEW ms, NEW mo, NEW m, Cuts(size, ms, mo, m),
         NEW j \in 0 .. Len(cs), NEW k \in 0 .. Len(cs), j <= k
  PROVE  /\ Cuts(size, Splice(cs, j, k, ms), SpliceSums(off, Len(cs), j, k, mo, Len(ms)),
                   Splice(s, off[j], off[k], m))
         /\ \A i \in 0 .. j : SpliceSums(off, Len(cs), j, k, mo, Len(ms))[i] = off[i]
<1> DEFINE n == Len(cs)
           q == Len(ms)
           N == j + q + (n - k)
           c2 == Splice(cs, j, k, ms)
           o2 == SpliceSums(off, n, j, k, mo, q)
           s2 == Splice(s, off[j], off[k], m)
<1>1. n \in Nat /\ q \in Nat /\ j \in Nat /\ k \in Nat /\ N \in Nat /\ j <= k /\ k <= n
  <2>1. cs \in Seq(Seq(Int)) /\ ms \in Seq(Seq(Int))
    BY DEF Cuts
  <2>2. n \in Nat /\ q \in Nat /\ j \in 0 .. n /\ k \in 0 .. n
    BY <2>1
  <2> HIDE DEF n, q
  <2>3. QED
    BY <2>2
<1>2. cs \in Seq(Seq(Int)) /\ ms \in Seq(Seq(Int)) /\ s \in Seq(Int) /\ m \in Seq(Int)
  BY DEF Cuts
<1>3. /\ \A i \in 0 .. n : off[i] \in Nat /\ off[i] <= Len(s)
      /\ \A a, b \in 0 .. n : a <= b => off[a] <= off[b]
      /\ \A i \in 0 .. q : mo[i] \in Nat
      /\ off[0] = 0 /\ mo[0] = 0 /\ Len(s) = off[n] /\ Len(m) = mo[q]
      /\ Len(s) \in Nat /\ Len(m) \in Nat
  <2>1. /\ \A i \in 0 .. n : off[i] \in Nat /\ off[i] <= Len(s)
        /\ \A a, b \in 0 .. n : a <= b => off[a] <= off[b]
    BY CutsGrow
  <2>2. \A i \in 0 .. q : mo[i] \in Nat
    BY CutsGrow
  <2>3. QED
    BY <2>1, <2>2 DEF Cuts
<1>4. off[j] \in Nat /\ off[k] \in Nat /\ off[j] <= off[k] /\ off[k] <= Len(s)
  BY <1>1, <1>3
<1>5. /\ c2 \in Seq(Seq(Int)) /\ Len(c2) = N
      /\ \A i \in 1 .. j : c2[i] = cs[i]
      /\ \A i \in 1 .. q : c2[j + i] = ms[i]
      /\ \A i \in k + 1 .. n : c2[j + q + i - k] = cs[i]
  <2>1. c2 \in Seq(Seq(Int)) /\ Spliced(c2, cs, j, k, ms)
    BY <1>1, <1>2, SpliceType
  <2> HIDE DEF c2
  <2>2. QED
    BY <2>1 DEF Spliced
<1>6. /\ s2 \in Seq(Int) /\ Len(s2) = off[j] + Len(m) + (Len(s) - off[k])
      /\ \A i \in 1 .. off[j] : s2[i] = s[i]
      /\ \A i \in 1 .. Len(m) : s2[off[j] + i] = m[i]
      /\ \A i \in off[k] + 1 .. Len(s) : s2[off[j] + Len(m) + i - off[k]] = s[i]
  <2>1. s2 \in Seq(Int) /\ Spliced(s2, s, off[j], off[k], m)
    BY <1>2, <1>4, SpliceType
  <2> HIDE DEF s2
  <2>2. QED
    BY <2>1 DEF Spliced
<1>7. /\ \A i \in 0 .. j : o2[i] = off[i]
      /\ \A i \in 0 .. q : o2[j + i] = off[j] + mo[i]
      /\ \A i \in k .. n : o2[j + q + (i - k)] = off[j] + mo[q] + (off[i] - off[k])
  <2>1. \A i \in 0 .. j : o2[i] = off[i]
    BY <1>1 DEF SpliceSums
  <2>2. \A i \in 0 .. q : o2[j + i] = off[j] + mo[i]
    <3> SUFFICES ASSUME NEW i \in 0 .. q PROVE o2[j + i] = off[j] + mo[i]
      OBVIOUS
    <3>1. CASE i = 0
      BY <2>1, <3>1, <1>1, <1>3, <1>4
    <3>2. CASE i # 0
      BY <3>2, <1>1 DEF SpliceSums
    <3>3. QED
      BY <3>1, <3>2
  <2>3. \A i \in k .. n : o2[j + q + (i - k)] = off[j] + mo[q] + (off[i] - off[k])
    <3> SUFFICES ASSUME NEW i \in k .. n
                 PROVE  o2[j + q + (i - k)] = off[j] + mo[q] + (off[i] - off[k])
      OBVIOUS
    <3>1. CASE i = k
      <4>1. j + q + (i - k) = j + q /\ q \in 0 .. q
        BY <3>1, <1>1
      <4>2. o2[j + q] = off[j] + mo[q]
        BY <4>1, <2>2
      <4> HIDE DEF o2
      <4>3. QED
        BY <4>1, <4>2, <3>1, <1>3, <1>4
    <3>2. CASE i # k
      <4>1. j + q + (i - k) \in 0 .. N /\ ~(j + q + (i - k) <= j + q) /\ ~(j + q + (i - k) <= j)
            /\ (j + q + (i - k)) - j - q + k = i
        BY <3>2, <1>1
      <4> DEFINE x == j + q + (i - k)
      <4> HIDE DEF x
      <4>2. x \in 0 .. N /\ ~(x <= j + q) /\ ~(x <= j) /\ x - j - q + k = i
        BY <4>1 DEF x
      <4>3. o2[x] = off[j] + mo[q] + (off[x - j - q + k] - off[k])
        BY <4>2, <1>1 DEF SpliceSums
      <4>4. QED
        BY <4>2, <4>3 DEF x
    <3>3. QED
      BY <3>1, <3>2
  <2>4. QED
    BY <2>1, <2>2, <2>3
<1>8. o2 \in [0 .. N -> Nat]
  <2>1. o2 = [i \in 0 .. N |-> o2[i]]
    BY DEF SpliceSums
  <2> HIDE DEF o2
  <2>2. \A i \in 0 .. N : o2[i] \in Nat
    <3> SUFFICES ASSUME NEW i \in 0 .. N PROVE o2[i] \in Nat
      OBVIOUS
    <3>1. CASE i <= j
      <4>1. i \in 0 .. j /\ i \in 0 .. n
        BY <3>1, <1>1
      <4>2. o2[i] = off[i] /\ off[i] \in Nat
        BY <4>1, <1>3, <1>7
      <4>3. QED
        BY <4>2
    <3>2. CASE j < i /\ i <= j + q
      <4> DEFINE x == i - j
      <4>1. x \in 0 .. q /\ j + x = i
        BY <3>2, <1>1
      <4> HIDE DEF x
      <4>2. o2[j + x] = off[j] + mo[x]
        BY <4>1, <1>7
      <4>3. o2[i] = off[j] + mo[x] /\ mo[x] \in Nat
        BY <4>1, <4>2, <1>3
      <4> DEFINE u == off[j]
                 v == mo[x]
      <4>4. u \in Nat /\ v \in Nat /\ o2[i] = u + v
        BY <4>3, <1>4
      <4> HIDE DEF u, v
      <4>5. QED
        BY <4>4
    <3>3. CASE j + q < i
      <4>1. PICK x \in k .. n : j + q + (x - k) = i
        <5>1. i - j - q + k \in k .. n /\ j + q + ((i - j - q + k) - k) = i
          BY <3>3, <1>1
        <5>2. QED
          BY <5>1
      <4>2. o2[i] = off[j] + mo[q] + (off[x] - off[k])
        BY <4>1, <1>7
      <4>3. off[k] <= off[x] /\ off[x] \in Nat /\ mo[q] \in Nat
        BY <4>1, <1>1, <1>3
      <4> DEFINE u == off[j]
                 v == mo[q]
                 w == off[x]
                 z == off[k]
      <4>4. u \in Nat /\ v \in Nat /\ w \in Nat /\ z \in Nat /\ z <= w /\ o2[i] = u + v + (w - z)
        BY <4>2, <4>3, <1>4
      <4> HIDE DEF u, v, w, z
      <4>5. QED
        BY <4>4
    <3>4. QED
      BY <3>1, <3>2, <3>3, <1>1
  <2>3. QED
    BY <2>1, <2>2
<1> HIDE DEF o2, s2, c2, N
<1>9. ASSUME NEW i \in 1 .. N
      PROVE  /\ Len(c2[i]) \in 1 .. size
             /\ o2[i] = o2[i - 1] + Len(c2[i])
             /\ \A x \in 1 .. Len(c2[i]) : s2[o2[i - 1] + x] = c2[i][x]
  <2>1. CASE i <= j
    <3>1. i \in 1 .. n /\ i \in 1 .. j /\ i \in 0 .. j /\ i - 1 \in 0 .. j /\ i - 1 \in 0 .. n
      BY <2>1, <1>1
    <3>2. c2[i] = cs[i] /\ o2[i] = off[i] /\ o2[i - 1] = off[i - 1]
      BY <3>1, <1>5, <1>7
    <3>3. /\ Len(cs[i]) \in 1 .. size /\ off[i] = off[i - 1] + Len(cs[i])
          /\ \A x \in 1 .. Len(cs[i]) : s[off[i - 1] + x] = cs[i][x]
      BY <3>1 DEF Cuts
    <3>4. \A x \in 1 .. Len(cs[i]) : s2[off[i - 1] + x] = s[off[i - 1] + x]
      <4> SUFFICES ASSUME NEW x \in 1 .. Len(cs[i]) PROVE s2[off[i - 1] + x] = s[off[i - 1] + x]
        OBVIOUS
      <4>1. off[i] <= off[j] /\ off[i - 1] \in Nat
        BY <3>1, <1>1, <1>3
      <4> DEFINE y == off[i - 1] + x
                 u == off[i - 1]
                 v == off[i]
                 t == off[j]
                 z == Len(cs[i])
      <4>2. y \in Nat /\ 1 <= y /\ y <= off[j] /\ off[j] \in Nat
        <5>1. u \in Nat /\ t \in Nat /\ v <= t /\ v = u + z /\ z \in Nat /\ x \in 1 .. z /\ y = u + x
          BY <4>1, <3>3, <1>4
        <5> HIDE DEF y, u, v, t, z
        <5>2. y \in Nat /\ 1 <= y /\ y <= t /\ t \in Nat
          BY <5>1
        <5>3. QED
          BY <5>2 DEF t
      <4> HIDE DEF y, u, v, t, z
      <4>3. s2[y] = s[y]
        BY <4>2, <1>6
      <4>4. QED
        BY <4>3 DEF y
    <3>5. QED
      BY <3>2, <3>3, <3>4
  <2>2. CASE j < i /\ i <= j + q
    <3>1. PICK y \in 1 .. q : i = j + y
      <4>1. i - j \in 1 .. q /\ i = j + (i - j)
        BY <2>2, <1>1 DEF N
      <4>2. QED
        BY <4>1
    <3>2. y \in 0 .. q /\ y - 1 \in 0 .. q /\ i - 1 = j + (y - 1)
      BY <3>1, <1>1
    <3>3. c2[i] = ms[y] /\ o2[i] = off[j] + mo[y] /\ o2[i - 1] = off[j] + mo[y - 1]
      BY <3>1, <3>2, <1>5, <1>7
    <3>4. /\ Len(ms[y]) \in 1 .. size /\ mo[y] = mo[y - 1] + Len(ms[y])
          /\ \A x \in 1 .. Len(ms[y]) : m[mo[y - 1] + x] = ms[y][x]
      BY <3>1 DEF Cuts
    <3>5. mo[y] \in Nat /\ mo[y - 1] \in Nat /\ mo[y] <= Len(m)
      BY <3>2, CutsGrow
    <3>6. \A x \in 1 .. Len(ms[y]) : s2[o2[i - 1] + x] = ms[y][x]
      <4> SUFFICES ASSUME NEW x \in 1 .. Len(ms[y]) PROVE s2[o2[i - 1] + x] = ms[y][x]
        OBVIOUS
      <4>1. mo[y - 1] + x \in 1 .. Len(m)
        <5> DEFINE u == mo[y - 1]
                   v == mo[y]
                   w == Len(ms[y])
                   z == Len(m)
        <5>1. u \in Nat /\ v \in Nat /\ z \in Nat /\ v = u + w /\ v <= z
          BY <3>4, <3>5, <1>3
        <5>2. x \in 1 .. w /\ w \in Nat
          BY <3>4
        <5> HIDE DEF u, v, w, z
        <5>3. u + x \in 1 .. z
          BY <5>1, <5>2
        <5>4. QED
          BY <5>3 DEF u, z
      <4>2. s2[off[j] + (mo[y - 1] + x)] = m[mo[y - 1] + x]
        BY <4>1, <1>6
      <4>3. off[j] + (mo[y - 1] + x) = o2[i - 1] + x
        <5> DEFINE u == off[j]
                   v == mo[y - 1]
                   w == o2[i - 1]
        <5>1. u \in Nat /\ v \in Nat /\ w = u + v /\ x \in Int
          BY <3>3, <3>5, <1>4
        <5> HIDE DEF u, v, w
        <5>2. u + (v + x) = w + x
          BY <5>1
        <5>3. QED
          BY <5>2 DEF u, v, w
      <4>4. QED
        BY <4>2, <4>3, <3>4
    <3>7. o2[i] = o2[i - 1] + Len(c2[i])
      <4> DEFINE u == mo[y - 1]
                 v == mo[y]
                 w == Len(ms[y])
                 z == off[j]
      <4>1. u \in Nat /\ v = u + w /\ w \in Nat /\ z \in Nat
        BY <3>4, <3>5, <1>4
      <4>2. o2[i] = z + v /\ o2[i - 1] = z + u /\ Len(c2[i]) = w
        BY <3>3
      <4> HIDE DEF u, v, w, z
      <4>3. QED
        BY <4>1, <4>2
    <3>8. QED
      BY <3>3, <3>4, <3>6, <3>7
  <2>3. CASE j + q < i
    <3>1. PICK y \in k + 1 .. n : i = j + q + y - k
      <4>1. i - j - q + k \in k + 1 .. n /\ i = j + q + (i - j - q + k) - k
        BY <2>3, <1>1 DEF N
      <4>2. QED
        BY <4>1
    <3>2. y \in k .. n /\ y - 1 \in k .. n /\ i - 1 = j + q + ((y - 1) - k) /\ i = j + q + (y - k)
          /\ y \in 1 .. n /\ y \in 0 .. n /\ y - 1 \in 0 .. n
      BY <3>1, <1>1
    <3>3. c2[i] = cs[y] /\ o2[i] = off[j] + mo[q] + (off[y] - off[k])
          /\ o2[i - 1] = off[j] + mo[q] + (off[y - 1] - off[k])
      BY <3>1, <3>2, <1>5, <1>7
    <3>4. /\ Len(cs[y]) \in 1 .. size /\ off[y] = off[y - 1] + Len(cs[y])
          /\ \A x \in 1 .. Len(cs[y]) : s[off[y - 1] + x] = cs[y][x]
      BY <3>2 DEF Cuts
    <3>5. off[y] \in Nat /\ off[y - 1] \in Nat /\ off[y] <= Len(s) /\ off[k] <= off[y - 1]
      BY <3>2, <1>1, <1>3, SMTT(20)
    <3>7a. mo[q] \in Nat
      BY <1>1, <1>3
    <3>6. \A x \in 1 .. Len(cs[y]) : s2[o2[i - 1] + x] = cs[y][x]
      <4> SUFFICES ASSUME NEW x \in 1 .. Len(cs[y]) PROVE s2[o2[i - 1] + x] = cs[y][x]
        OBVIOUS
      <4>1. off[y - 1] + x \in off[k] + 1 .. Len(s)
        <5> DEFINE u == off[y - 1]
                   v == off[y]
                   w == Len(cs[y])
                   z == Len(s)
                   t == off[k]
        <5>1. u \in Nat /\ v \in Nat /\ z \in Nat /\ t \in Nat /\ v = u + w /\ v <= z /\ t <= u
          BY <3>4, <3>5, <1>3, <1>4
        <5>2. x \in 1 .. w /\ w \in Nat
          BY <3>4
        <5> HIDE DEF u, v, w, z, t
        <5>3. u + x \in t + 1 .. z
          BY <5>1, <5>2
        <5>4. QED
          BY <5>3 DEF u, z, t
      <4>2. s2[off[j] + Len(m) + (off[y - 1] + x) - off[k]] = s[off[y - 1] + x]
        BY <4>1, <1>6
      <4>3. off[j] + Len(m) + (off[y - 1] + x) - off[k] = o2[i - 1] + x
        <5> DEFINE u == off[y - 1]
                   z == Len(m)
                   t == off[k]
                   w == off[j]
        <5>1. u \in Nat /\ z \in Nat /\ t \in Nat /\ w \in Nat /\ x \in Nat
          BY <3>4, <3>5, <1>3, <1>4
        <5>2. o2[i - 1] = w + z + (u - t)
          BY <3>3, <1>3
        <5> HIDE DEF u, z, t, w
        <5>3. w + z + (u + x) - t = o2[i - 1] + x
          BY <5>1, <5>2
        <5>4. QED
          BY <5>3 DEF u, z, t, w
      <4>4. QED
        BY <4>2, <4>3, <3>4
    <3>7. o2[i] = o2[i - 1] + Len(c2[i])
      <4> DEFINE u == off[y - 1]
                 v == off[y]
                 w == Len(cs[y])
                 z == off[j]
                 t == off[k]
                 r == mo[q]
      <4>1. u \in Nat /\ v = u + w /\ w \in Nat /\ z \in Nat /\ t \in Nat /\ r \in Nat
        BY <3>4, <3>5, <3>7a, <1>4
      <4>2. o2[i] = z + r + (v - t) /\ o2[i - 1] = z + r + (u - t) /\ Len(c2[i]) = w
        BY <3>3
      <4> HIDE DEF u, v, w, z, t, r
      <4>3. QED
        BY <4>1, <4>2
    <3>8. QED
      BY <3>3, <3>4, <3>6, <3>7
  <2>4. QED
    BY <2>1, <2>2, <2>3, <1>1 DEF N
<1>10. o2[0] = 0 /\ Len(s2) = o2[N]
  <2>1. 0 \in 0 .. j /\ n \in k .. n /\ n \in 0 .. n
    BY <1>1
  <2>2. o2[0] = off[0]
    BY <2>1, <1>7
  <2>3. o2[j + q + (n - k)] = off[j] + mo[q] + (off[n] - off[k])
    BY <2>1, <1>7
  <2>4. QED
    BY <2>2, <2>3, <1>3, <1>6 DEF N
<1>11. Cuts(size, c2, o2, s2)
  BY <1>5, <1>6, <1>8, <1>9, <1>10 DEF Cuts
<1>12. QED
  BY <1>7, <1>11 DEF c2, o2, s2

\* No piece.
LEMMA NoCut ==
  ASSUME NEW size
  PROVE  Cuts(size, <<>>, [i \in 0 .. 0 |-> 0], <<>>)
<1>1. Len(<<>>) = 0 /\ <<>> \in Seq(Int) /\ <<>> \in Seq(Seq(Int))
  BY EmptySeq
<1>2. [i \in 0 .. 0 |-> 0] \in [0 .. Len(<<>>) -> Nat]
  BY <1>1
<1>3. QED
  BY <1>1, <1>2 DEF Cuts

\* One piece.
LEMMA OneCut ==
  ASSUME NEW size \in Nat \ {0}, NEW c \in Seq(Int), Len(c) \in 1 .. size
  PROVE  Cuts(size, <<c>>, [i \in 0 .. 1 |-> IF i = 0 THEN 0 ELSE Len(c)], c)
<1> DEFINE cs == <<c>>
           off == [i \in 0 .. 1 |-> IF i = 0 THEN 0 ELSE Len(c)]
<1>1. cs \in Seq(Seq(Int)) /\ Len(cs) = 1 /\ cs[1] = c /\ Len(c) \in Nat
  OBVIOUS
<1>2. off \in [0 .. 1 -> Nat] /\ off[0] = 0 /\ off[1] = Len(c)
  BY <1>1
<1> HIDE DEF cs, off
<1>3. \A k \in 1 .. Len(cs) : k = 1 /\ k - 1 = 0
  BY <1>1
<1>4. QED
  BY <1>1, <1>2, <1>3 DEF Cuts, cs, off

\* Two pieces.
LEMMA TwoCuts ==
  ASSUME NEW size \in Nat \ {0}, NEW c \in Seq(Int), Len(c) \in 1 .. size, NEW d \in Seq(Int), Len(d) \in 1 .. size
  PROVE  Cuts(size, <<c, d>>, [i \in 0 .. 2 |-> IF i = 0 THEN 0 ELSE IF i = 1 THEN Len(c) ELSE Len(c) + Len(d)],
                c \o d)
<1> DEFINE cs == <<c, d>>
           s == c \o d
           off == [i \in 0 .. 2 |-> IF i = 0 THEN 0 ELSE IF i = 1 THEN Len(c) ELSE Len(c) + Len(d)]
<1>1. cs \in Seq(Seq(Int)) /\ Len(cs) = 2 /\ cs[1] = c /\ cs[2] = d /\ Len(c) \in Nat /\ Len(d) \in Nat
  OBVIOUS
<1>2. off \in [0 .. 2 -> Nat] /\ off[0] = 0 /\ off[1] = Len(c) /\ off[2] = Len(c) + Len(d)
  BY <1>1
<1>3. s \in Seq(Int) /\ Len(s) = Len(c) + Len(d)
  BY ConcatProperties
<1>4. \A i \in 1 .. Len(c) : s[0 + i] = c[i]
  BY <1>1
<1>5. \A i \in 1 .. Len(d) : s[Len(c) + i] = d[i]
  <2> SUFFICES ASSUME NEW i \in 1 .. Len(d) PROVE s[Len(c) + i] = d[i]
    OBVIOUS
  <2>1. Len(c) + i \in 1 .. Len(c) + Len(d) /\ Len(c) + i > Len(c) /\ (Len(c) + i) - Len(c) = i
    BY <1>1
  <2>2. QED
    BY <2>1
<1> HIDE DEF cs, off, s
<1>6. \A k \in 1 .. Len(cs) : (k = 1 /\ k - 1 = 0) \/ (k = 2 /\ k - 1 = 1)
  BY <1>1
<1>7. QED
  <2>1. \A k \in 1 .. Len(cs) : off[k] = off[k - 1] + Len(cs[k])
    <3> SUFFICES ASSUME NEW k \in 1 .. Len(cs) PROVE off[k] = off[k - 1] + Len(cs[k])
      OBVIOUS
    <3>1. CASE k = 1 /\ k - 1 = 0
      BY <3>1, <1>1, <1>2
    <3>2. CASE k = 2 /\ k - 1 = 1
      BY <3>2, <1>1, <1>2
    <3>3. QED
      BY <3>1, <3>2, <1>6
  <2>2. \A k \in 1 .. Len(cs) : \A i \in 1 .. Len(cs[k]) : s[off[k - 1] + i] = cs[k][i]
    <3> SUFFICES ASSUME NEW k \in 1 .. Len(cs), NEW i \in 1 .. Len(cs[k])
                 PROVE  s[off[k - 1] + i] = cs[k][i]
      OBVIOUS
    <3>1. CASE k = 1 /\ k - 1 = 0
      BY <3>1, <1>1, <1>2, <1>4
    <3>2. CASE k = 2 /\ k - 1 = 1
      <4>1. i \in 1 .. Len(d) /\ off[k - 1] = Len(c) /\ cs[k] = d
        BY <3>2, <1>1, <1>2
      <4>2. QED
        BY <4>1, <1>5
    <3>3. QED
      BY <3>1, <3>2, <1>6
  <2>3. \A k \in 1 .. Len(cs) : Len(cs[k]) \in 1 .. size
    BY <1>1, <1>6
  <2>4. QED
    BY <1>1, <1>2, <1>3, <2>1, <2>2, <2>3 DEF Cuts, cs, off, s

\* The pieces of a reversed sequence.
BackPieces(cs) == [k \in 1 .. Len(cs) |-> Reverse(cs[Len(cs) - k + 1])]

\* How many entries come before each of them.
BackCounts(cs, off, s) == [k \in 0 .. Len(cs) |-> Len(s) - off[Len(cs) - k]]

\* Reversed pieces, from the last to the first, make up the reversed sequence.
LEMMA CutsReverse ==
  ASSUME NEW size \in Nat \ {0}, NEW cs, NEW off, NEW s, Cuts(size, cs, off, s),
         NEW mc, mc = BackPieces(cs), NEW mo, mo = BackCounts(cs, off, s)
  PROVE  Cuts(size, mc, mo, Reverse(s)) /\ Len(mc) = Len(cs)
<1> DEFINE N == Len(cs)
           Z == Len(s)
           r == Reverse(s)
<1>0. /\ mc = [k \in 1 .. Len(cs) |-> Reverse(cs[Len(cs) - k + 1])]
      /\ mo = [k \in 0 .. Len(cs) |-> Len(s) - off[Len(cs) - k]]
  BY DEF BackPieces, BackCounts
<1>1. N \in Nat /\ Z \in Nat /\ s \in Seq(Int) /\ cs \in Seq(Seq(Int)) /\ off[N] = Z /\ off[0] = 0
  BY DEF Cuts
<1>2. ASSUME NEW k \in 0 .. N PROVE off[k] \in Nat /\ off[k] <= Z
  BY CutsGrow
<1>3. r \in Seq(Int) /\ Len(r) = Z /\ \A i \in 1 .. Z : r[i] = s[Z - i + 1]
  BY <1>1, ReverseIs DEF Backward
<1>4. ASSUME NEW k \in 1 .. N
      PROVE  /\ cs[k] \in Seq(Int) /\ Len(cs[k]) \in Nat /\ Len(cs[k]) \in 1 .. size
             /\ off[k] = off[k - 1] + Len(cs[k]) /\ \A i \in 1 .. Len(cs[k]) : s[off[k - 1] + i] = cs[k][i]
  <2>1. cs[k] \in Seq(Int)
    BY <1>1, ElementOfSeq
  <2>2. Len(cs[k]) \in Nat
    BY <2>1
  <2>3. QED
    BY <2>1, <2>2 DEF Cuts
<1>5. ASSUME NEW k \in 1 .. N
      PROVE  /\ Reverse(cs[k]) \in Seq(Int) /\ Len(Reverse(cs[k])) = Len(cs[k])
             /\ \A i \in 1 .. Len(cs[k]) : Reverse(cs[k])[i] = cs[k][Len(cs[k]) - i + 1]
  BY <1>4, ReverseIs DEF Backward
<1> HIDE DEF N, Z, r
<1>6. ASSUME NEW k \in 1 .. N
      PROVE  N - k + 1 \in 1 .. N /\ N - k \in 0 .. N /\ k - 1 \in 0 .. N /\ N - (k - 1) = N - k + 1
             /\ (N - k + 1) - 1 = N - k
  BY <1>1
<1>7. mc \in [1 .. N -> Seq(Int)]
  BY <1>0, <1>5, <1>6 DEF N
<1>8. mc \in Seq(Seq(Int)) /\ Len(mc) = N
  <2>1. mc \in Seq(Seq(Int))
    BY <1>1, <1>7, FunctionIsSequence
  <2>2. DOMAIN mc = 1 .. N
    BY <1>7
  <2>3. QED
    BY <1>1, <2>1, <2>2, LenProperties
<1>9. mo \in [0 .. N -> Nat] /\ mo[0] = 0 /\ mo[N] = Z
  <2>1. \A k \in 0 .. N : N - k \in 0 .. N /\ Z - off[N - k] \in Nat
    <3>1. \A k \in 0 .. N : N - k \in 0 .. N
      BY <1>1
    <3>2. \A k \in 0 .. N : Z - off[k] \in Nat
      <4>1. ASSUME NEW k \in 0 .. N PROVE Z - off[k] \in Nat
        <5> DEFINE o == off[k]
        <5>1. o \in Nat /\ o <= Z
          BY <1>2
        <5> HIDE DEF o
        <5>2. Z - o \in Nat
          BY <1>1, <5>1
        <5>3. QED
          BY <5>2 DEF o
      <4>2. QED
        BY <4>1
    <3>3. QED
      BY <3>1, <3>2
  <2>2. mo \in [0 .. N -> Nat]
    BY <1>0, <2>1 DEF N, Z
  <2>3. N - 0 = N /\ N - N = 0 /\ 0 \in 0 .. N /\ N \in 0 .. N /\ Z - Z = 0 /\ Z - 0 = Z
    BY <1>1
  <2>4. mo[0] = Z - off[N - 0] /\ mo[N] = Z - off[N - N]
    BY <1>0, <2>3 DEF N, Z
  <2>5. QED
    BY <1>1, <2>2, <2>3, <2>4
<1>10. ASSUME NEW k \in 1 .. N
       PROVE  /\ mc[k] = Reverse(cs[N - k + 1]) /\ Len(mc[k]) = Len(cs[N - k + 1])
              /\ mo[k] = Z - off[N - k] /\ mo[k - 1] = Z - off[N - k + 1]
  <2>1. k \in 0 .. N
    BY <1>1
  <2>2. mc[k] = Reverse(cs[N - k + 1])
    BY <1>0, <1>6 DEF N
  <2>3. mo[k] = Z - off[N - k] /\ mo[k - 1] = Z - off[N - (k - 1)]
    BY <1>0, <1>6, <2>1 DEF N, Z
  <2>4. QED
    BY <1>5, <1>6, <2>2, <2>3
<1>11. ASSUME NEW k \in 1 .. N
       PROVE  mo[k] = mo[k - 1] + Len(mc[k]) /\ Len(mc[k]) \in 1 .. size
  <2> DEFINE e == N - k + 1
             d == Len(cs[e])
             a == off[e - 1]
             b == off[e]
  <2>1. e \in 1 .. N /\ e - 1 = N - k /\ e \in 0 .. N /\ e - 1 \in 0 .. N
    BY <1>1
  <2>2. d \in Nat /\ d \in 1 .. size /\ b = a + d
    <3> HIDE DEF e
    <3>1. QED
      BY <1>4, <2>1
  <2>3. a \in Nat /\ b \in Nat /\ b <= Z
    <3> HIDE DEF e
    <3>1. QED
      BY <1>2, <2>1
  <2>4. mo[k] = Z - a /\ mo[k - 1] = Z - b /\ Len(mc[k]) = d
    BY <1>10, <2>1
  <2> HIDE DEF e, d, a, b
  <2>5. Z - a = (Z - b) + d
    BY <1>1, <2>2, <2>3
  <2>6. QED
    BY <2>2, <2>4, <2>5
<1>12. ASSUME NEW k \in 1 .. N, NEW i \in 1 .. Len(mc[k])
       PROVE  r[mo[k - 1] + i] = mc[k][i]
  <2> DEFINE e == N - k + 1
             d == Len(cs[e])
             a == off[e - 1]
             b == off[e]
  <2>1. e \in 1 .. N /\ e - 1 = N - k /\ e \in 0 .. N /\ e - 1 \in 0 .. N
    BY <1>1
  <2>2. d \in Nat /\ b = a + d /\ \A x \in 1 .. d : s[a + x] = cs[e][x]
    <3> HIDE DEF e
    <3>1. QED
      BY <1>4, <2>1
  <2>3. a \in Nat /\ b \in Nat /\ b <= Z
    <3> HIDE DEF e
    <3>1. QED
      BY <1>2, <2>1
  <2>4. mo[k - 1] = Z - b /\ Len(mc[k]) = d /\ mc[k] = Reverse(cs[e])
    BY <1>10
  <2>5. \A x \in 1 .. d : Reverse(cs[e])[x] = cs[e][d - x + 1]
    <3> HIDE DEF e
    <3>1. QED
      BY <1>5, <2>1
  <2> HIDE DEF e, d, a, b
  <2>6. i \in 1 .. d
    BY <2>4
  <2>7. (Z - b) + i \in 1 .. Z /\ Z - ((Z - b) + i) + 1 = a + (d - i + 1) /\ d - i + 1 \in 1 .. d
    BY <1>1, <2>2, <2>3, <2>6
  <2>8. r[(Z - b) + i] = s[Z - ((Z - b) + i) + 1]
    BY <1>3, <2>7
  <2>9. r[(Z - b) + i] = cs[e][d - i + 1]
    BY <2>2, <2>7, <2>8
  <2>10. QED
    BY <2>4, <2>5, <2>6, <2>9
<1>13. QED
  BY <1>3, <1>8, <1>9, <1>11, <1>12 DEF Cuts, N, r

\* The pieces of one sequence, and then those of another one.
LEMMA CutsJoin ==
  ASSUME NEW size \in Nat \ {0}, NEW cs, NEW off, NEW s, Cuts(size, cs, off, s), NEW ms, NEW mo, NEW m, Cuts(size, ms, mo, m)
  PROVE  \E o : Cuts(size, cs \o ms, o, s \o m)
<1> DEFINE n == Len(cs)
           o == SpliceSums(off, n, n, n, mo, Len(ms))
<1>1. /\ cs \in Seq(Seq(Int)) /\ ms \in Seq(Seq(Int)) /\ s \in Seq(Int) /\ m \in Seq(Int)
      /\ off[n] = Len(s)
  BY DEF Cuts
<1>2. n \in Nat /\ n \in 0 .. Len(cs) /\ n <= n
  BY <1>1, LenProperties
<1>3. cs \o ms = Splice(cs, n, n, ms) /\ s \o m = Splice(s, off[n], off[n], m)
  BY <1>1, JoinSplices
<1> HIDE DEF n
<1>4. Cuts(size, Splice(cs, n, n, ms), SpliceSums(off, Len(cs), n, n, mo, Len(ms)), Splice(s, off[n], off[n], m))
  BY <1>2, CutsSplice
<1>5. QED
  BY <1>3, <1>4

-----------------------------------------------------------------------------
(* Arrangements of the entries of a sequence *)

\* The entries of r are those of s at the positions X, each once, by g.
ArrangedBy(r, s, X, g) ==
    /\ g \in [1 .. Len(r) -> X]
    /\ \A i, j \in 1 .. Len(r) : g[i] = g[j] => i = j
    /\ \A x \in X : \E i \in 1 .. Len(r) : g[i] = x
    /\ \A i \in 1 .. Len(r) : r[i] = s[g[i]]

\* r is made of the entries of s at the positions X.
Arranges(r, s, X) == \E g : ArrangedBy(r, s, X, g)

\* The positions of the entries of s that are in good.
Positions(s, good) == {n \in 1 .. Len(s) : s[n] \in good}

\* Filtering keeps the entries at their positions.
LEMMA FilterArranges ==
  ASSUME NEW T, NEW s \in Seq(T), NEW good
  PROVE  /\ Filter(s, good) \in Seq(T) /\ Len(Filter(s, good)) = Cardinality(Positions(s, good))
         /\ Arranges(Filter(s, good), s, Positions(s, good))
<1> DEFINE P == Positions(s, good)
           r == AtPositions(s, P)
           p == Increasing(P)
<1>1. DOMAIN s = 1 .. Len(s)
  BY LenProperties
<1>2. Filter(s, good) = r
  BY <1>1 DEF Filter, Positions
<1>3. P \in SUBSET (1 .. Len(s))
  BY DEF Positions
<1> HIDE DEF P
<1>4. /\ r \in Seq(T)
      /\ Len(r) = Cardinality(P) /\ Len(r) = Len(p) /\ Len(r) \in Nat
      /\ \A i \in 1 .. Len(r) : p[i] \in P /\ r[i] = s[p[i]]
      /\ \A x \in P : \E i \in 1 .. Len(r) : p[i] = x
      /\ \A i, j \in 1 .. Len(r) : i < j <=> p[i] < p[j]
  <2>1. SelectedBy(r, p, s, P, T)
    BY <1>3, Selecting
  <2> HIDE DEF r, p
  <2>2. QED
    BY <2>1, <1>3 DEF SelectedBy
<1> DEFINE g == [i \in 1 .. Len(r) |-> p[i]]
<1> HIDE DEF r, p
<1>5. \A i, j \in 1 .. Len(r) : p[i] = p[j] => i = j
  <2> SUFFICES ASSUME NEW i \in 1 .. Len(r), NEW j \in 1 .. Len(r), p[i] = p[j], i # j PROVE FALSE
    OBVIOUS
  <2>1. p[i] \in Int /\ ~(p[i] < p[j]) /\ ~(p[j] < p[i])
    BY <1>3, <1>4
  <2>2. i < j \/ j < i
    BY <1>4
  <2>3. QED
    BY <1>4, <2>1, <2>2
<1>6. ArrangedBy(r, s, P, g)
  BY <1>4, <1>5 DEF ArrangedBy
<1>7. Arranges(r, s, P)
  <2> HIDE DEF g
  <2>1. QED
    BY <1>6 DEF Arranges
<1>8. QED
  BY <1>2, <1>4, <1>7 DEF P

\* An arrangement of an arrangement is one.
LEMMA ArrangeAgain ==
  ASSUME NEW r, NEW t, NEW s, NEW X, Len(r) \in Nat, Len(t) \in Nat,
         Arranges(r, t, 1 .. Len(t)), Arranges(t, s, X)
  PROVE  Arranges(r, s, X)
<1>1. PICK g1 : ArrangedBy(r, t, 1 .. Len(t), g1)
  BY DEF Arranges
<1>2. PICK g2 : ArrangedBy(t, s, X, g2)
  BY DEF Arranges
<1> DEFINE g == [i \in 1 .. Len(r) |-> g2[g1[i]]]
<1>3. /\ g1 \in [1 .. Len(r) -> 1 .. Len(t)]
      /\ \A i, j \in 1 .. Len(r) : g1[i] = g1[j] => i = j
      /\ \A x \in 1 .. Len(t) : \E i \in 1 .. Len(r) : g1[i] = x
      /\ \A i \in 1 .. Len(r) : r[i] = t[g1[i]]
  BY <1>1 DEF ArrangedBy
<1>4. /\ g2 \in [1 .. Len(t) -> X]
      /\ \A i, j \in 1 .. Len(t) : g2[i] = g2[j] => i = j
      /\ \A x \in X : \E i \in 1 .. Len(t) : g2[i] = x
      /\ \A i \in 1 .. Len(t) : t[i] = s[g2[i]]
  BY <1>2 DEF ArrangedBy
<1>5. g \in [1 .. Len(r) -> X] /\ \A i, j \in 1 .. Len(r) : g[i] = g[j] => i = j
  <2>1. \A i \in 1 .. Len(r) : g[i] = g2[g1[i]] /\ g1[i] \in 1 .. Len(t) /\ g2[g1[i]] \in X
    BY <1>3, <1>4
  <2>2. g \in [1 .. Len(r) -> X]
    BY <2>1
  <2> HIDE DEF g
  <2>3. ASSUME NEW i \in 1 .. Len(r), NEW j \in 1 .. Len(r), g[i] = g[j] PROVE i = j
    <3>1. g1[i] = g1[j]
      BY <1>4, <2>1, <2>3
    <3>2. QED
      BY <1>3, <3>1
  <2>4. QED
    BY <2>2, <2>3
<1>6. \A x \in X : \E i \in 1 .. Len(r) : g[i] = x
  <2> TAKE x \in X
  <2>1. PICK e \in 1 .. Len(t) : g2[e] = x
    BY <1>4
  <2>2. PICK i \in 1 .. Len(r) : g1[i] = e
    BY <1>3
  <2>3. QED
    BY <2>1, <2>2
<1>7. \A i \in 1 .. Len(r) : r[i] = s[g[i]]
  BY <1>3, <1>4
<1> HIDE DEF g
<1>8. ArrangedBy(r, s, X, g)
  BY <1>5, <1>6, <1>7 DEF ArrangedBy
<1>9. QED
  BY <1>8 DEF Arranges

\* Two arrangements, of different positions, one after the other.
LEMMA ArrangeJoin ==
  ASSUME NEW T, NEW r \in Seq(T), NEW q \in Seq(T), NEW s, NEW X, NEW Y, X \cap Y = {},
         Arranges(r, s, X), Arranges(q, s, Y)
  PROVE  Arranges(r \o q, s, X \cup Y)
<1>1. PICK g1 : ArrangedBy(r, s, X, g1)
  BY DEF Arranges
<1>2. PICK g2 : ArrangedBy(q, s, Y, g2)
  BY DEF Arranges
<1> DEFINE a == Len(r)
           b == Len(q)
           u == r \o q
           g == [i \in 1 .. a + b |-> IF i <= a THEN g1[i] ELSE g2[i - a]]
<1>3. a \in Nat /\ b \in Nat
  BY LenProperties
<1>4. /\ Len(u) = a + b /\ \A i \in 1 .. a : u[i] = r[i]
      /\ \A i \in 1 .. a + b : i > a => u[i] = q[i - a]
  OBVIOUS
<1>5. /\ g1 \in [1 .. a -> X] /\ \A i, j \in 1 .. a : g1[i] = g1[j] => i = j
      /\ \A x \in X : \E i \in 1 .. a : g1[i] = x
      /\ \A i \in 1 .. a : r[i] = s[g1[i]]
  BY <1>1 DEF ArrangedBy
<1>6. /\ g2 \in [1 .. b -> Y] /\ \A i, j \in 1 .. b : g2[i] = g2[j] => i = j
      /\ \A x \in Y : \E i \in 1 .. b : g2[i] = x
      /\ \A i \in 1 .. b : q[i] = s[g2[i]]
  BY <1>2 DEF ArrangedBy
<1> HIDE DEF a, b, u
<1>7. /\ \A i \in 1 .. a : g[i] = g1[i] /\ g[i] \in X /\ i \in 1 .. a + b
      /\ \A i \in 1 .. a + b : i > a => g[i] = g2[i - a] /\ g[i] \in Y /\ i - a \in 1 .. b
      /\ \A i \in 1 .. b : g[a + i] = g2[i] /\ a + i \in 1 .. a + b
  BY <1>3, <1>5, <1>6
<1>8. g \in [1 .. a + b -> X \cup Y]
  BY <1>3, <1>5, <1>6
<1> HIDE DEF g
<1>9. ASSUME NEW i \in 1 .. a + b, NEW j \in 1 .. a + b, g[i] = g[j] PROVE i = j
  <2>1. CASE i <= a /\ j <= a
    <3>1. i \in 1 .. a /\ j \in 1 .. a
      BY <1>3, <2>1
    <3>2. QED
      BY <1>5, <1>7, <1>9, <3>1
  <2>2. CASE i > a /\ j > a
    <3>1. i - a \in 1 .. b /\ j - a \in 1 .. b /\ g2[i - a] = g2[j - a]
      BY <1>7, <1>9, <2>2
    <3>2. i - a = j - a
      BY <1>6, <3>1
    <3>3. QED
      BY <1>3, <3>2
  <2>3. CASE i <= a /\ j > a
    <3>1. i \in 1 .. a
      BY <1>3, <2>3
    <3>2. g[i] \in X /\ g[j] \in Y
      BY <1>7, <2>3, <3>1
    <3>3. QED
      BY <1>9, <3>2
  <2>4. CASE i > a /\ j <= a
    <3>1. j \in 1 .. a
      BY <1>3, <2>4
    <3>2. g[i] \in Y /\ g[j] \in X
      BY <1>7, <2>4, <3>1
    <3>3. QED
      BY <1>9, <3>2
  <2>5. QED
    BY <1>3, <2>1, <2>2, <2>3, <2>4
<1>10. ASSUME NEW x \in X \cup Y PROVE \E i \in 1 .. a + b : g[i] = x
  <2>1. CASE x \in X
    BY <1>5, <1>7, <2>1
  <2>2. CASE x \in Y
    BY <1>6, <1>7, <2>2
  <2>3. QED
    BY <2>1, <2>2
<1>11. ASSUME NEW i \in 1 .. a + b PROVE u[i] = s[g[i]]
  <2>1. CASE i <= a
    <3>1. i \in 1 .. a
      BY <1>3, <2>1
    <3>2. QED
      BY <1>4, <1>5, <1>7, <3>1
  <2>2. CASE i > a
    BY <1>4, <1>6, <1>7, <2>2
  <2>3. QED
    BY <1>3, <2>1, <2>2
<1>12. ArrangedBy(u, s, X \cup Y, g)
  BY <1>4, <1>8, <1>9, <1>10, <1>11 DEF ArrangedBy
<1>13. QED
  BY <1>12 DEF Arranges, u

\* Fewer entries of s are good, if one of them is not.
LEMMA FilterShorter ==
  ASSUME NEW T, NEW s \in Seq(T), NEW good, NEW n \in 1 .. Len(s), s[n] \notin good
  PROVE  Len(Filter(s, good)) \in Nat /\ Len(Filter(s, good)) < Len(s)
<1> DEFINE P == Positions(s, good)
           D == 1 .. Len(s)
<1>1. Len(s) \in Nat
  BY LenProperties
<1>2. IsFiniteSet(D) /\ Cardinality(D) = Len(s)
  BY <1>1, IntervalSize
<1>3. P \subseteq D /\ n \in D /\ n \notin P
  BY DEF Positions
<1> HIDE DEF P, D
<1>4. IsFiniteSet(P) /\ Cardinality(P) <= Cardinality(D) /\ Cardinality(P) # Cardinality(D)
  BY <1>2, <1>3, FS_Subset
<1>5. Cardinality(P) \in Nat
  BY <1>4, FS_CardinalityType
<1>6. Len(Filter(s, good)) = Cardinality(P)
  BY FilterArranges DEF P
<1>7. QED
  BY <1>1, <1>2, <1>4, <1>5, <1>6

\* What an arrangement of positions whose entries are good holds is good.
LEMMA ArrangedAre ==
  ASSUME NEW r, NEW s, NEW X, Arranges(r, s, X), NEW i \in 1 .. Len(r)
  PROVE  \E x \in X : r[i] = s[x]
BY DEF Arranges, ArrangedBy

================================================================================
