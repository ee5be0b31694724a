--------------------------- MODULE QuadSearch_proofs ---------------------------
(***************************************************************************)
(* Proofs about the code tree of an index and the quads looked up in it,   *)
(* for any points, any size of a leaf and any field: the build leaves a    *)
(* sound tree, the two searches of it are exact, and the permutations that *)
(* the search for a quad skips have no match.                              *)
(***************************************************************************)
EXTENDS QuadSearch, Ranking_proofs

-----------------------------------------------------------------------------
(* Powers of two and levels *)

\* A power of two is twice the one before, as far as an int goes.
LEMMA Doubling == ASSUME NEW k \in 0 .. 29 PROVE Pow2[k + 1] = 2 * Pow2[k]
<1>1. CASE k = 0
  BY <1>1 DEF Pow2
<1>2. CASE k = 1
  BY <1>2 DEF Pow2
<1>3. CASE k = 2
  BY <1>3 DEF Pow2
<1>4. CASE k = 3
  BY <1>4 DEF Pow2
<1>5. CASE k = 4
  BY <1>5 DEF Pow2
<1>6. CASE k = 5
  BY <1>6 DEF Pow2
<1>7. CASE k = 6
  BY <1>7 DEF Pow2
<1>8. CASE k = 7
  BY <1>8 DEF Pow2
<1>9. CASE k = 8
  BY <1>9 DEF Pow2
<1>10. CASE k = 9
  BY <1>10 DEF Pow2
<1>11. CASE k = 10
  BY <1>11 DEF Pow2
<1>12. CASE k = 11
  BY <1>12 DEF Pow2
<1>13. CASE k = 12
  BY <1>13 DEF Pow2
<1>14. CASE k = 13
  BY <1>14 DEF Pow2
<1>15. CASE k = 14
  BY <1>15 DEF Pow2
<1>16. CASE k = 15
  BY <1>16 DEF Pow2
<1>17. CASE k = 16
  BY <1>17 DEF Pow2
<1>18. CASE k = 17
  BY <1>18 DEF Pow2
<1>19. CASE k = 18
  BY <1>19 DEF Pow2
<1>20. CASE k = 19
  BY <1>20 DEF Pow2
<1>21. CASE k = 20
  BY <1>21 DEF Pow2
<1>22. CASE k = 21
  BY <1>22 DEF Pow2
<1>23. CASE k = 22
  BY <1>23 DEF Pow2
<1>24. CASE k = 23
  BY <1>24 DEF Pow2
<1>25. CASE k = 24
  BY <1>25 DEF Pow2
<1>26. CASE k = 25
  BY <1>26 DEF Pow2
<1>27. CASE k = 26
  BY <1>27 DEF Pow2
<1>28. CASE k = 27
  BY <1>28 DEF Pow2
<1>29. CASE k = 28
  BY <1>29 DEF Pow2
<1>30. CASE k = 29
  BY <1>30 DEF Pow2
<1>31. QED
  BY <1>1, <1>2, <1>3, <1>4, <1>5, <1>6, <1>7, <1>8, <1>9, <1>10, <1>11, <1>12, <1>13, <1>14, <1>15, <1>16, <1>17, <1>18, <1>19, <1>20, <1>21, <1>22, <1>23, <1>24, <1>25, <1>26, <1>27, <1>28, <1>29, <1>30

\* Powers of two are numbers, and grow.
LEMMA Powers ==
    /\ Pow2[0] = 1
    /\ \A k \in 0 .. 30 : Pow2[k] \in Nat \ {0}
    /\ \A j, k \in 0 .. 30 : j < k => 2 * Pow2[j] <= Pow2[k]
<1>1. Pow2[0] = 1
  BY DEF Pow2
<1>2. \A k \in 0 .. 30 : Pow2[k] \in Nat \ {0}
  <2> DEFINE Bad == {k \in 0 .. 30 : Pow2[k] \notin Nat \ {0}}
  <2>1. SUFFICES ASSUME Bad # {} PROVE FALSE
    OBVIOUS
  <2>2. PICK m \in Bad : \A k \in Bad : m <= k
    <3>1. Bad \subseteq Nat
      OBVIOUS
    <3> HIDE DEF Bad
    <3>2. QED
      BY <2>1, <3>1, NatMin
  <2>3. m # 0 /\ m \in 1 .. 30
    BY <1>1, <2>2
  <2>4. m - 1 \in 0 .. 29 /\ m - 1 \notin Bad /\ (m - 1) + 1 = m
    BY <2>2, <2>3
  <2>5. Pow2[m - 1] \in Nat \ {0}
    BY <2>4
  <2>6. Pow2[m] = 2 * Pow2[m - 1]
    BY <2>4, Doubling
  <2>7. QED
    BY <2>2, <2>5, <2>6
<1> DEFINE f == [i \in 1 .. 31 |-> Pow2[i - 1]]
<1>3. \A i \in 1 .. 31 : f[i] \in Int
  BY <1>2
<1>4. \A i \in 1 .. 31 - 1 : f[i] < f[i + 1]
  <2>1. ASSUME NEW i \in 1 .. 30 PROVE f[i] < f[i + 1]
    <3>1. i - 1 \in 0 .. 29 /\ (i - 1) + 1 = i /\ (i + 1) - 1 = i /\ i \in 1 .. 31 /\ i + 1 \in 1 .. 31
      OBVIOUS
    <3>2. Pow2[i] = 2 * Pow2[i - 1] /\ Pow2[i - 1] \in Nat \ {0}
      <4>1. \A j \in 0 .. 29 : Pow2[j + 1] = 2 * Pow2[j]
        BY Doubling
      <4>2. Pow2[(i - 1) + 1] = 2 * Pow2[i - 1]
        BY <3>1, <4>1
      <4>3. QED
        BY <1>2, <3>1, <4>2
    <3>3. f[i] = Pow2[i - 1] /\ f[i + 1] = Pow2[i]
      BY <3>1
    <3>4. QED
      BY <3>2, <3>3
  <2>2. QED
    BY <2>1
<1> HIDE DEF f
<1>5. \A i, j \in 1 .. 31 : i < j => f[i] < f[j]
  BY <1>3, <1>4, StepwiseGrowing
<1>6. ASSUME NEW j \in 0 .. 30, NEW k \in 0 .. 30, j < k
      PROVE  2 * Pow2[j] <= Pow2[k]
  <2>1. j \in 0 .. 29 /\ Pow2[j + 1] = 2 * Pow2[j]
    BY <1>6, Doubling
  <2>2. CASE k = j + 1
    BY <2>1, <2>2, <1>2
  <2>3. CASE k # j + 1
    <3>1. f[j + 2] < f[k + 1]
      BY <1>5, <1>6, <2>3
    <3>2. f[j + 2] = Pow2[j + 1] /\ f[k + 1] = Pow2[k]
      <4>1. j + 2 \in 1 .. 31 /\ k + 1 \in 1 .. 31 /\ (j + 2) - 1 = j + 1 /\ (k + 1) - 1 = k
        BY <2>1
      <4>2. QED
        BY <4>1 DEF f
    <3>3. Pow2[j + 1] \in Int /\ Pow2[k] \in Int
      BY <1>2, <2>1
    <3>4. QED
      BY <2>1, <3>1, <3>2, <3>3
  <2>4. QED
    BY <2>2, <2>3
<1>7. QED
  BY <1>1, <1>2, <1>6

\* What is on level l.
OnLevel(n, l) == Pow2[l] - 1 <= n /\ n < Pow2[l + 1] - 1

\* A node is on one level only, and its children are on the next.
LEMMA OneLevel ==
    ASSUME NEW n \in Nat, NEW l \in 0 .. 29, OnLevel(n, l)
    PROVE  /\ \A k \in 0 .. 29 : OnLevel(n, k) => k = l
           /\ l < 29 => OnLevel(2 * n + 1, l + 1) /\ OnLevel(2 * n + 2, l + 1)
<1>1. ASSUME NEW j \in 0 .. 29, NEW k \in 0 .. 29, OnLevel(n, j), OnLevel(n, k)
      PROVE  ~(j < k)
  <2>1. ASSUME j < k PROVE FALSE
    <3>1. Pow2[j + 1] = 2 * Pow2[j] /\ 2 * Pow2[j] <= Pow2[k] /\ Pow2[j] \in Int /\ Pow2[k] \in Int
      <4>1. j \in 0 .. 30 /\ k \in 0 .. 30
        OBVIOUS
      <4>2. Pow2[j + 1] = 2 * Pow2[j]
        BY Doubling
      <4>3. QED
        BY SMTT(30), <2>1, <4>1, <4>2, Powers
    <3>2. Pow2[k] - 1 <= n /\ n < Pow2[j + 1] - 1
      BY <1>1 DEF OnLevel
    <3>3. QED
      BY <3>1, <3>2
  <2>2. QED
    BY <2>1
<1>2. ASSUME NEW k \in 0 .. 29, OnLevel(n, k) PROVE k = l
  <2>1. ~(k < l) /\ ~(l < k)
    BY <1>1, <1>2
  <2>2. QED
    BY <2>1
<1>3. ASSUME l < 29 PROVE OnLevel(2 * n + 1, l + 1) /\ OnLevel(2 * n + 2, l + 1)
  <2>1. l + 1 \in 0 .. 29 /\ (l + 1) + 1 = l + 2
    BY <1>3
  <2>2. Pow2[l + 1] = 2 * Pow2[l] /\ Pow2[l + 2] = 2 * Pow2[l + 1] /\ Pow2[l] \in Int
    <3>1. Pow2[(l + 1) + 1] = 2 * Pow2[l + 1]
      BY <2>1, Doubling
    <3>2. QED
      BY SMTT(30), <2>1, <3>1, Powers, Doubling
  <2>3. Pow2[l] - 1 <= n /\ n < Pow2[l + 1] - 1
    BY DEF OnLevel
  <2>4. Pow2[l + 1] - 1 <= 2 * n + 1 /\ 2 * n + 2 < Pow2[l + 2] - 1
    BY <2>2, <2>3
  <2>5. Pow2[l + 1] - 1 <= 2 * n + 2 /\ 2 * n + 1 < Pow2[l + 2] - 1
    BY <2>2, <2>3
  <2>6. QED
    BY <2>1, <2>4, <2>5 DEF OnLevel
<1>4. QED
  BY <1>2, <1>3

\* The last level of a tree.
Bottommost == Levels(N) - 1

\* The size of a tree, and the level of each of its nodes.
LEMMA TreeSize ==
    ASSUME pts \in Clouds
    PROVE  /\ Bottommost \in 0 .. 29 /\ Levels(N) = Bottommost + 1
           /\ N \in Nat \ {0} /\ Interior \in Nat
           /\ Interior = Pow2[Bottommost] - 1 /\ Bottom = Interior + 1
           /\ 2 * Interior = Pow2[Bottommost + 1] - 2
           /\ \A i \in 1 .. N, d \in Dims : pts[i][d] \in 0 .. TMax
<1>1. /\ pts \in Seq([Dims -> 0 .. TMax]) /\ pts # << >> /\ N \div NLeaf < Pow2[29]
      /\ NLeaf \in Nat \ {0} /\ N \in Nat
  <2> DEFINE S == [Dims -> 0 .. TMax]
             q == Len(pts) \div NLeaf
  <2>1. pts \in Seq(S) /\ pts # << >> /\ q < Pow2[29]
    BY CloudAssumption
  <2>2. Len(pts) \in Nat
    <3> HIDE DEF S
    <3>1. QED
      BY <2>1, LenProperties
  <2>3. QED
    BY <2>1, <2>2, TreeAssumption DEF N
<1>2. \A i \in 1 .. N : pts[i] \in [Dims -> 0 .. TMax]
  <2> DEFINE S == [Dims -> 0 .. TMax]
  <2>1. pts \in Seq(S)
    BY <1>1
  <2> HIDE DEF S
  <2>2. \A i \in 1 .. N : pts[i] \in S
    BY <2>1, LenProperties DEF N
  <2>3. QED
    BY <2>2 DEF S
<1>3. N # 0
  <2> DEFINE S == [Dims -> 0 .. TMax]
  <2>1. pts \in Seq(S)
    BY <1>1
  <2> HIDE DEF S
  <2>2. QED
    BY <1>1, <2>1, EmptySeq DEF N
<1> DEFINE m == N \div NLeaf
           Able == {k \in 0 .. 29 : m < Pow2[k]}
<1>4. m \in Nat
  <2>1. \A i \in Nat, j \in Nat \ {0} : i \div j \in Nat
    OBVIOUS
  <2>2. N \in Nat /\ NLeaf \in Nat \ {0}
    BY <1>1
  <2>3. QED
    BY <2>1, <2>2
<1>5. \E k \in 0 .. 29 : m < Pow2[k] /\ (k = 0 \/ Pow2[k - 1] <= m)
  <2>1. 29 \in Able /\ Able \subseteq Nat
    <3>1. m < Pow2[29]
      BY <1>1
    <3> HIDE DEF m
    <3>2. QED
      BY <3>1
  <2>2. PICK k \in Able : \A j \in Able : k <= j
    <3> HIDE DEF Able
    <3>1. QED
      BY <2>1, NatMin
  <2>3. ASSUME k # 0 PROVE Pow2[k - 1] <= m
    <3>1. k - 1 \in 0 .. 29 /\ k - 1 \notin Able
      BY <2>2, <2>3
    <3>2. ~(m < Pow2[k - 1])
      BY <3>1
    <3>3. Pow2[k - 1] \in Int
      BY <3>1, Powers
    <3> HIDE DEF m
    <3>4. QED
      BY <1>4, <3>2, <3>3
  <2>4. k \in 0 .. 29 /\ m < Pow2[k]
    BY <2>2
  <2>5. QED
    BY <2>3, <2>4
<1>6. PICK k \in 0 .. 29 : Levels(N) = 1 + k
  <2> DEFINE k == CHOOSE k \in 0 .. 29 : m < Pow2[k] /\ (k = 0 \/ Pow2[k - 1] <= m)
  <2>1. k \in 0 .. 29
    BY <1>5
  <2>2. Levels(N) = 1 + k
    BY DEF Levels
  <2> HIDE DEF k
  <2>3. QED
    BY <2>1, <2>2
<1>7. Bottommost = k /\ Levels(N) = k + 1
  BY <1>6 DEF Bottommost
<1>8. Pow2[k] \in Nat \ {0} /\ Pow2[k + 1] = 2 * Pow2[k]
  BY SMTT(30), Powers, Doubling
<1>9. Bottom = Pow2[k] /\ Interior = Pow2[k] - 1
  BY <1>7 DEF Bottom, Interior, Bottommost
<1>10. \A i \in 1 .. N, d \in Dims : pts[i][d] \in 0 .. TMax
  BY <1>2
<1>11. N \in Nat
  BY <1>1
<1> HIDE DEF m, Able
<1>12. QED
  BY <1>11, <1>3, <1>7, <1>8, <1>9, <1>10

\* Every node of a tree is on a level.
LEMMA NodeLevel ==
    ASSUME pts \in Clouds, NEW n \in 0 .. 2 * Interior
    PROVE  /\ Level(n) \in 0 .. Bottommost /\ OnLevel(n, Level(n))
           /\ \A l \in 0 .. 29 : OnLevel(n, l) => l = Level(n)
<1> DEFINE b == Bottommost
           Beyond == {l \in 0 .. b : n < Pow2[l + 1] - 1}
<1>1. b \in 0 .. 29 /\ Interior \in Nat /\ 2 * Interior = Pow2[b + 1] - 2 /\ Levels(N) = b + 1
  BY TreeSize
<1>2. \A l \in 0 .. 30 : Pow2[l] \in Nat
  BY Powers
<1> HIDE DEF b
<1>3. b \in Beyond /\ Beyond \subseteq Nat /\ n \in Nat
  <2>1. Pow2[b + 1] \in Nat
    BY <1>1, <1>2
  <2>2. QED
    BY <1>1, <2>1
<1>4. PICK l \in Beyond : \A j \in Beyond : l <= j
  <2> HIDE DEF Beyond
  <2>1. QED
    BY <1>3, NatMin
<1>5. l \in 0 .. b /\ l \in 0 .. 29 /\ n < Pow2[l + 1] - 1
  BY <1>1, <1>4
<1>6. Pow2[l] - 1 <= n
  <2>1. CASE l = 0
    BY <1>3, <2>1, Powers
  <2>2. CASE l # 0
    <3>1. l - 1 \in 0 .. b /\ l - 1 \notin Beyond /\ (l - 1) + 1 = l
      BY <1>1, <1>4, <1>5, <2>2
    <3>2. ~(n < Pow2[(l - 1) + 1] - 1)
      BY <3>1
    <3>3. ~(n < Pow2[l] - 1) /\ Pow2[l] \in Nat
      BY <1>2, <1>5, <3>1, <3>2
    <3>4. QED
      BY <1>3, <3>3
  <2>3. QED
    BY <2>1, <2>2
<1>7. OnLevel(n, l)
  BY <1>5, <1>6 DEF OnLevel
<1> HIDE DEF Beyond
<1>8. \A k \in 0 .. 29 : OnLevel(n, k) => k = l
  BY <1>3, <1>5, <1>7, OneLevel
<1>9. Level(n) = l
  <2>1. Level(n) = CHOOSE k \in 0 .. b : OnLevel(n, k)
    <3>1. Levels(N) - 1 = b
      BY <1>1
    <3>2. QED
      BY <3>1 DEF Level, OnLevel
  <2>2. \A k \in 0 .. b : OnLevel(n, k) <=> k = l
    BY <1>1, <1>5, <1>7, <1>8
  <2>3. QED
    BY <1>5, <2>1, <2>2
<1>10. QED
  BY <1>5, <1>7, <1>8, <1>9 DEF b

\* Where lr has the last place of node n, while it has it.
Slot(n) == IF n < Interior THEN n ELSE n - Interior

\* The leftmost node of its level.
Leftmost(n) == n = Pow2[Level(n)] - 1

\* The children of a node.
LEMMA Children ==
    ASSUME pts \in Clouds, NEW n \in 0 .. Interior - 1
    PROVE  /\ 2 * n + 1 \in 0 .. 2 * Interior /\ 2 * n + 2 \in 0 .. 2 * Interior
           /\ n \in 0 .. 2 * Interior
           /\ Level(n) + 1 \in 1 .. Bottommost
           /\ Level(2 * n + 1) = Level(n) + 1 /\ Level(2 * n + 2) = Level(n) + 1
           /\ Leftmost(2 * n + 1) <=> Leftmost(n)
           /\ ~Leftmost(2 * n + 2)
           /\ LeftIn(n) = Slot(2 * n + 1) /\ LeftIn(n) + 1 = Slot(2 * n + 2)
<1> DEFINE b == Bottommost
           l == Level(n)
           I == Interior
<1>1. b \in 0 .. 29 /\ I \in Nat /\ I = Pow2[b] - 1 /\ 2 * I = Pow2[b + 1] - 2 /\ Levels(N) = b + 1
  BY TreeSize
<1>2. n \in 0 .. 2 * I /\ 2 * n + 1 \in 0 .. 2 * I /\ 2 * n + 2 \in 0 .. 2 * I /\ n \in Nat
  BY <1>1
<1>3. l \in 0 .. b /\ OnLevel(n, l)
  BY <1>2, NodeLevel
<1>4. \A k \in 0 .. 30 : Pow2[k] \in Nat \ {0}
  BY Powers
<1>5. /\ Level(2 * n + 1) \in 0 .. b /\ OnLevel(2 * n + 1, Level(2 * n + 1))
      /\ \A k \in 0 .. 29 : OnLevel(2 * n + 1, k) => k = Level(2 * n + 1)
  BY <1>2, NodeLevel
<1>6. /\ Level(2 * n + 2) \in 0 .. b /\ OnLevel(2 * n + 2, Level(2 * n + 2))
      /\ \A k \in 0 .. 29 : OnLevel(2 * n + 2, k) => k = Level(2 * n + 2)
  BY <1>2, NodeLevel
<1> HIDE DEF b, l, I
<1>7. l + 1 \in 1 .. b
  <2>1. n < Pow2[b] - 1 /\ Pow2[l] - 1 <= n
    BY <1>1, <1>3 DEF OnLevel, I
  <2>2. Pow2[b] \in Nat /\ Pow2[l] \in Nat
    BY <1>1, <1>3, <1>4
  <2>3. l # b
    BY <1>2, <2>1, <2>2
  <2>4. QED
    BY <1>1, <1>3, <2>3
<1>8. OnLevel(2 * n + 1, l + 1) /\ OnLevel(2 * n + 2, l + 1)
  <2>1. l \in 0 .. 29 /\ l < 29 /\ n \in Nat
    BY <1>1, <1>2, <1>3, <1>7
  <2>2. QED
    BY <1>3, <2>1, OneLevel
<1>9. Level(2 * n + 1) = l + 1 /\ Level(2 * n + 2) = l + 1
  <2>1. l + 1 \in 0 .. 29
    BY <1>1, <1>7
  <2>2. QED
    BY <1>5, <1>6, <1>8, <2>1
<1>10. Pow2[l + 1] = 2 * Pow2[l] /\ Pow2[l] \in Nat \ {0}
  BY SMTT(30), <1>1, <1>3, <1>4, Doubling
<1>11. (Leftmost(2 * n + 1) <=> Leftmost(n)) /\ ~Leftmost(2 * n + 2)
  BY <1>2, <1>9, <1>10 DEF Leftmost, l
<1>12. l = b - 1 <=> 2 * n + 1 >= I
  <2>1. ASSUME l = b - 1 PROVE 2 * n + 1 >= I
    <3>1. l + 1 = b
      BY <1>1, <2>1
    <3>2. QED
      BY <1>1, <1>8, <3>1 DEF OnLevel
  <2>2. ASSUME 2 * n + 1 >= I PROVE l = b - 1
    <3>1. OnLevel(2 * n + 1, b)
      <4>1. Pow2[b + 1] \in Nat /\ Pow2[b] \in Nat
        BY <1>1, <1>4
      <4>2. QED
        BY <1>1, <1>2, <2>2, <4>1 DEF OnLevel
    <3>2. b = l + 1
      BY <1>1, <1>5, <1>9, <3>1
    <3>3. QED
      BY <1>1, <1>3, <3>2
  <2>3. QED
    BY <2>1, <2>2
<1>13. 2 * n + 1 >= I <=> 2 * n + 2 >= I
  <2>1. ASSUME 2 * n + 2 >= I, 2 * n + 1 < I PROVE FALSE
    <3>1. OnLevel(2 * n + 2, b)
      <4>1. Pow2[b + 1] \in Nat /\ Pow2[b] \in Nat
        BY <1>1, <1>4
      <4>2. QED
        BY <1>1, <1>2, <2>1, <4>1 DEF OnLevel
    <3>2. b = l + 1
      BY <1>1, <1>6, <1>9, <3>1
    <3>3. l = b - 1
      BY <1>1, <1>3, <3>2
    <3>4. QED
      BY <1>1, <1>2, <1>12, <2>1, <3>3
  <2>2. QED
    BY <1>1, <1>2, <2>1
<1>14. LeftIn(n) = IF l = b - 1 THEN (2 * n + 1) - I ELSE 2 * n + 1
  <2>1. Levels(N) - 2 = b - 1
    BY <1>1
  <2>2. LeftIn(n) = 2 * n + 1 - (IF l = b - 1 THEN I ELSE 0)
    BY <2>1 DEF LeftIn, l, I
  <2>3. QED
    BY <1>1, <1>2, <2>2
<1>15. LeftIn(n) = Slot(2 * n + 1) /\ LeftIn(n) + 1 = Slot(2 * n + 2)
  <2>1. /\ Slot(2 * n + 1) = IF 2 * n + 1 < I THEN 2 * n + 1 ELSE (2 * n + 1) - I
        /\ Slot(2 * n + 2) = IF 2 * n + 2 < I THEN 2 * n + 2 ELSE (2 * n + 2) - I
    BY DEF Slot, I
  <2>2. QED
    BY <1>1, <1>2, <1>12, <1>13, <1>14, <2>1
<1>16. QED
  BY <1>2, <1>7, <1>9, <1>11, <1>15 DEF l, b, I

-----------------------------------------------------------------------------
(* One split *)

\* The points of a node are sorted along the dimension, and stay in the node.
LEMMA SortedRight ==
    ASSUME pts \in Clouds, perm \in [0 .. N - 1 -> 1 .. N], IsInjective(perm),
           Lo \in Nat, Hi \in Nat, Lo <= Hi, Hi <= N - 1, NEW d \in Dims, NEW up \in BOOLEAN
    PROVE  LET s == SortBy(d, up) IN
           /\ s \in [0 .. N - 1 -> 1 .. N] /\ IsInjective(s)
           /\ \A p \in 0 .. N - 1 : p \notin Lo .. Hi => s[p] = perm[p]
           /\ \A p \in Lo .. Hi : \E q \in Lo .. Hi : s[p] = perm[q]
           /\ \A p, q \in Lo .. Hi : p < q => pts[s[p]][d] <= pts[s[q]][d]
<1> DEFINE ids == {perm[p] : p \in Lo .. Hi}
           O == Along(d, up)
           z == InOrderOf(O, ids)
           n == Hi - Lo + 1
           s == SortBy(d, up)
<1>1. /\ N \in Nat \ {0} /\ n \in Nat
      /\ \A i \in 1 .. N : pts[i][d] \in 0 .. TMax
      /\ TMax \in Nat
  BY TreeSize, TreeAssumption
<1>2. \A p \in Lo .. Hi : p \in 0 .. N - 1 /\ perm[p] \in 1 .. N
  <2> DEFINE M == N
  <2>1. M \in Nat \ {0} /\ perm \in [0 .. M - 1 -> 1 .. M] /\ Hi <= M - 1 /\ Lo \in Nat /\ Hi \in Nat
    BY <1>1
  <2> HIDE DEF M
  <2>2. \A p \in Lo .. Hi : p \in 0 .. M - 1
    BY <2>1
  <2>3. QED
    BY <2>1, <2>2 DEF M
<1>3. ids \subseteq 1 .. N
  BY <1>2
<1>4. IsFiniteSet(ids) /\ Cardinality(ids) = n
  <2> DEFINE f == [p \in Lo .. Hi |-> perm[p]]
             I == Lo .. Hi
  <2>1. f \in Surjection(I, ids)
    BY DEF Surjection
  <2>2. f \in Injection(I, ids)
    <3>1. f \in [I -> ids]
      OBVIOUS
    <3>2. \A p, q \in I : f[p] = f[q] => p = q
      BY <1>2 DEF IsInjective
    <3>3. QED
      BY <3>1, <3>2 DEF Injection, IsInjective
  <2>3. IsFiniteSet(I) /\ Cardinality(I) = n
    BY FS_Interval
  <2> HIDE DEF f, I, ids
  <2>4. QED
    BY <2>1, <2>2, <2>3, FS_Surjection
<1>5. StrictOrder(O, ids)
  <2>1. ASSUME NEW x \in ids PROVE <<x, x>> \notin O
    BY <1>1, <1>3 DEF Along
  <2>2. ASSUME NEW x \in ids, NEW y \in ids, NEW w \in ids, <<x, y>> \in O, <<y, w>> \in O
        PROVE  <<x, w>> \in O
    <3>1. x \in 1 .. N /\ y \in 1 .. N /\ w \in 1 .. N
      BY <1>3
    <3>2. pts[x][d] \in Int /\ pts[y][d] \in Int /\ pts[w][d] \in Int /\ x \in Int /\ y \in Int /\ w \in Int
      BY SMTT(30), <1>1, <3>1
    <3>3. /\ pts[x][d] < pts[y][d] \/ (pts[x][d] = pts[y][d] /\ IF up THEN x < y ELSE y < x)
          /\ pts[y][d] < pts[w][d] \/ (pts[y][d] = pts[w][d] /\ IF up THEN y < w ELSE w < y)
      BY <2>2 DEF Along
    <3>4. pts[x][d] < pts[w][d] \/ (pts[x][d] = pts[w][d] /\ IF up THEN x < w ELSE w < x)
      BY <3>2, <3>3
    <3>5. QED
      BY <3>1, <3>4 DEF Along
  <2>3. ASSUME NEW x \in ids, NEW y \in ids, x # y PROVE <<x, y>> \in O \/ <<y, x>> \in O
    <3>1. x \in 1 .. N /\ y \in 1 .. N
      BY <1>3
    <3>2. pts[x][d] \in Int /\ pts[y][d] \in Int /\ x \in Int /\ y \in Int
      BY <1>1, <3>1
    <3>3. \/ pts[x][d] < pts[y][d] \/ (pts[x][d] = pts[y][d] /\ IF up THEN x < y ELSE y < x)
          \/ pts[y][d] < pts[x][d] \/ (pts[y][d] = pts[x][d] /\ IF up THEN y < x ELSE x < y)
      BY <2>3, <3>2
    <3>4. QED
      BY <3>1, <3>3 DEF Along
  <2>4. QED
    BY <2>1, <2>2, <2>3 DEF StrictOrder
<1>6. s = [p \in 0 .. N - 1 |-> IF p \in Lo .. Hi THEN z[p - Lo + 1] ELSE perm[p]]
  BY DEF SortBy
<1>7. \A x, y : <<x, y>> \in O =>
          x \in 1 .. N /\ y \in 1 .. N /\ (pts[x][d] < pts[y][d] \/ pts[x][d] = pts[y][d])
  BY DEF Along
<1> HIDE DEF O, n
<1>8. /\ Len(z) = Cardinality(ids)
      /\ \A i \in 1 .. Len(z) : z[i] \in ids
      /\ \A i, j \in 1 .. Len(z) : i < j <=> <<z[i], z[j]>> \in O
      /\ \A i, j \in 1 .. Len(z) : z[i] = z[j] => i = j
  <2> HIDE DEF ids
  <2>1. LET r == InOrderOf(O, ids) IN
        /\ Len(r) = Cardinality(ids)
        /\ \A i \in 1 .. Len(r) : r[i] \in ids
        /\ \A i, j \in 1 .. Len(r) : i < j <=> <<r[i], r[j]>> \in O
        /\ \A i, j \in 1 .. Len(r) : r[i] = r[j] => i = j
    BY ONLY <1>4, <1>5, Sorting
  <2>2. QED
    BY <2>1
<1> HIDE DEF z
<1>9. /\ \A i \in 1 .. n : z[i] \in ids
      /\ \A i, j \in 1 .. n : i < j => <<z[i], z[j]>> \in O
      /\ \A i, j \in 1 .. n : z[i] = z[j] => i = j
  BY <1>4, <1>8
<1>10. \A p \in Lo .. Hi : p - Lo + 1 \in 1 .. n /\ s[p] = z[p - Lo + 1]
  <2>1. \A p \in Lo .. Hi : p \in 0 .. N - 1 /\ p - Lo + 1 \in 1 .. n
    BY <1>1 DEF n
  <2>2. QED
    BY <1>6, <2>1
<1> HIDE DEF s
<1>11. \A p \in 0 .. N - 1 : p \notin Lo .. Hi => s[p] = perm[p]
  BY <1>6
<1>12. \A p \in Lo .. Hi : \E q \in Lo .. Hi : s[p] = perm[q]
  <2>1. \A p \in Lo .. Hi : s[p] \in ids
    BY <1>9, <1>10
  <2>2. QED
    BY <2>1
<1>13. ASSUME NEW p \in Lo .. Hi, NEW q \in Lo .. Hi, p < q
       PROVE  pts[s[p]][d] <= pts[s[q]][d]
  <2>1. p - Lo + 1 < q - Lo + 1
    BY <1>13
  <2>2. <<s[p], s[q]>> \in O
    BY SMTT(30), <1>9, <1>10, <2>1
  <2>3. /\ s[p] \in 1 .. N /\ s[q] \in 1 .. N
        /\ pts[s[p]][d] < pts[s[q]][d] \/ pts[s[p]][d] = pts[s[q]][d]
    BY <1>7, <2>2
  <2>4. pts[s[p]][d] \in Int /\ pts[s[q]][d] \in Int
    BY SMTT(30), <1>1, <2>3
  <2>5. QED
    BY <2>3, <2>4
<1>14. \A p \in 0 .. N - 1 : s[p] \in 1 .. N
  BY <1>2, <1>11, <1>12
<1>15. s \in [0 .. N - 1 -> 1 .. N]
  BY <1>6, <1>14
<1>16. ASSUME NEW p \in 0 .. N - 1, NEW q \in 0 .. N - 1, s[p] = s[q]
       PROVE  p = q
  <2>1. CASE p \in Lo .. Hi /\ q \in Lo .. Hi
    <3>1. p - Lo + 1 = q - Lo + 1
      BY <1>9, <1>10, <1>16, <2>1
    <3>2. QED
      BY <3>1
  <2>2. CASE p \in Lo .. Hi /\ q \notin Lo .. Hi
    <3>1. PICK r \in Lo .. Hi : s[p] = perm[r]
      BY <1>12, <2>2
    <3>2. r = q
      BY <1>2, <1>11, <1>16, <2>2, <3>1 DEF IsInjective
    <3>3. QED
      BY <2>2, <3>2
  <2>3. CASE p \notin Lo .. Hi /\ q \in Lo .. Hi
    <3>1. PICK r \in Lo .. Hi : s[q] = perm[r]
      BY <1>12, <2>3
    <3>2. r = p
      BY <1>2, <1>11, <1>16, <2>3, <3>1 DEF IsInjective
    <3>3. QED
      BY <2>3, <3>2
  <2>4. CASE p \notin Lo .. Hi /\ q \notin Lo .. Hi
    BY <1>11, <1>16, <2>4 DEF IsInjective
  <2>5. QED
    BY <2>1, <2>2, <2>3, <2>4
<1>17. IsInjective(s)
  BY <1>15, <1>16 DEF IsInjective
<1>18. QED
  BY <1>11, <1>12, <1>13, <1>15, <1>17 DEF s

\* Where the points are cut, none on the left is beyond the plane, none on the
\* right before it.
LEMMA CutRight ==
    ASSUME NEW s, NEW d, NEW median \in Nat, NEW plane \in Int,
           Lo \in Nat, Hi \in Nat, Lo <= median, median <= Hi,
           \A p \in Lo .. Hi : pts[s[p]][d] \in Int,
           \A p, q \in Lo .. Hi : p < q => pts[s[p]][d] <= pts[s[q]][d],
           plane <= pts[s[median]][d]
    PROVE  LET m == Cut(s, d, median, plane) IN
           /\ m \in Lo .. median
           /\ \A p \in Lo .. m - 1 : pts[s[p]][d] <= plane
           /\ \A p \in m .. Hi : pts[s[p]][d] >= plane
<1> DEFINE x(p) == pts[s[p]][d]
           Able == {m \in Lo .. median : \A p \in m .. median - 1 : x(p) > plane}
           c == Cut(s, d, median, plane)
<1>1. Able \subseteq Nat /\ median \in Able
  OBVIOUS
<1>2. c \in Able /\ \A m \in Able : c <= m
  <2>1. PICK a \in Able : \A m \in Able : a <= m
    <3> HIDE DEF Able
    <3>1. QED
      BY <1>1, NatMin
  <2>2. c = CHOOSE k \in Able : \A m \in Able : k =< m
    BY DEF Cut, Min
  <2> HIDE DEF Able, c
  <2>3. QED
    BY <2>1, <2>2
<1>3. c \in Lo .. median /\ \A p \in c .. median - 1 : x(p) > plane
  BY <1>2
<1>4. \A p \in Lo .. Hi : x(p) \in Int
  OBVIOUS
<1>5. \A p, q \in Lo .. Hi : p < q => x(p) <= x(q)
  OBVIOUS
<1>6. plane <= x(median)
  OBVIOUS
<1>7. ASSUME NEW p \in Lo .. c - 1 PROVE x(p) <= plane
  <2>1. c - 1 \in Lo .. median /\ c - 1 \notin Able /\ c - 1 \in Lo .. Hi /\ p \in Lo .. Hi
    BY <1>2, <1>3
  <2>2. PICK q \in c - 1 .. median - 1 : ~(x(q) > plane)
    BY <2>1
  <2>3. q = c - 1
    BY <1>3, <2>1, <2>2
  <2>4. x(c - 1) <= plane
    BY <1>4, <2>1, <2>2, <2>3
  <2>5. p = c - 1 \/ p < c - 1
    BY <2>1
  <2>6. x(p) <= x(c - 1) /\ x(p) \in Int /\ x(c - 1) \in Int
    BY <1>4, <1>5, <2>1, <2>5
  <2> HIDE DEF x
  <2>7. QED
    BY <2>4, <2>6
<1>8. ASSUME NEW p \in c .. Hi PROVE x(p) >= plane
  <2>1. p \in Lo .. Hi /\ median \in Lo .. Hi
    BY <1>3
  <2>2. CASE p < median
    BY <1>3, <1>4, <2>1, <2>2
  <2>3. CASE p >= median
    <3>1. p = median \/ median < p
      BY <2>1, <2>3
    <3>2. x(median) <= x(p) /\ x(p) \in Int /\ x(median) \in Int
      BY <1>4, <1>5, <2>1, <3>1
    <3> HIDE DEF x
    <3>3. QED
      BY <1>6, <3>2
  <2>4. QED
    BY <2>1, <2>2, <2>3
<1>9. QED
  BY <1>3, <1>7, <1>8

-----------------------------------------------------------------------------
(* The build: where nodes begin and end *)

\* Nodes 0 .. k - 1 were split, a and b are the first and the last place of the
\* nodes there are: nodes follow each other, children share their parent, and lr
\* still has the last places that are read.
Nested(k, a, b, l) ==
    /\ a \in [0 .. 2 * k -> Nat] /\ b \in [0 .. 2 * k -> Int] /\ l \in [0 .. Bottom - 1 -> Int]
    /\ a[0] = 0 /\ b[0] = N - 1
    /\ \A n \in 0 .. 2 * k : a[n] <= b[n] + 1 /\ b[n] <= N - 1
    /\ \A n \in 0 .. k - 1 : /\ a[2 * n + 1] = a[n] /\ b[2 * n + 2] = b[n]
                             /\ a[2 * n + 2] = b[2 * n + 1] + 1
    /\ \A n \in 0 .. 2 * k : a[n] = IF Leftmost(n) THEN 0 ELSE b[n - 1] + 1
    /\ \A n \in 0 .. 2 * k : n >= k \/ (n = k - 1 /\ k < Interior) => l[Slot(n)] = b[n]

\* Nodes that are not split yet share no place, and are inside of their ancestors.
Apart(k, a, b) ==
    \A f \in k .. 2 * k, n \in 0 .. 2 * k :
        /\ f # n /\ n >= k => \A p \in a[f] .. b[f] : p \notin a[n] .. b[n]
        /\ \/ \A p \in a[f] .. b[f] : p \in a[n] .. b[n]
           \/ \A p \in a[f] .. b[f] : p \notin a[n] .. b[n]

\* Places after node k was split at m.
FirstsWith(k, a, m)    == [n \in 0 .. 2 * k + 2 |-> IF n = 2 * k + 2 THEN m
                                               ELSE IF n = 2 * k + 1 THEN a[k] ELSE a[n]]
LastsWith(k, b, m)     == [n \in 0 .. 2 * k + 2 |-> IF n = 2 * k + 2 THEN b[k]
                                               ELSE IF n = 2 * k + 1 THEN m - 1 ELSE b[n]]

\* The children of the node to split go to slots of lr that no other waiting node has.
LEMMA SlotsApart ==
    ASSUME pts \in Clouds, NEW k \in 0 .. Interior - 1
    PROVE  LET i == Slot(2 * k + 1)  j == Slot(2 * k + 2)
           IN  /\ i \in 0 .. Bottom - 1 /\ j = i + 1 /\ j \in 0 .. Bottom - 1
               /\ LeftIn(k) = i
               /\ \A n \in k + 1 .. 2 * k : Slot(n) \in 0 .. Bottom - 1 /\ Slot(n) # i /\ Slot(n) # j
               /\ k + 1 < Interior => Slot(k) # i /\ Slot(k) \in 0 .. Bottom - 1
<1> DEFINE I == Interior
<1>1. I \in Nat /\ Bottom = I + 1 /\ k \in 0 .. I - 1
  BY TreeSize
<1>2. LeftIn(k) = Slot(2 * k + 1) /\ LeftIn(k) + 1 = Slot(2 * k + 2)
  BY Children
<1>3. \A n \in 0 .. 2 * I : Slot(n) = IF n < I THEN n ELSE n - I
  BY DEF Slot
<1> HIDE DEF I
<1>4. Slot(2 * k + 1) = (IF 2 * k + 1 < I THEN 2 * k + 1 ELSE 2 * k + 1 - I)
  BY <1>1, <1>3
<1>5. Slot(2 * k + 2) = (IF 2 * k + 2 < I THEN 2 * k + 2 ELSE 2 * k + 2 - I)
  BY <1>1, <1>3
<1>6. Slot(2 * k + 2) = Slot(2 * k + 1) + 1
  BY <1>2
<1>7. Slot(k) = k
  BY <1>1, <1>3
<1>8. \A n \in k + 1 .. 2 * k : Slot(n) = IF n < I THEN n ELSE n - I
  BY <1>1, <1>3
<1>9. \A n \in k + 1 .. 2 * k : /\ Slot(n) \in 0 .. I
                                 /\ Slot(n) # Slot(2 * k + 1) /\ Slot(n) # Slot(2 * k + 2)
  BY <1>1, <1>4, <1>5, <1>6, <1>8
<1>10. k + 1 < I => Slot(k) # Slot(2 * k + 1) /\ Slot(k) \in 0 .. I
  BY <1>1, <1>4, <1>7
<1>11. Slot(2 * k + 1) \in 0 .. I /\ Slot(2 * k + 2) \in 0 .. I
  BY <1>1, <1>4, <1>5
<1>12. QED
  BY <1>1, <1>2, <1>6, <1>9, <1>10, <1>11 DEF I

\* A split keeps the nodes in their order, wherever it is made.
LEMMA SplitNests ==
    ASSUME pts \in Clouds, NEW k \in 0 .. Interior - 1, NEW a, NEW b, NEW l,
           Nested(k, a, b, l), NEW m \in Nat, a[k] <= m, m <= b[k] + 1
    PROVE  Nested(k + 1, FirstsWith(k, a, m), LastsWith(k, b, m),
                  [l EXCEPT ![LeftIn(k)] = m - 1, ![LeftIn(k) + 1] = b[k]])
<1> DEFINE a2 == FirstsWith(k, a, m)
           b2 == LastsWith(k, b, m)
           l2 == [l EXCEPT ![LeftIn(k)] = m - 1, ![LeftIn(k) + 1] = b[k]]
           i == Slot(2 * k + 1)
           I == Interior
           B == Bottom
           M == N
<1>1. I \in Nat /\ M \in Nat \ {0} /\ k \in 0 .. I - 1 /\ k \in Nat
  BY TreeSize
<1>2. /\ i \in 0 .. B - 1 /\ Slot(2 * k + 2) = i + 1 /\ i + 1 \in 0 .. B - 1
      /\ LeftIn(k) = i
      /\ \A n \in k + 1 .. 2 * k : Slot(n) \in 0 .. B - 1 /\ Slot(n) # i /\ Slot(n) # i + 1
      /\ k + 1 < I => Slot(k) # i /\ Slot(k) \in 0 .. B - 1
  BY SlotsApart
<1>3. /\ a \in [0 .. 2 * k -> Nat] /\ b \in [0 .. 2 * k -> Int] /\ l \in [0 .. B - 1 -> Int]
      /\ a[0] = 0 /\ b[0] = M - 1
      /\ \A n \in 0 .. 2 * k : a[n] <= b[n] + 1 /\ b[n] <= M - 1
      /\ \A n \in 0 .. k - 1 : /\ a[2 * n + 1] = a[n] /\ b[2 * n + 2] = b[n]
                               /\ a[2 * n + 2] = b[2 * n + 1] + 1
      /\ \A n \in 0 .. 2 * k : a[n] = IF Leftmost(n) THEN 0 ELSE b[n - 1] + 1
      /\ \A n \in 0 .. 2 * k : n >= k \/ (n = k - 1 /\ k < I) => l[Slot(n)] = b[n]
  BY DEF Nested
<1>4. (Leftmost(2 * k + 1) <=> Leftmost(k)) /\ ~Leftmost(2 * k + 2)
  BY Children
<1>5. Leftmost(0)
  <2>1. 0 \in 0 .. 2 * Interior
    BY <1>1
  <2>2. OnLevel(0, 0)
    BY Powers, Doubling DEF OnLevel
  <2>3. Level(0) = 0
    BY <2>1, <2>2, NodeLevel
  <2>4. QED
    BY <2>3, Powers DEF Leftmost
<1> HIDE DEF I, B, M, i
<1>6. /\ a2 \in [0 .. 2 * k + 2 -> Nat] /\ b2 \in [0 .. 2 * k + 2 -> Int]
      /\ \A n \in 0 .. 2 * k : a2[n] = a[n] /\ b2[n] = b[n]
      /\ a2[2 * k + 1] = a[k] /\ b2[2 * k + 1] = m - 1
      /\ a2[2 * k + 2] = m /\ b2[2 * k + 2] = b[k]
  <2>1. k \in 0 .. 2 * k /\ a[k] \in Nat /\ b[k] \in Int /\ m - 1 \in Int
    BY <1>1, <1>3
  <2>2. \A n \in 0 .. 2 * k : a[n] \in Nat /\ b[n] \in Int
    BY <1>3
  <2>3. \A n \in 0 .. 2 * k : n \in 0 .. 2 * k + 2 /\ n # 2 * k + 1 /\ n # 2 * k + 2
    BY <1>1
  <2>4. \A n \in 0 .. 2 * k + 2 : n # 2 * k + 1 /\ n # 2 * k + 2 => n \in 0 .. 2 * k
    BY <1>1
  <2>5. 2 * k + 1 \in 0 .. 2 * k + 2 /\ 2 * k + 2 \in 0 .. 2 * k + 2 /\ 2 * k + 1 # 2 * k + 2
    BY <1>1
  <2>6. \A n \in 0 .. 2 * k + 2 : a2[n] \in Nat /\ b2[n] \in Int
    BY <2>1, <2>2, <2>4 DEF FirstsWith, LastsWith
  <2>7. QED
    BY <2>3, <2>5, <2>6 DEF FirstsWith, LastsWith
<1>7. /\ l2 \in [0 .. B - 1 -> Int] /\ l2[i] = m - 1 /\ l2[i + 1] = b[k]
      /\ \A x \in 0 .. B - 1 : x # i /\ x # i + 1 => l2[x] = l[x]
  <2>1. b[k] \in Int /\ m - 1 \in Int /\ i \in Int /\ i # i + 1
    BY <1>1, <1>2, <1>3
  <2>2. l2 = [l EXCEPT ![i] = m - 1, ![i + 1] = b[k]]
    BY <1>2
  <2> HIDE DEF l2
  <2>3. QED
    BY <1>2, <1>3, <2>1, <2>2
<1> HIDE DEF a2, b2, l2
<1>8. \A n \in 0 .. 2 * k + 2 : n \in 0 .. 2 * k \/ n = 2 * k + 1 \/ n = 2 * k + 2
  BY <1>1
<1>9. k \in 0 .. 2 * k /\ a[k] \in Nat /\ b[k] \in Int /\ b[k] <= M - 1 /\ 0 \in 0 .. 2 * k
  BY <1>1, <1>3
<1>10. a2[0] = 0 /\ b2[0] = M - 1
  BY <1>3, <1>6, <1>9
<1>11. \A n \in 0 .. 2 * k + 2 : a2[n] <= b2[n] + 1 /\ b2[n] <= M - 1
  <2>1. m - 1 <= M - 1 /\ a[k] <= (m - 1) + 1 /\ m <= b[k] + 1
    BY <1>1, <1>9
  <2>2. QED
    BY <1>3, <1>6, <1>8, <1>9, <2>1
<1>12. ASSUME NEW n \in 0 .. k
       PROVE  /\ a2[2 * n + 1] = a2[n] /\ b2[2 * n + 2] = b2[n]
              /\ a2[2 * n + 2] = b2[2 * n + 1] + 1
  <2>1. CASE n = k
    BY <1>1, <1>6, <1>9, <2>1
  <2>2. CASE n # k
    <3>1. n \in 0 .. k - 1 /\ n \in 0 .. 2 * k /\ 2 * n + 1 \in 0 .. 2 * k /\ 2 * n + 2 \in 0 .. 2 * k
      BY <1>1, <2>2
    <3>2. QED
      BY <1>3, <1>6, <3>1
  <2>3. QED
    BY <2>1, <2>2
<1>13. ASSUME NEW n \in 0 .. 2 * k + 2
       PROVE  a2[n] = IF Leftmost(n) THEN 0 ELSE b2[n - 1] + 1
  <2>1. CASE n \in 0 .. 2 * k
    <3>1. ~Leftmost(n) => n - 1 \in 0 .. 2 * k
      BY <1>1, <1>5, <2>1
    <3>2. a[n] = IF Leftmost(n) THEN 0 ELSE b[n - 1] + 1
      BY <1>3, <2>1
    <3>3. QED
      BY <1>6, <2>1, <3>1, <3>2
  <2>2. CASE n = 2 * k + 1
    <3>1. a[k] = IF Leftmost(k) THEN 0 ELSE b[k - 1] + 1
      BY <1>3, <1>9
    <3>2. CASE Leftmost(k)
      BY <1>4, <1>6, <2>2, <3>1, <3>2
    <3>3. CASE ~Leftmost(k)
      <4>1. k - 1 \in 0 .. k - 1 /\ 2 * (k - 1) + 2 = 2 * k /\ n - 1 = 2 * k /\ 2 * k \in 0 .. 2 * k
        BY <1>1, <1>5, <2>2, <3>3
      <4>2. b[2 * (k - 1) + 2] = b[k - 1]
        BY <1>3, <4>1
      <4>3. b2[n - 1] = b[k - 1]
        BY <1>6, <4>1, <4>2
      <4>4. QED
        BY <1>4, <1>6, <2>2, <3>1, <3>3, <4>3
    <3>4. QED
      BY <3>2, <3>3
  <2>3. CASE n = 2 * k + 2
    <3>1. n - 1 = 2 * k + 1 /\ (m - 1) + 1 = m
      BY <1>1, <2>3
    <3>2. QED
      BY <1>4, <1>6, <2>3, <3>1
  <2>4. QED
    BY <1>8, <2>1, <2>2, <2>3
<1>14. ASSUME NEW n \in 0 .. 2 * k + 2, n >= k + 1 \/ (n = k /\ k + 1 < I)
       PROVE  l2[Slot(n)] = b2[n]
  <2>1. CASE n = 2 * k + 2
    BY <1>2, <1>6, <1>7, <2>1
  <2>2. CASE n = 2 * k + 1
    BY <1>2, <1>6, <1>7, <2>2 DEF i
  <2>3. CASE n \in k + 1 .. 2 * k
    <3>1. n \in 0 .. 2 * k /\ n >= k
      BY <1>1, <2>3
    <3>2. l[Slot(n)] = b[n]
      BY <1>3, <3>1
    <3>3. l2[Slot(n)] = l[Slot(n)]
      BY <1>2, <1>7, <2>3
    <3>4. QED
      BY <1>6, <3>1, <3>2, <3>3
  <2>4. CASE n = k /\ k + 1 < I
    <3>1. l[Slot(k)] = b[k] /\ b2[k] = b[k]
      BY <1>1, <1>3, <1>6, <1>9
    <3>2. CASE Slot(k) = i + 1
      BY <1>7, <2>4, <3>1, <3>2
    <3>3. CASE Slot(k) # i + 1
      BY <1>2, <1>7, <2>4, <3>1, <3>3
    <3>4. QED
      BY <3>2, <3>3
  <2>5. QED
    BY <1>1, <1>14, <2>1, <2>2, <2>3, <2>4
<1>15. 2 * (k + 1) = 2 * k + 2 /\ (k + 1) - 1 = k
  BY <1>1
<1>16. QED
  <2>1. /\ a2 \in [0 .. 2 * (k + 1) -> Nat] /\ b2 \in [0 .. 2 * (k + 1) -> Int]
        /\ l2 \in [0 .. Bottom - 1 -> Int] /\ a2[0] = 0 /\ b2[0] = N - 1
    BY <1>6, <1>7, <1>10, <1>15 DEF B, M
  <2>2. \A n \in 0 .. 2 * (k + 1) : a2[n] <= b2[n] + 1 /\ b2[n] <= N - 1
    BY <1>11, <1>15 DEF M
  <2>3. \A n \in 0 .. (k + 1) - 1 : /\ a2[2 * n + 1] = a2[n] /\ b2[2 * n + 2] = b2[n]
                                    /\ a2[2 * n + 2] = b2[2 * n + 1] + 1
    BY <1>12, <1>15
  <2>4. \A n \in 0 .. 2 * (k + 1) : a2[n] = IF Leftmost(n) THEN 0 ELSE b2[n - 1] + 1
    BY <1>13, <1>15
  <2>5. \A n \in 0 .. 2 * (k + 1) :
            n >= k + 1 \/ (n = (k + 1) - 1 /\ k + 1 < Interior) => l2[Slot(n)] = b2[n]
    BY <1>14, <1>15 DEF I
  <2>6. Nested(k + 1, a2, b2, l2)
    BY <2>1, <2>2, <2>3, <2>4, <2>5 DEF Nested
  <2>7. QED
    BY <2>6 DEF a2, b2, l2

\* ... and apart.
LEMMA SplitParts ==
    ASSUME NEW k \in Nat, NEW a \in [0 .. 2 * k -> Nat], NEW b \in [0 .. 2 * k -> Int],
           Apart(k, a, b), NEW m \in Nat, a[k] <= m, m <= b[k] + 1
    PROVE  Apart(k + 1, FirstsWith(k, a, m), LastsWith(k, b, m))
<1> DEFINE a2 == FirstsWith(k, a, m)
           b2 == LastsWith(k, b, m)
           Has(n, p) == p \in a[n] .. b[n]
           Has2(n, p) == p \in a2[n] .. b2[n]
<1>1. /\ \A n \in 0 .. 2 * k, p \in Int : Has2(n, p) <=> Has(n, p)
      /\ \A p \in Int : Has2(2 * k + 1, p) <=> Has(k, p) /\ p < m
      /\ \A p \in Int : Has2(2 * k + 2, p) <=> Has(k, p) /\ p >= m
  <2>1. /\ \A n \in 0 .. 2 * k : a2[n] = a[n] /\ b2[n] = b[n]
        /\ a2[2 * k + 1] = a[k] /\ b2[2 * k + 1] = m - 1
        /\ a2[2 * k + 2] = m /\ b2[2 * k + 2] = b[k]
    BY DEF FirstsWith, LastsWith
  <2>2. a[k] \in Nat /\ b[k] \in Int
    OBVIOUS
  <2> HIDE DEF a2, b2
  <2>3. \A n \in 0 .. 2 * k, p \in Int : Has2(n, p) <=> Has(n, p)
    BY <2>1
  <2>4. ASSUME NEW p \in Int
        PROVE  /\ Has2(2 * k + 1, p) <=> Has(k, p) /\ p < m
               /\ Has2(2 * k + 2, p) <=> Has(k, p) /\ p >= m
    <3> DEFINE x == a[k]
               y == b[k]
    <3>1. /\ p \in x .. m - 1 <=> p \in x .. y /\ p < m
          /\ p \in m .. y <=> p \in x .. y /\ p >= m
      <4>1. x \in Int /\ y \in Int /\ m \in Int /\ x <= m /\ m <= y + 1
        BY <2>2
      <4> HIDE DEF x, y
      <4>2. QED
        BY <4>1
    <3>2. QED
      BY <2>1, <3>1
  <2>5. QED
    BY <2>3, <2>4
<1>2. \A f \in k .. 2 * k, n \in 0 .. 2 * k :
        /\ f # n /\ n >= k => \A p \in Int : Has(f, p) => ~Has(n, p)
        /\ \/ \A p \in Int : Has(f, p) => Has(n, p)
           \/ \A p \in Int : Has(f, p) => ~Has(n, p)
  BY DEF Apart
<1>3. \A n, p : Has2(n, p) <=> p \in a2[n] .. b2[n]
  OBVIOUS
<1>4. \A n \in 0 .. 2 * k + 2 : \A p \in a2[n] .. b2[n] : p \in Int
  <2>1. \A n \in 0 .. 2 * k + 2 : a2[n] \in Int /\ b2[n] \in Int
    BY DEF FirstsWith, LastsWith
  <2> HIDE DEF a2, b2
  <2>2. QED
    BY <2>1
<1> HIDE DEF Has, Has2, a2, b2
<1>5. \A n \in 0 .. 2 * k + 2 : n \in 0 .. 2 * k \/ n = 2 * k + 1 \/ n = 2 * k + 2
  OBVIOUS
<1>6. ASSUME NEW f \in k + 1 .. 2 * k + 2, NEW n \in 0 .. 2 * k + 2
      PROVE  /\ f # n /\ n >= k + 1 => \A p \in Int : Has2(f, p) => ~Has2(n, p)
             /\ \/ \A p \in Int : Has2(f, p) => Has2(n, p)
                \/ \A p \in Int : Has2(f, p) => ~Has2(n, p)
  <2>1. k \in k .. 2 * k /\ k \in 0 .. 2 * k
    OBVIOUS
  <2>2. CASE f \in k + 1 .. 2 * k /\ n \in 0 .. 2 * k
    <3>1. f \in k .. 2 * k /\ f \in 0 .. 2 * k
      BY <2>2
    <3>2. n >= k + 1 => n >= k
      BY <2>2
    <3>3. /\ f # n /\ n >= k + 1 => \A p \in Int : Has(f, p) => ~Has(n, p)
          /\ \/ \A p \in Int : Has(f, p) => Has(n, p)
             \/ \A p \in Int : Has(f, p) => ~Has(n, p)
      BY <1>2, <2>2, <3>1, <3>2
    <3>4. \A p \in Int : (Has2(f, p) <=> Has(f, p)) /\ (Has2(n, p) <=> Has(n, p))
      BY <1>1, <2>2, <3>1
    <3>5. QED
      BY <3>3, <3>4
  <2>3. CASE f \in k + 1 .. 2 * k /\ n \notin 0 .. 2 * k
    <3>1. f \in k .. 2 * k /\ f \in 0 .. 2 * k /\ f # k
      BY <2>3
    <3>2. \A p \in Int : Has(f, p) => ~Has(k, p)
      BY <1>2, <2>1, <3>1
    <3>3. QED
      BY <1>1, <1>5, <2>3, <3>1, <3>2
  <2>4. CASE f \notin k + 1 .. 2 * k /\ n \in 0 .. 2 * k
    <3>1. f = 2 * k + 1 \/ f = 2 * k + 2
      BY <2>4
    <3>2. \A p \in Int : Has2(f, p) => Has(k, p)
      BY <1>1, <3>1
    <3>3. n >= k + 1 => n # k
      OBVIOUS
    <3>4. /\ n >= k + 1 => \A p \in Int : Has(k, p) => ~Has(n, p)
          /\ \/ \A p \in Int : Has(k, p) => Has(n, p)
             \/ \A p \in Int : Has(k, p) => ~Has(n, p)
      BY <1>2, <2>1, <2>4, <3>3
    <3>5. QED
      BY <1>1, <2>4, <3>2, <3>4
  <2>5. CASE f \notin k + 1 .. 2 * k /\ n \notin 0 .. 2 * k
    <3>1. (f = 2 * k + 1 \/ f = 2 * k + 2) /\ (n = 2 * k + 1 \/ n = 2 * k + 2)
      BY <1>5, <2>5
    <3>2. \A p \in Int : p < m <=> ~(p >= m)
      OBVIOUS
    <3>3. \A p \in Int : Has2(2 * k + 1, p) => ~Has2(2 * k + 2, p)
      BY <1>1, <3>2
    <3>4. CASE f = n
      BY <3>4
    <3>5. CASE f # n
      <4>1. \A p \in Int : Has2(f, p) => ~Has2(n, p)
        <5>1. CASE f = 2 * k + 1 /\ n = 2 * k + 2
          BY <3>3, <5>1
        <5>2. CASE f = 2 * k + 2 /\ n = 2 * k + 1
          BY <3>3, <5>2
        <5>3. QED
          BY <3>1, <3>5, <5>1, <5>2
      <4>2. QED
        BY <4>1
    <3>6. QED
      BY <3>4, <3>5
  <2>6. QED
    BY <2>2, <2>3, <2>4, <2>5
<1>7. k + 1 .. 2 * (k + 1) = k + 1 .. 2 * k + 2 /\ 0 .. 2 * (k + 1) = 0 .. 2 * k + 2
  OBVIOUS
<1>8. \A f \in k + 1 .. 2 * k + 2, n \in 0 .. 2 * k + 2 :
        /\ f # n /\ n >= k + 1 => \A p \in a2[f] .. b2[f] : p \notin a2[n] .. b2[n]
        /\ \/ \A p \in a2[f] .. b2[f] : p \in a2[n] .. b2[n]
           \/ \A p \in a2[f] .. b2[f] : p \notin a2[n] .. b2[n]
  <2>1. \A f \in k + 1 .. 2 * k + 2 : f \in 0 .. 2 * k + 2
    OBVIOUS
  <2>2. QED
    BY <1>3, <1>4, <1>6, <2>1
<1>9. Apart(k + 1, a2, b2)
  BY <1>7, <1>8 DEF Apart
<1>10. QED
  BY <1>9 DEF a2, b2

-----------------------------------------------------------------------------
(* The build: where the planes are *)

\* The plane of every node of two or more points lies between its children, and
\* the right one has points.
Planes(k, a, b, p, s) ==
    \A n \in 0 .. k - 1 : a[n] < b[n] =>
        /\ Dimension(s[n]) \in Dims /\ Position(s[n]) \in 0 .. TMax
        /\ a[2 * n + 2] <= b[2 * n + 2]
        /\ \A q \in a[2 * n + 1] .. b[2 * n + 1] : pts[p[q]][Dimension(s[n])] <= Position(s[n])
        /\ \A q \in a[2 * n + 2] .. b[2 * n + 2] : pts[p[q]][Dimension(s[n])] >= Position(s[n])

\* The dimension is read back from the low bits of a plane, and the plane from the rest.
LEMMA Packed ==
    ASSUME NEW x \in Nat, NEW d \in Dims
    PROVE  LET s == Position(x)
           IN  /\ s \in Nat /\ s <= x /\ s + (d - 1) \in Nat
               /\ Position(s + (d - 1)) = s /\ Dimension(s + (d - 1)) = d
<1>1. NDim \in 1 .. 8
  BY TreeAssumption
<1>2. Flag \in {1, 2, 4, 8} /\ Flag >= NDim
  <2>1. \E u \in {1, 2, 4, 8} : u >= NDim /\ u < 2 * NDim
    <3>1. NDim = 1 => 1 >= NDim /\ 1 < 2 * NDim
      OBVIOUS
    <3>2. NDim = 2 => 2 >= NDim /\ 2 < 2 * NDim
      OBVIOUS
    <3>3. NDim \in 3 .. 4 => 4 >= NDim /\ 4 < 2 * NDim
      OBVIOUS
    <3>4. NDim \in 5 .. 8 => 8 >= NDim /\ 8 < 2 * NDim
      OBVIOUS
    <3>5. NDim = 1 \/ NDim = 2 \/ NDim \in 3 .. 4 \/ NDim \in 5 .. 8
      BY <1>1
    <3>6. QED
      BY <3>1, <3>2, <3>3, <3>4, <3>5
  <2>2. QED
    BY <2>1 DEF Flag
<1>3. d - 1 \in 0 .. Flag - 1 /\ d \in Int
  BY <1>1, <1>2 DEF Dims
<1> DEFINE u == Flag
           e == d - 1
<1>4. u \in {1, 2, 4, 8} /\ e \in 0 .. u - 1 /\ 1 + e = d
  BY <1>2, <1>3
<1> HIDE DEF u, e
<1>5. /\ x - (x % u) \in Nat /\ x - (x % u) <= x
      /\ (x - (x % u) + e) % u = e
  <2>1. CASE u = 1
    BY <1>4, <2>1
  <2>2. CASE u = 2
    BY <1>4, <2>2
  <2>3. CASE u = 4
    BY <1>4, <2>3
  <2>4. CASE u = 8
    BY <1>4, <2>4
  <2>5. QED
    BY <1>4, <2>1, <2>2, <2>3, <2>4
<1>6. (x - (x % u) + e) - ((x - (x % u) + e) % u) = x - (x % u)
  <2> DEFINE y == x - (x % u)
  <2>1. y \in Nat /\ (y + e) % u = e
    BY <1>5
  <2> HIDE DEF y
  <2>2. (y + e) - ((y + e) % u) = y
    BY <1>4, <2>1
  <2>3. QED
    BY <2>2 DEF y
<1>7. x - (x % u) + e \in Nat
  BY <1>4, <1>5
<1>8. QED
  BY <1>4, <1>5, <1>6, <1>7 DEF u, e, Position, Dimension

\* Points that move inside of the node that is split leave the planes above it right.
LEMMA SplitPlanes ==
    ASSUME pts \in Clouds, NEW k \in 0 .. Interior - 1, NEW a, NEW b, NEW l,
           Nested(k, a, b, l), Apart(k, a, b), NEW p, NEW s \in [0 .. Interior - 1 -> Nat],
           Planes(k, a, b, p, s), NEW p2, NEW m \in Nat, NEW v \in Nat,
           \A x \in 0 .. N - 1 : x \notin a[k] .. b[k] => p2[x] = p[x],
           \A x \in a[k] .. b[k] : \E y \in a[k] .. b[k] : p2[x] = p[y],
           a[k] < b[k] => /\ Dimension(v) \in Dims /\ Position(v) \in 0 .. TMax /\ m <= b[k]
                          /\ \A q \in a[k] .. m - 1 : pts[p2[q]][Dimension(v)] <= Position(v)
                          /\ \A q \in m .. b[k] : pts[p2[q]][Dimension(v)] >= Position(v)
    PROVE  Planes(k + 1, FirstsWith(k, a, m), LastsWith(k, b, m), p2, [s EXCEPT ![k] = v])
<1> DEFINE a2 == FirstsWith(k, a, m)
           b2 == LastsWith(k, b, m)
           s2 == [s EXCEPT ![k] = v]
<1>1. k \in Nat /\ Interior \in Nat /\ N \in Nat
  BY TreeSize
<1>2. /\ \A n \in 0 .. 2 * k : a2[n] = a[n] /\ b2[n] = b[n]
      /\ a2[2 * k + 1] = a[k] /\ b2[2 * k + 1] = m - 1
      /\ a2[2 * k + 2] = m /\ b2[2 * k + 2] = b[k]
  BY <1>1 DEF FirstsWith, LastsWith
<1>3. s2[k] = v /\ \A n \in 0 .. k - 1 : s2[n] = s[n]
  BY <1>1
<1>4. /\ a \in [0 .. 2 * k -> Nat] /\ b \in [0 .. 2 * k -> Int]
      /\ \A n \in 0 .. 2 * k : b[n] <= N - 1
  BY DEF Nested
<1> HIDE DEF a2, b2, s2
<1>5. ASSUME NEW c \in 0 .. 2 * k, NEW q \in a[c] .. b[c]
      PROVE  \E y \in a[c] .. b[c] : p2[q] = p[y]
  <2>1. q \in 0 .. N - 1
    BY <1>1, <1>4
  <2>2. CASE q \notin a[k] .. b[k]
    BY <2>1, <2>2
  <2>3. CASE q \in a[k] .. b[k]
    <3>1. PICK y \in a[k] .. b[k] : p2[q] = p[y]
      BY <2>3
    <3>2. k \in k .. 2 * k
      BY <1>1
    <3>3. \/ \A x \in a[k] .. b[k] : x \in a[c] .. b[c]
          \/ \A x \in a[k] .. b[k] : x \notin a[c] .. b[c]
      BY <3>2 DEF Apart
    <3>4. y \in a[c] .. b[c]
      BY <2>3, <3>3
    <3>5. QED
      BY <3>1, <3>4
  <2>4. QED
    BY <2>2, <2>3
<1>6. ASSUME NEW n \in 0 .. k, a2[n] < b2[n]
      PROVE  /\ Dimension(s2[n]) \in Dims /\ Position(s2[n]) \in 0 .. TMax
             /\ a2[2 * n + 2] <= b2[2 * n + 2]
             /\ \A q \in a2[2 * n + 1] .. b2[2 * n + 1] :
                    pts[p2[q]][Dimension(s2[n])] <= Position(s2[n])
             /\ \A q \in a2[2 * n + 2] .. b2[2 * n + 2] :
                    pts[p2[q]][Dimension(s2[n])] >= Position(s2[n])
  <2>1. CASE n = k
    <3>1. a2[k] = a[k] /\ b2[k] = b[k]
      BY <1>1, <1>2
    <3>2. QED
      BY <1>2, <1>3, <1>6, <2>1, <3>1
  <2>2. CASE n # k
    <3>1. /\ n \in 0 .. k - 1 /\ n \in 0 .. 2 * k
          /\ 2 * n + 1 \in 0 .. 2 * k /\ 2 * n + 2 \in 0 .. 2 * k
      BY SMTT(30), <1>1, <2>2
    <3>2. /\ a2[n] = a[n] /\ b2[n] = b[n] /\ s2[n] = s[n]
          /\ a2[2 * n + 1] = a[2 * n + 1] /\ b2[2 * n + 1] = b[2 * n + 1]
          /\ a2[2 * n + 2] = a[2 * n + 2] /\ b2[2 * n + 2] = b[2 * n + 2]
      BY <1>2, <1>3, <3>1
    <3>3. /\ Dimension(s[n]) \in Dims /\ Position(s[n]) \in 0 .. TMax
          /\ a[2 * n + 2] <= b[2 * n + 2]
          /\ \A q \in a[2 * n + 1] .. b[2 * n + 1] : pts[p[q]][Dimension(s[n])] <= Position(s[n])
          /\ \A q \in a[2 * n + 2] .. b[2 * n + 2] : pts[p[q]][Dimension(s[n])] >= Position(s[n])
      BY <1>6, <3>1, <3>2 DEF Planes
    <3>4. ASSUME NEW q \in a[2 * n + 1] .. b[2 * n + 1]
          PROVE  pts[p2[q]][Dimension(s[n])] <= Position(s[n])
      <4>1. PICK y \in a[2 * n + 1] .. b[2 * n + 1] : p2[q] = p[y]
        BY <1>5, <3>1
      <4>2. QED
        BY <3>3, <4>1
    <3>5. ASSUME NEW q \in a[2 * n + 2] .. b[2 * n + 2]
          PROVE  pts[p2[q]][Dimension(s[n])] >= Position(s[n])
      <4>1. PICK y \in a[2 * n + 2] .. b[2 * n + 2] : p2[q] = p[y]
        BY <1>5, <3>1
      <4>2. QED
        BY <3>3, <4>1
    <3>6. QED
      BY <3>2, <3>3, <3>4, <3>5
  <2>3. QED
    BY <2>1, <2>2
<1>7. (k + 1) - 1 = k
  BY <1>1
<1>8. Planes(k + 1, a2, b2, p2, s2)
  BY <1>6, <1>7 DEF Planes
<1>9. QED
  BY <1>8 DEF a2, b2, s2

-----------------------------------------------------------------------------
(* The build keeps all of it *)

TreeTypes ==
    /\ pts \in Clouds /\ node \in 0 .. Interior
    /\ perm \in [0 .. N - 1 -> 1 .. N] /\ IsInjective(perm)
    /\ split \in [0 .. Interior - 1 -> Nat]
    /\ pc # "build" => node = Interior
Laid(k, l, p, s) ==
    \E a, b : Nested(k, a, b, l) /\ Apart(k, a, b) /\ Planes(k, a, b, p, s)
TreeInv == TreeTypes /\ Laid(node, lr, perm, split)

\* The node that is split begins and ends where lr says.
LEMMA BoundsRead ==
    ASSUME pts \in Clouds, node \in 0 .. Interior - 1, NEW a, NEW b, Nested(node, a, b, lr)
    PROVE  /\ Lo = a[node] /\ Hi = b[node] /\ Lo \in Nat /\ Hi \in Int
           /\ Lo <= Hi + 1 /\ Hi <= N - 1
<1>1. Interior \in Nat /\ node \in 0 .. 2 * node /\ node \in Nat
  BY TreeSize
<1>2. /\ a \in [0 .. 2 * node -> Nat] /\ b \in [0 .. 2 * node -> Int]
      /\ \A n \in 0 .. 2 * node : a[n] <= b[n] + 1 /\ b[n] <= N - 1
      /\ \A n \in 0 .. 2 * node : a[n] = IF Leftmost(n) THEN 0 ELSE b[n - 1] + 1
      /\ \A n \in 0 .. 2 * node : n >= node \/ (n = node - 1 /\ node < Interior) => lr[Slot(n)] = b[n]
  BY DEF Nested
<1>3. Slot(node) = node /\ lr[Slot(node)] = b[node]
  BY <1>1, <1>2 DEF Slot
<1>4. Lo = IF Leftmost(node) THEN 0 ELSE lr[node - 1] + 1
  BY DEF Lo, Leftmost
<1>5. Lo = a[node]
  <2>1. CASE Leftmost(node)
    BY <1>1, <1>2, <1>4, <2>1
  <2>2. CASE ~Leftmost(node)
    <3>1. node # 0
      <4>1. OnLevel(0, 0) /\ 0 \in 0 .. 2 * Interior
        BY <1>1, Powers, Doubling DEF OnLevel
      <4>2. Level(0) = 0
        BY <4>1, NodeLevel
      <4>3. QED
        BY <2>2, <4>2, Powers DEF Leftmost
    <3>2. node - 1 \in 0 .. 2 * node /\ Slot(node - 1) = node - 1
      BY <1>1, <3>1 DEF Slot
    <3>3. lr[node - 1] = b[node - 1]
      <4> DEFINE n == node - 1
      <4>1. lr[Slot(n)] = b[n]
        <5>1. n \in 0 .. 2 * node /\ n = node - 1 /\ node < Interior
          BY <1>1, <3>2
        <5> HIDE DEF n
        <5>2. QED
          BY <1>2, <5>1
      <4>2. QED
        BY <3>2, <4>1
    <3>4. QED
      BY <1>1, <1>2, <1>4, <2>2, <3>3
  <2>3. QED
    BY <2>1, <2>2
<1>6. QED
  BY <1>1, <1>2, <1>3, <1>5 DEF Hi

\* Min of a set of natural numbers is its least member.
LEMMA MinIs ==
    ASSUME NEW S \in SUBSET Nat, S # {}
    PROVE  Min(S) \in S /\ \A x \in S : Min(S) <= x
<1>1. PICK x \in S : \A y \in S : x <= y
  BY NatMin
<1>2. QED
  BY <1>1 DEF Min

\* Max of a bounded set of natural numbers is its greatest member.
LEMMA MaxIs ==
    ASSUME NEW n \in Nat, NEW S \in SUBSET (0 .. n), S # {}
    PROVE  Max(S) \in S /\ \A x \in S : x <= Max(S)
<1> DEFINE T == {n - x : x \in S}
<1>1. T \subseteq Nat /\ T # {}
  <2>1. \A x \in S : n - x \in Nat
    OBVIOUS
  <2>2. QED
    BY <2>1
<1>2. PICK t \in T : \A y \in T : t <= y
  <2> HIDE DEF T
  <2>1. QED
    BY <1>1, NatMin
<1>3. PICK x \in S : t = n - x
  BY <1>2
<1>4. ASSUME NEW y \in S PROVE x >= y
  <2>1. n - y \in T
    OBVIOUS
  <2>2. t <= n - y
    BY <1>2, <2>1
  <2>3. x \in Nat /\ y \in Nat
    OBVIOUS
  <2>4. QED
    BY <1>3, <2>2, <2>3
<1>5. Max(S) \in S /\ \A y \in S : Max(S) >= y
  BY <1>4 DEF Max
<1>6. QED
  BY <1>5

\* One dimension is the widest.
LEMMA WidestIsOne ==
    ASSUME pts \in Clouds, perm \in [0 .. N - 1 -> 1 .. N],
           Lo \in Nat, Hi \in Int, Lo < Hi, Hi <= N - 1
    PROVE  WidestDim \in Dims
<1>1. TMax \in Nat /\ NDim \in 1 .. 8 /\ N \in Nat
      /\ \A i \in 1 .. N, e \in Dims : pts[i][e] \in 0 .. TMax
  BY TreeAssumption, TreeSize
<1>2. ASSUME NEW d \in Dims PROVE Extent(d) \in 0 .. TMax
  <2> DEFINE xs == {At(p, d) : p \in Lo .. Hi}
  <2>1. xs \subseteq 0 .. TMax
    <3>1. \A p \in Lo .. Hi : perm[p] \in 1 .. N
      BY <1>1
    <3>2. QED
      BY <1>1, <3>1 DEF At
  <2>2. xs # {}
    <3>1. Lo \in Lo .. Hi
      OBVIOUS
    <3>2. QED
      BY <3>1
  <2>3. Extent(d) = Max(xs) - Min(xs)
    BY DEF Extent
  <2> HIDE DEF xs
  <2>4. Max(xs) \in xs /\ \A x \in xs : x <= Max(xs)
    BY <1>1, <2>1, <2>2, MaxIs
  <2>5. Min(xs) \in xs
    <3>1. xs \subseteq Nat
      BY <1>1, <2>1
    <3>2. QED
      BY <2>2, <3>1, MinIs
  <2> DEFINE hi == Max(xs)
             lo == Min(xs)
  <2>6. hi \in 0 .. TMax /\ lo \in 0 .. TMax /\ lo <= hi /\ Extent(d) = hi - lo
    BY <2>1, <2>3, <2>4, <2>5
  <2> HIDE DEF hi, lo
  <2>7. QED
    BY <1>1, <2>6
<1> DEFINE E == {Extent(d) : d \in Dims}
           W == {d \in Dims : \A e \in Dims : Extent(e) <= Extent(d)}
<1>3. E \subseteq 0 .. TMax /\ E # {}
  <2>1. 1 \in Dims
    BY <1>1 DEF Dims
  <2>2. QED
    BY <1>2, <2>1
<1>4. Max(E) \in E /\ \A x \in E : x <= Max(E)
  <2> HIDE DEF E
  <2>1. QED
    BY <1>1, <1>3, MaxIs
<1>5. W # {}
  <2>1. PICK d \in Dims : Extent(d) = Max(E)
    BY <1>4
  <2>2. \A e \in Dims : Extent(e) <= Extent(d)
    BY <1>4, <2>1
  <2>3. QED
    BY <2>2
<1>6. W \subseteq 0 .. NDim
  BY <1>1 DEF Dims
<1>7. WidestDim = Max(W)
  BY DEF WidestDim
<1>8. Max(W) \in W
  <2> HIDE DEF W
  <2>1. NDim \in Nat
    BY <1>1
  <2>2. QED
    BY <1>5, <1>6, <2>1, MaxIs
<1>9. QED
  BY <1>7, <1>8

\* A node of at most one point is split without moving anything.
LEMMA ThinKeeps ==
    ASSUME TreeTypes, node < Interior, NEW a, NEW b, Nested(node, a, b, lr),
           Apart(node, a, b), Planes(node, a, b, perm, split), SplitThin
    PROVE  /\ Laid(node + 1, lr', perm', split')
           /\ perm' = perm /\ split' \in [0 .. Interior - 1 -> Nat]
<1> USE DEF TreeTypes
<1>1. pts \in Clouds /\ node \in 0 .. Interior - 1 /\ Interior \in Nat
  BY TreeSize
<1>2. Lo = a[node] /\ Hi = b[node] /\ Lo \in Nat /\ Hi \in Int /\ Lo <= Hi + 1 /\ Hi <= N - 1
  BY <1>1, BoundsRead
<1>3. Lo >= Hi /\ perm' = perm
      /\ lr' = [lr EXCEPT ![LeftIn(node)] = (Hi + 1) - 1, ![LeftIn(node) + 1] = Hi]
  BY DEF SplitThin, SplitInto
<1>4. PICK g \in Garbage : split' = [split EXCEPT ![node] = g]
  BY DEF SplitThin
<1>5. g \in Nat
  BY TreeAssumption
<1> DEFINE m == Hi + 1
<1>6. m \in Nat /\ a[node] <= m /\ m <= b[node] + 1 /\ ~(a[node] < b[node])
  BY <1>2, <1>3
<1>7. lr' = [lr EXCEPT ![LeftIn(node)] = m - 1, ![LeftIn(node) + 1] = b[node]]
  BY <1>2, <1>3
<1> HIDE DEF m
<1>8. Nested(node + 1, FirstsWith(node, a, m), LastsWith(node, b, m), lr')
  BY <1>1, <1>6, <1>7, SplitNests
<1>9. Apart(node + 1, FirstsWith(node, a, m), LastsWith(node, b, m))
  <2>1. node \in Nat /\ a \in [0 .. 2 * node -> Nat] /\ b \in [0 .. 2 * node -> Int]
    BY <1>1 DEF Nested
  <2>2. QED
    BY <1>6, <2>1, SplitParts
<1>10. Planes(node + 1, FirstsWith(node, a, m), LastsWith(node, b, m), perm', split')
  <2>1. /\ \A x \in 0 .. N - 1 : x \notin a[node] .. b[node] => perm'[x] = perm[x]
        /\ \A x \in a[node] .. b[node] : \E y \in a[node] .. b[node] : perm'[x] = perm[y]
    BY <1>3
  <2>2. Planes(node + 1, FirstsWith(node, a, m), LastsWith(node, b, m), perm',
               [split EXCEPT ![node] = g])
    BY <1>1, <1>5, <1>6, <2>1, SplitPlanes
  <2>3. QED
    BY <1>4, <2>2
<1>11. split' \in [0 .. Interior - 1 -> Nat]
  BY <1>4, <1>5
<1>12. QED
  BY <1>3, <1>8, <1>9, <1>10, <1>11 DEF Laid

\* A larger node is sorted along one dimension and cut.
LEMMA CutKeeps ==
    ASSUME TreeTypes, node < Interior, NEW a, NEW b, Nested(node, a, b, lr),
           Apart(node, a, b), Planes(node, a, b, perm, split), SplitNode
    PROVE  /\ Laid(node + 1, lr', perm', split')
           /\ perm' \in [0 .. N - 1 -> 1 .. N] /\ IsInjective(perm')
           /\ split' \in [0 .. Interior - 1 -> Nat]
<1> USE DEF TreeTypes
<1>1. pts \in Clouds /\ node \in 0 .. Interior - 1 /\ Interior \in Nat /\ N \in Nat
      /\ \A i \in 1 .. N, e \in Dims : pts[i][e] \in 0 .. TMax
  BY TreeSize
<1>2. Lo = a[node] /\ Hi = b[node] /\ Lo \in Nat /\ Hi \in Int /\ Lo <= Hi + 1 /\ Hi <= N - 1
  BY <1>1, BoundsRead
<1>3. Lo < Hi
  BY DEF SplitNode
<1> DEFINE d      == WidestDim
           median == (1 + Lo + Hi) \div 2
<1>4. PICK up \in BOOLEAN :
        LET sorted == SortBy(d, up)
            s      == Position(pts[sorted[median]][d])
        IN  /\ perm' = sorted
            /\ split' = [split EXCEPT ![node] = s + (d - 1)]
            /\ SplitInto(Cut(sorted, d, median, s))
  BY DEF SplitNode
<1>5. d \in Dims
  BY <1>1, <1>2, <1>3, WidestIsOne DEF TreeTypes
<1> DEFINE sorted == SortBy(d, up)
           x      == pts[sorted[median]][d]
           s      == Position(x)
           m      == Cut(sorted, d, median, s)
           v      == s + (d - 1)
<1> HIDE DEF d
<1>6. /\ sorted \in [0 .. N - 1 -> 1 .. N] /\ IsInjective(sorted)
      /\ \A p \in 0 .. N - 1 : p \notin Lo .. Hi => sorted[p] = perm[p]
      /\ \A p \in Lo .. Hi : \E q \in Lo .. Hi : sorted[p] = perm[q]
      /\ \A p, q \in Lo .. Hi : p < q => pts[sorted[p]][d] <= pts[sorted[q]][d]
  <2>1. Hi \in Nat /\ Lo <= Hi
    BY <1>2, <1>3
  <2>2. /\ perm \in [0 .. N - 1 -> 1 .. N] /\ IsInjective(perm) /\ pts \in Clouds
        /\ Lo \in Nat /\ Hi <= N - 1
    BY <1>1, <1>2
  <2>3. QED
    BY <1>5, <2>1, <2>2, SortedRight
<1>7. median \in Nat /\ Lo <= median /\ median <= Hi
  BY <1>2, <1>3
<1>8. perm' = sorted /\ split' = [split EXCEPT ![node] = v] /\ SplitInto(m)
  BY <1>4
<1> HIDE DEF sorted, median
<1>9. \A p \in Lo .. Hi : pts[sorted[p]][d] \in 0 .. TMax
  <2>1. \A p \in Lo .. Hi : p \in 0 .. N - 1
    BY SMTT(30), <1>1, <1>2
  <2>2. QED
    BY <1>1, <1>5, <1>6, <2>1
<1>10. x \in Nat /\ x = pts[sorted[median]][d]
  <2>1. median \in Lo .. Hi
    BY <1>2, <1>7
  <2>2. x \in 0 .. TMax
    BY <1>9, <2>1
  <2>3. QED
    BY <2>2, TreeAssumption
<1> HIDE DEF x
<1>11. /\ s \in Nat /\ s <= x /\ v \in Nat
       /\ Position(v) = s /\ Dimension(v) = d
  BY <1>5, <1>10, Packed
<1>20. s \in 0 .. TMax
  <2>1. x \in 0 .. TMax
    BY <1>2, <1>7, <1>9, <1>10
  <2>2. QED
    BY <1>11, <2>1, TreeAssumption
<1> HIDE DEF v
<1>12. /\ m \in Lo .. median
       /\ \A p \in Lo .. m - 1 : pts[sorted[p]][d] <= s
       /\ \A p \in m .. Hi : pts[sorted[p]][d] >= s
  <2>1. Hi \in Nat /\ s \in Int /\ s <= pts[sorted[median]][d]
    BY <1>2, <1>3, <1>10, <1>11
  <2>2. \A p \in Lo .. Hi : pts[sorted[p]][d] \in Int
    BY <1>9
  <2> HIDE DEF s
  <2>3. QED
    BY <1>2, <1>6, <1>7, <2>1, <2>2, CutRight
<1> HIDE DEF m, s
<1>13. m \in Nat /\ a[node] <= m /\ m <= b[node] + 1
  BY <1>2, <1>7, <1>12
<1>14. lr' = [lr EXCEPT ![LeftIn(node)] = m - 1, ![LeftIn(node) + 1] = b[node]]
  BY <1>2, <1>8 DEF SplitInto
<1>15. Nested(node + 1, FirstsWith(node, a, m), LastsWith(node, b, m), lr')
  BY <1>1, <1>13, <1>14, SplitNests
<1>16. Apart(node + 1, FirstsWith(node, a, m), LastsWith(node, b, m))
  <2>1. node \in Nat /\ a \in [0 .. 2 * node -> Nat] /\ b \in [0 .. 2 * node -> Int]
    BY SMTT(30), <1>1 DEF Nested
  <2>2. QED
    BY <1>13, <2>1, SplitParts
<1>17. Planes(node + 1, FirstsWith(node, a, m), LastsWith(node, b, m), perm', split')
  <2>1. /\ \A y \in 0 .. N - 1 : y \notin a[node] .. b[node] => sorted[y] = perm[y]
        /\ \A y \in a[node] .. b[node] : \E z \in a[node] .. b[node] : sorted[y] = perm[z]
    BY <1>2, <1>6
  <2>2. /\ Dimension(v) \in Dims /\ Position(v) \in 0 .. TMax /\ m <= b[node]
        /\ \A q \in a[node] .. m - 1 : pts[sorted[q]][Dimension(v)] <= Position(v)
        /\ \A q \in m .. b[node] : pts[sorted[q]][Dimension(v)] >= Position(v)
    BY <1>2, <1>5, <1>7, <1>11, <1>12, <1>20
  <2>3. Planes(node + 1, FirstsWith(node, a, m), LastsWith(node, b, m), sorted,
               [split EXCEPT ![node] = v])
    BY <1>1, <1>11, <1>13, <2>1, <2>2, SplitPlanes
  <2>4. QED
    BY <1>8, <2>3
<1>18. split' \in [0 .. Interior - 1 -> Nat]
  BY <1>8, <1>11
<1>19. QED
  BY <1>6, <1>8, <1>15, <1>16, <1>17, <1>18 DEF Laid

\* What is known of the build is about the same points after a step.
LEMMA LaidKept ==
    ASSUME pts' = pts, Laid(node', lr', perm', split')
    PROVE  Laid(node, lr, perm, split)'
<1>1. N' = N
  BY DEF N
<1>2. Bottom' = Bottom
  BY <1>1 DEF Bottom
<1>3. Interior' = Interior
  BY <1>2 DEF Interior
<1>4. ASSUME NEW n PROVE Slot(n)' = Slot(n)
  BY <1>3 DEF Slot
<1>5. ASSUME NEW n PROVE Leftmost(n)' = Leftmost(n)
  <2>1. Level(n)' = Level(n)
    BY <1>1 DEF Level
  <2>2. QED
    BY <2>1 DEF Leftmost
<1>6. PICK a, b : /\ Nested(node', a, b, lr') /\ Apart(node', a, b)
                  /\ Planes(node', a, b, perm', split')
  BY DEF Laid
<1>7. Nested(node, a, b, lr)'
  <2>1. \A n : Slot(n)' = Slot(n) /\ Leftmost(n)' = Leftmost(n)
    BY <1>4, <1>5
  <2>2. QED
    BY <1>1, <1>2, <1>3, <1>6, <2>1 DEF Nested
<1>8. Apart(node, a, b)'
  BY <1>6 DEF Apart
<1>9. Planes(node, a, b, perm, split)'
  BY <1>6 DEF Planes
<1>10. QED
  BY <1>7, <1>8, <1>9 DEF Laid

\* A step that leaves the tree alone keeps what is known of it.
LEMMA TreeSame ==
    ASSUME TreeInv, UNCHANGED tree, pc' # "build" => node = Interior
    PROVE  TreeInv'
<1>1. /\ pts' = pts /\ node' = node /\ perm' = perm /\ lr' = lr /\ split' = split
  BY DEF tree
<1>2. N' = N /\ Interior' = Interior
  BY <1>1 DEF N, Interior, Bottom
<1>3. TreeTypes'
  BY <1>1, <1>2 DEF TreeInv, TreeTypes
<1>4. Laid(node, lr, perm, split)'
  BY <1>1, LaidKept DEF TreeInv
<1>5. QED
  BY <1>3, <1>4 DEF TreeInv

\* At first, one node holds all the points.
LEMMA TreeStarts == ASSUME Init PROVE TreeInv
<1>1. pts \in Clouds /\ node = 0
  BY DEF Init
<1>2. /\ Interior \in Nat /\ N \in Nat \ {0} /\ Bottom = Interior + 1
  BY <1>1, TreeSize
<1>3. TreeTypes
  <2>1. perm = [p \in 0 .. N - 1 |-> p + 1] /\ split = [n \in 0 .. Interior - 1 |-> 0]
    BY DEF Init
  <2>2. perm \in [0 .. N - 1 -> 1 .. N] /\ IsInjective(perm)
    BY <1>2, <2>1 DEF IsInjective
  <2>3. split \in [0 .. Interior - 1 -> Nat]
    BY <2>1
  <2>4. pc # "build" => node = Interior
    BY <1>1 DEF Init
  <2>5. QED
    BY <1>1, <1>2, <2>2, <2>3, <2>4 DEF TreeTypes
<1> DEFINE a == [n \in 0 .. 0 |-> 0]
           b == [n \in 0 .. 0 |-> N - 1]
<1>4. Leftmost(0)
  <2>1. OnLevel(0, 0) /\ 0 \in 0 .. 2 * Interior
    BY <1>2, Powers, Doubling DEF OnLevel
  <2>2. Level(0) = 0
    BY <1>1, <2>1, NodeLevel
  <2>3. QED
    BY <2>2, Powers DEF Leftmost
<1>5. Nested(0, a, b, lr)
  <2>1. lr = [i \in 0 .. Bottom - 1 |-> IF i = 0 THEN N - 1 ELSE 0]
    BY DEF Init
  <2>2. lr \in [0 .. Bottom - 1 -> Int] /\ lr[0] = N - 1
    BY <1>2, <2>1
  <2>3. Slot(0) = 0
    BY <1>2 DEF Slot
  <2>4. /\ a \in [0 .. 2 * 0 -> Nat] /\ b \in [0 .. 2 * 0 -> Int] /\ a[0] = 0 /\ b[0] = N - 1
        /\ \A n \in 0 .. 2 * 0 : n = 0
    BY <1>2
  <2> HIDE DEF a, b
  <2>5. \A n \in 0 .. 2 * 0 : a[n] <= b[n] + 1 /\ b[n] <= N - 1
    BY <1>2, <2>4
  <2>6. \A n \in 0 .. 2 * 0 : a[n] = IF Leftmost(n) THEN 0 ELSE b[n - 1] + 1
    BY <1>4, <2>4
  <2>7. \A n \in 0 .. 2 * 0 : lr[Slot(n)] = b[n]
    BY <2>2, <2>3, <2>4
  <2>8. 0 .. 0 - 1 = {}
    OBVIOUS
  <2>9. QED
    BY <2>2, <2>4, <2>5, <2>6, <2>7, <2>8 DEF Nested
<1>6. Apart(0, a, b)
  <2>1. \A n \in 0 .. 2 * 0 : n = 0
    OBVIOUS
  <2> HIDE DEF a, b
  <2>2. QED
    BY <2>1 DEF Apart
<1>7. Planes(0, a, b, perm, split)
  <2>1. 0 .. 0 - 1 = {}
    OBVIOUS
  <2> HIDE DEF a, b
  <2>2. QED
    BY <2>1 DEF Planes
<1>8. QED
  <2> HIDE DEF a, b
  <2>1. QED
    BY <1>1, <1>3, <1>5, <1>6, <1>7 DEF TreeInv, Laid

\* A step of kdtree_build keeps what is known of the tree.
LEMMA BuildKeeps == ASSUME TreeInv, Build PROVE TreeInv'
<1>1. /\ node < Interior /\ node' = node + 1 /\ pts' = pts /\ pc = "build"
      /\ pc' = IF node' = Interior THEN "ready" ELSE pc
      /\ SplitThin \/ SplitNode
  BY DEF Build
<1>2. TreeTypes /\ pts \in Clouds /\ Interior \in Nat
  BY TreeSize DEF TreeInv, TreeTypes
<1>3. PICK a, b : Nested(node, a, b, lr) /\ Apart(node, a, b) /\ Planes(node, a, b, perm, split)
  BY DEF TreeInv, Laid
<1>4. /\ Laid(node + 1, lr', perm', split')
      /\ perm' \in [0 .. N - 1 -> 1 .. N] /\ IsInjective(perm')
      /\ split' \in [0 .. Interior - 1 -> Nat]
  <2>1. CASE SplitThin
    <3>1. Laid(node + 1, lr', perm', split') /\ perm' = perm /\ split' \in [0 .. Interior - 1 -> Nat]
      BY <1>1, <1>2, <1>3, <2>1, ThinKeeps
    <3>2. QED
      BY <1>2, <3>1 DEF TreeTypes
  <2>2. CASE SplitNode
    BY <1>1, <1>2, <1>3, <2>2, CutKeeps
  <2>3. QED
    BY <1>1, <2>1, <2>2
<1>5. N' = N /\ Interior' = Interior
  BY <1>1 DEF N, Interior, Bottom
<1>6. TreeTypes'
  <2>1. node' \in 0 .. Interior /\ (pc' # "build" => node' = Interior)
    BY <1>1, <1>2 DEF TreeTypes
  <2>2. QED
    BY <1>1, <1>2, <1>4, <1>5, <2>1 DEF TreeTypes
<1>7. Laid(node, lr, perm, split)'
  BY <1>1, <1>4, LaidKept
<1>8. QED
  BY <1>6, <1>7 DEF TreeInv

-----------------------------------------------------------------------------
(* Quads are searched for when the tree is built *)

\* What the phase of a quad says of the tree.
InPhase == /\ phase \in {"perm", "tried"} => pc = "ready"
           /\ phase = "search" => pc = "range"
BuildInv == TreeInv /\ InPhase

\* At first, nothing is asked of the tree.
LEMMA BuildInvStarts == ASSUME QuadInit PROVE BuildInv
BY TreeStarts DEF QuadInit, BuildInv, InPhase

\* Searches leave the tree alone.
LEMMA SearchesLeave ==
    ASSUME StartRange \/ VisitRange \/ StartNearest \/ VisitNear \/ Return
    PROVE  UNCHANGED tree /\ pc # "build"
<1>1. CASE StartRange
  BY <1>1 DEF StartRange, Ask
<1>2. CASE VisitRange
  BY <1>2 DEF VisitRange
<1>3. CASE StartNearest
  BY <1>3 DEF StartNearest, Ask
<1>4. CASE VisitNear
  BY <1>4 DEF VisitNear
<1>5. CASE Return
  BY <1>5 DEF Return, Answered
<1>6. QED
  BY <1>1, <1>2, <1>3, <1>4, <1>5

\* A search leaves the tree alone, and a quad waits for it.
LEMMA BuildInvKept == ASSUME BuildInv, [QuadNext]_<<vars, quadvars>> PROVE BuildInv'
<1>1. CASE UNCHANGED <<vars, quadvars>>
  <2>1. UNCHANGED tree /\ pc' = pc /\ phase' = phase
    BY <1>1 DEF vars, quadvars
  <2>2. QED
    BY <2>1, TreeSame DEF BuildInv, InPhase, TreeInv, TreeTypes
<1>2. CASE Other
  <2>1. phase = "idle" /\ phase' = phase /\ Next
    BY <1>2 DEF Other, quadvars
  <2>2. CASE Build
    BY <2>1, <2>2, BuildKeeps DEF BuildInv, InPhase
  <2>3. CASE StartRange \/ VisitRange \/ StartNearest \/ VisitNear \/ Return
    <3>1. UNCHANGED tree /\ node = Interior
      BY <2>3, SearchesLeave DEF BuildInv, TreeInv, TreeTypes
    <3>2. QED
      BY <2>1, <3>1, TreeSame DEF BuildInv, InPhase
  <2>4. QED
    BY <2>1, <2>2, <2>3 DEF Next
<1>3. CASE Visit
  <2>1. UNCHANGED tree /\ pc' = pc /\ phase' = phase
    BY <1>3 DEF Visit, VisitRange, quadvars
  <2>2. QED
    BY <2>1, TreeSame DEF BuildInv, InPhase, TreeInv, TreeTypes
<1>4. CASE StartQuad \/ Skip \/ Backtrack \/ TurnAround
  <2>1. UNCHANGED tree /\ pc' = pc /\ pc = "ready" /\ phase' \in {"perm", "tried"}
    BY <1>4 DEF StartQuad, Skip, Backtrack, TurnAround, vars, BuildInv, InPhase
  <2>2. QED
    BY <2>1, TreeSame DEF BuildInv, InPhase, TreeInv, TreeTypes
<1>5. CASE EndQuad
  <2>1. UNCHANGED tree /\ pc' = pc /\ phase' = "idle"
    BY <1>5 DEF EndQuad, vars
  <2>2. QED
    BY <2>1, TreeSame DEF BuildInv, InPhase, TreeInv, TreeTypes
<1>6. CASE PlaceStar
  <2>1. pc = "ready" /\ phase = "perm"
    BY <1>6 DEF PlaceStar, BuildInv, InPhase
  <2>2. \/ UNCHANGED tree /\ pc' = pc /\ phase' = phase
        \/ UNCHANGED tree /\ pc' = "range" /\ phase' = "search"
    BY <1>6 DEF PlaceStar, Filled, vars
  <2>3. QED
    BY <2>1, <2>2, TreeSame DEF BuildInv, InPhase, TreeInv, TreeTypes
<1>7. CASE Resolve
  <2>1. UNCHANGED tree /\ pc = "range" /\ pc' = "ready" /\ phase' = "perm"
    BY <1>7 DEF Resolve, BuildInv, InPhase
  <2>2. QED
    BY <2>1, TreeSame DEF BuildInv, InPhase, TreeInv, TreeTypes
<1>8. QED
  BY <1>1, <1>2, <1>3, <1>4, <1>5, <1>6, <1>7 DEF QuadNext

-----------------------------------------------------------------------------
(* The tree that was built *)

\* The first and the last leaf below a node are those of its children.
LEMMA LeavesOf ==
    ASSUME pts \in Clouds
    PROVE  /\ \A n \in Interior .. 2 * Interior :
                FirstLeaf(n) = n - Interior /\ LastLeaf(n) = n - Interior
           /\ \A n \in 0 .. Interior - 1 : /\ FirstLeaf(n) = FirstLeaf(2 * n + 1)
                                           /\ LastLeaf(n) = LastLeaf(2 * n + 2)
<1> DEFINE I == Interior
           b == Bottommost
<1>1. I \in Nat /\ b \in 0 .. 29 /\ I = Pow2[b] - 1 /\ 2 * I = Pow2[b + 1] - 2
      /\ Levels(N) - 1 = b
  BY TreeSize
<1>2. \A n \in 0 .. 2 * I : Depth(n) = b - Level(n) /\ Level(n) \in 0 .. b
  BY <1>1, NodeLevel DEF Depth
<1>3. \A n : /\ FirstLeaf(n) = (n + 1) * Pow2[Depth(n)] - 1 - I
             /\ LastLeaf(n) = n * Pow2[Depth(n)] + (Pow2[Depth(n)] - 1) * 2 - I
  BY DEF FirstLeaf, LastLeaf
<1> HIDE DEF I, b
<1>4. ASSUME NEW n \in I .. 2 * I PROVE FirstLeaf(n) = n - I /\ LastLeaf(n) = n - I
  <2>1. OnLevel(n, b)
    <3>1. Pow2[b] \in Nat /\ Pow2[b + 1] \in Nat
      BY <1>1, Powers
    <3>2. QED
      BY <1>1, <3>1 DEF OnLevel
  <2>2. n \in 0 .. 2 * I
    BY <1>1
  <2>3. Level(n) = b
    BY <1>1, <2>1, <2>2, NodeLevel DEF I
  <2>4. Pow2[Depth(n)] = 1
    <3>1. Depth(n) = 0
      BY <1>1, <1>2, <2>2, <2>3
    <3>2. QED
      BY <3>1, Powers
  <2>5. QED
    BY <1>1, <1>3, <2>2, <2>4
<1>5. ASSUME NEW n \in 0 .. I - 1
      PROVE  FirstLeaf(n) = FirstLeaf(2 * n + 1) /\ LastLeaf(n) = LastLeaf(2 * n + 2)
  <2>1. /\ 2 * n + 1 \in 0 .. 2 * I /\ 2 * n + 2 \in 0 .. 2 * I /\ n \in 0 .. 2 * I
        /\ Level(n) + 1 \in 1 .. b
        /\ Level(2 * n + 1) = Level(n) + 1 /\ Level(2 * n + 2) = Level(n) + 1
    BY Children DEF I, b
  <2> DEFINE d == b - (Level(n) + 1)
             x == Pow2[d]
  <2>2. Depth(2 * n + 1) = d /\ Depth(2 * n + 2) = d /\ Depth(n) = d + 1 /\ d \in 0 .. 29
    <3> DEFINE v == Level(n)
    <3>1. /\ Depth(n) = b - v /\ Depth(2 * n + 1) = b - (v + 1) /\ Depth(2 * n + 2) = b - (v + 1)
          /\ v \in 0 .. b /\ v + 1 \in 1 .. b /\ d = b - (v + 1)
      BY <1>2, <2>1
    <3> HIDE DEF v, d
    <3>2. QED
      BY <1>1, <3>1
  <2> HIDE DEF d
  <2>3. Pow2[d + 1] = 2 * x /\ x \in Nat
    <3>1. Pow2[d + 1] = 2 * Pow2[d]
      BY <2>2, Doubling
    <3>2. d \in 0 .. 30
      BY <2>2
    <3>3. Pow2[d] \in Nat
      BY <3>2, Powers
    <3>4. QED
      BY <3>1, <3>3
  <2> HIDE DEF x
  <2>4. /\ FirstLeaf(n) = (n + 1) * (2 * x) - 1 - I
        /\ FirstLeaf(2 * n + 1) = (2 * n + 1 + 1) * x - 1 - I
        /\ LastLeaf(n) = n * (2 * x) + (2 * x - 1) * 2 - I
        /\ LastLeaf(2 * n + 2) = (2 * n + 2) * x + (x - 1) * 2 - I
    BY <1>3, <2>2, <2>3 DEF x
  <2>5. /\ (n + 1) * (2 * x) = (2 * n + 1 + 1) * x
        /\ n * (2 * x) + (2 * x - 1) * 2 - I = (2 * n + 2) * x + (x - 1) * 2 - I
    BY <1>1, <2>3
  <2>6. FirstLeaf(n) = FirstLeaf(2 * n + 1)
    <3> DEFINE f1 == (n + 1) * (2 * x)
               f2 == (2 * n + 1 + 1) * x
    <3>1. f1 = f2
      BY <2>5
    <3>2. FirstLeaf(n) = f1 - 1 - I
      BY <2>4
    <3>3. FirstLeaf(2 * n + 1) = f2 - 1 - I
      BY <2>4
    <3> HIDE DEF f1, f2
    <3>4. QED
      BY <3>1, <3>2, <3>3
  <2>7. LastLeaf(n) = LastLeaf(2 * n + 2)
    <3> DEFINE l1 == n * (2 * x) + (2 * x - 1) * 2 - I
               l2 == (2 * n + 2) * x + (x - 1) * 2 - I
    <3>1. l1 = l2
      BY <2>5
    <3>2. LastLeaf(n) = l1
      BY <2>4
    <3>3. LastLeaf(2 * n + 2) = l2
      BY <2>4
    <3> HIDE DEF l1, l2
    <3>4. QED
      BY <3>1, <3>2, <3>3
  <2>8. QED
    BY <2>6, <2>7
<1>6. QED
  BY <1>4, <1>5 DEF I

\* What is read from lr after the build is what the build had put where.
LEMMA PlacesRight ==
    ASSUME pts \in Clouds, NEW a, NEW b, Nested(Interior, a, b, lr)
    PROVE  \A n \in 0 .. 2 * Interior : Places(n) = a[n] .. b[n]
<1> DEFINE I == Interior
           Good(n) == LeafLeft(FirstLeaf(n)) = a[n] /\ lr[LastLeaf(n)] = b[n]
           Bad == {n \in 0 .. 2 * I : ~Good(n)}
<1>1. I \in Nat
  BY TreeSize
<1>2. /\ a \in [0 .. 2 * I -> Nat] /\ b \in [0 .. 2 * I -> Int]
      /\ \A n \in 0 .. I - 1 : /\ a[2 * n + 1] = a[n] /\ b[2 * n + 2] = b[n]
                               /\ a[2 * n + 2] = b[2 * n + 1] + 1
      /\ \A n \in 0 .. 2 * I : a[n] = IF Leftmost(n) THEN 0 ELSE b[n - 1] + 1
      /\ \A n \in 0 .. 2 * I : n >= I => lr[Slot(n)] = b[n]
  BY DEF Nested
<1>3. SUFFICES ASSUME Bad # {} PROVE FALSE
  BY DEF Places
<1>4. Max(Bad) \in Bad /\ \A x \in Bad : x <= Max(Bad)
  <2>1. 2 * I \in Nat /\ Bad \subseteq 0 .. 2 * I
    BY <1>1
  <2> HIDE DEF Bad
  <2>2. QED
    BY <1>3, <2>1, MaxIs
<1> DEFINE n == Max(Bad)
<1>5. n \in 0 .. 2 * I /\ ~Good(n) /\ \A x \in 0 .. 2 * I : x > n => Good(x)
  <2>1. \A x \in 0 .. 2 * I : x > n => x \notin Bad
    BY <1>4
  <2>2. QED
    BY <1>4, <2>1
<1> HIDE DEF n, Bad, I
<1>6. CASE n < I
  <2>1. n \in 0 .. I - 1 /\ 2 * n + 1 \in 0 .. 2 * I /\ 2 * n + 2 \in 0 .. 2 * I
        /\ 2 * n + 1 > n /\ 2 * n + 2 > n
    BY <1>1, <1>5, <1>6
  <2>2. Good(2 * n + 1) /\ Good(2 * n + 2)
    BY <1>5, <2>1
  <2>3. FirstLeaf(n) = FirstLeaf(2 * n + 1) /\ LastLeaf(n) = LastLeaf(2 * n + 2)
    BY <2>1, LeavesOf DEF I
  <2>4. QED
    BY <1>2, <1>5, <2>1, <2>2, <2>3
<1>7. CASE n >= I
  <2>1. FirstLeaf(n) = n - I /\ LastLeaf(n) = n - I
    <3>1. n \in Interior .. 2 * Interior
      BY <1>1, <1>5, <1>7 DEF I
    <3>2. QED
      BY <3>1, LeavesOf DEF I
  <2>2. \A x \in 0 .. 2 * I : x >= I => Slot(x) = x - I
    BY <1>1 DEF Slot, I
  <2>3. lr[n - I] = b[n]
    BY <1>2, <1>5, <1>7, <2>2
  <2>4. Leftmost(n) <=> n - I = 0
    <3>1. Level(n) = Bottommost /\ I = Pow2[Bottommost] - 1
      <4>1. Bottommost \in 0 .. 29 /\ I = Pow2[Bottommost] - 1 /\ 2 * I = Pow2[Bottommost + 1] - 2
        BY TreeSize DEF I
      <4>2. Pow2[Bottommost] \in Nat /\ Pow2[Bottommost + 1] \in Nat
        BY <4>1, Powers
      <4>3. OnLevel(n, Bottommost)
        BY <1>1, <1>5, <1>7, <4>1, <4>2 DEF OnLevel
      <4>4. QED
        BY <1>5, <4>1, <4>3, NodeLevel DEF I
    <3>2. QED
      BY <1>1, <1>5, <3>1 DEF Leftmost
  <2>5. LeafLeft(n - I) = a[n]
    <3>1. CASE n = I
      BY <1>1, <1>2, <1>5, <2>4, <3>1 DEF LeafLeft
    <3>2. CASE n # I
      <4> DEFINE x == n - 1
      <4>1. x \in 0 .. 2 * I /\ x >= I /\ x = n - 1 /\ n - I - 1 = x - I /\ n - I # 0
        BY <1>1, <1>5, <1>7, <3>2
      <4> HIDE DEF x
      <4>2. lr[x - I] = b[x]
        BY <1>2, <2>2, <4>1
      <4>3. a[n] = b[x] + 1
        BY <1>2, <1>5, <2>4, <4>1
      <4>4. LeafLeft(n - I) = lr[x - I] + 1
        BY <4>1 DEF LeafLeft
      <4>5. QED
        BY <4>2, <4>3, <4>4
    <3>3. QED
      BY <3>1, <3>2
  <2>6. QED
    BY <1>5, <2>1, <2>3, <2>5
<1>8. QED
  BY <1>1, <1>5, <1>6, <1>7

\* What the searches need to know of the tree.
Built ==
    /\ Interior \in Nat /\ N \in Nat \ {0}
    /\ perm \in [0 .. N - 1 -> 1 .. N]
    /\ Places(0) = 0 .. N - 1
    /\ \A n \in 0 .. 2 * Interior : Places(n) \subseteq 0 .. N - 1
    /\ \A n \in 0 .. Interior - 1 :
         LET left == Places(2 * n + 1) right == Places(2 * n + 2)
         IN  /\ Places(n) = left \cup right
             /\ \A p \in left, q \in right : p < q
             /\ Cardinality(Places(n)) > 1 =>
                  LET at(p) == At(p, Dimension(split[n]))
                  IN  /\ Dimension(split[n]) \in Dims /\ Position(split[n]) \in 0 .. TMax
                      /\ right # {}
                      /\ \A p \in left  : at(p) <= Position(split[n])
                      /\ \A p \in right : at(p) >= Position(split[n])

\* When the build is done, Places tells what each node holds, and the planes are right.
LEMMA BuiltRight == ASSUME TreeInv, pc # "build" PROVE Built
<1>1. /\ pts \in Clouds /\ node = Interior /\ perm \in [0 .. N - 1 -> 1 .. N]
      /\ Interior \in Nat /\ N \in Nat \ {0}
  BY TreeSize DEF TreeInv, TreeTypes
<1> DEFINE I == Interior
<1>2. PICK a, b : Nested(I, a, b, lr) /\ Planes(I, a, b, perm, split)
  BY <1>1 DEF TreeInv, Laid
<1>3. /\ a \in [0 .. 2 * I -> Nat] /\ b \in [0 .. 2 * I -> Int]
      /\ a[0] = 0 /\ b[0] = N - 1
      /\ \A n \in 0 .. 2 * I : a[n] <= b[n] + 1 /\ b[n] <= N - 1
      /\ \A n \in 0 .. I - 1 : /\ a[2 * n + 1] = a[n] /\ b[2 * n + 2] = b[n]
                               /\ a[2 * n + 2] = b[2 * n + 1] + 1
  BY <1>2 DEF Nested
<1>4. \A n \in 0 .. 2 * I : Places(n) = a[n] .. b[n]
  BY <1>1, <1>2, PlacesRight
<1>5. /\ \A n \in 0 .. I - 1 : a[n] < b[n] =>
        /\ Dimension(split[n]) \in Dims /\ Position(split[n]) \in 0 .. TMax
        /\ a[2 * n + 2] <= b[2 * n + 2]
        /\ \A q \in a[2 * n + 1] .. b[2 * n + 1] : At(q, Dimension(split[n])) <= Position(split[n])
        /\ \A q \in a[2 * n + 2] .. b[2 * n + 2] : At(q, Dimension(split[n])) >= Position(split[n])
  BY <1>2 DEF Planes, At
<1> DEFINE M == N
<1>6. Places(0) = 0 .. M - 1 /\ M \in Nat
  BY <1>1, <1>3, <1>4
<1>7. \A n \in 0 .. 2 * I : Places(n) \subseteq 0 .. M - 1
  <2>1. ASSUME NEW n \in 0 .. 2 * I PROVE Places(n) \subseteq 0 .. M - 1
    <3>1. a[n] \in Nat /\ b[n] \in Int /\ b[n] <= M - 1 /\ Places(n) = a[n] .. b[n]
      BY <1>3, <1>4
    <3>2. QED
      BY <1>6, <3>1
  <2>2. QED
    BY <2>1
<1>8. ASSUME NEW n \in 0 .. I - 1
      PROVE  LET left == Places(2 * n + 1) right == Places(2 * n + 2)
             IN  /\ Places(n) = left \cup right
                 /\ \A p \in left, q \in right : p < q
                 /\ Cardinality(Places(n)) > 1 =>
                      LET at(p) == At(p, Dimension(split[n]))
                      IN  /\ Dimension(split[n]) \in Dims /\ Position(split[n]) \in 0 .. TMax
                          /\ right # {}
                          /\ \A p \in left  : at(p) <= Position(split[n])
                          /\ \A p \in right : at(p) >= Position(split[n])
  <2>1. 2 * n + 1 \in 0 .. 2 * I /\ 2 * n + 2 \in 0 .. 2 * I /\ n \in 0 .. 2 * I
    BY <1>1
  <2> DEFINE l == 2 * n + 1
             r == 2 * n + 2
  <2>2. /\ a[n] \in Int /\ b[n] \in Int /\ a[l] = a[n] /\ b[r] = b[n] /\ a[r] = b[l] + 1 /\ b[l] \in Int
        /\ a[l] <= b[l] + 1 /\ a[r] <= b[r] + 1
    BY <1>3, <2>1
  <2>3. Places(n) = a[n] .. b[n] /\ Places(l) = a[l] .. b[l] /\ Places(r) = a[r] .. b[r]
    BY <1>4, <2>1
  <2>4. Cardinality(a[n] .. b[n]) > 1 => a[n] < b[n]
    <3> DEFINE u == a[n]
               v == b[n]
    <3>1. u \in Int /\ v \in Int
      BY <2>2
    <3> HIDE DEF u, v
    <3>2. Cardinality(u .. v) = IF u > v THEN 0 ELSE v - u + 1
      BY <3>1, FS_Interval
    <3>3. Cardinality(u .. v) > 1 => u < v
      BY <3>1, <3>2
    <3>4. QED
      BY <3>3 DEF u, v
  <2>5. /\ a[n] < b[n] => /\ Dimension(split[n]) \in Dims /\ Position(split[n]) \in 0 .. TMax
                          /\ a[r] <= b[r]
                          /\ \A q \in a[l] .. b[l] : At(q, Dimension(split[n])) <= Position(split[n])
                          /\ \A q \in a[r] .. b[r] : At(q, Dimension(split[n])) >= Position(split[n])
    BY <1>5
  <2> HIDE DEF l, r
  <2>6. Places(n) = Places(l) \cup Places(r) /\ \A p \in Places(l), q \in Places(r) : p < q
    BY <2>2, <2>3
  <2>7. a[r] <= b[r] => Places(r) # {}
    <3>1. a[r] <= b[r] => a[r] \in a[r] .. b[r]
      BY <2>2
    <3>2. QED
      BY <2>3, <3>1
  <2>8. QED
    BY <2>3, <2>4, <2>5, <2>6, <2>7 DEF l, r
<1>9. QED
  BY <1>1, <1>6, <1>7, <1>8 DEF Built

\* The tree is what kdtree_check asks for (KdTree!TreeIsSound).
THEOREM TreeRight == QuadSpec => []TreeIsSound
<1>1. QuadInit => BuildInv
  BY BuildInvStarts
<1>2. BuildInv /\ [QuadNext]_<<vars, quadvars>> => BuildInv'
  BY BuildInvKept
<1>3. BuildInv => TreeIsSound
  <2>1. SUFFICES ASSUME BuildInv, pc = "ready"
                 PROVE  Built /\ Range(perm) = 1 .. N
    BY DEF TreeIsSound, Built
  <2>2. Built
    BY <2>1, BuiltRight DEF BuildInv
  <2>3. perm \in [0 .. N - 1 -> 1 .. N] /\ IsInjective(perm) /\ N \in Nat \ {0}
    BY <2>1, <2>2 DEF BuildInv, TreeInv, TreeTypes, Built
  <2>4. perm \in Surjection(0 .. N - 1, 1 .. N)
    <3> DEFINE S == 0 .. N - 1
               T == 1 .. N
    <3>1. IsFiniteSet(S) /\ IsFiniteSet(T) /\ Cardinality(S) = Cardinality(T)
      BY <2>3, FS_Interval
    <3>2. perm \in Injection(S, T)
      BY <2>3 DEF Injection
    <3> HIDE DEF S, T
    <3>3. perm \in Surjection(S, T)
      BY <3>1, <3>2, FS_Injection
    <3>4. QED
      BY <3>3 DEF S, T
  <2>5. Range(perm) = 1 .. N
    BY <2>3, <2>4 DEF Range, Surjection
  <2>6. QED
    BY <2>2, <2>5
<1>4. QED
  BY <1>1, <1>2, <1>3, PTL DEF QuadSpec

-----------------------------------------------------------------------------
(* Stacks *)

IsSeq(s) == \E S : s \in Seq(S)
Elems(s) == {s[i] : i \in 1 .. Len(s)}

\* The entry on top makes place for others.
LEMMA PushRight ==
    ASSUME NEW s, IsSeq(s), s # <<>>, NEW e, IsSeq(e)
    PROVE  /\ IsSeq(Front(s) \o e)
           /\ \E F : Elems(s) = F \cup {Last(s)} /\ Elems(Front(s) \o e) = F \cup Elems(e)
<1>1. PICK S0, T0 : s \in Seq(S0) /\ e \in Seq(T0)
  BY DEF IsSeq
<1> DEFINE S == S0 \cup T0
           n == Len(s) - 1
           f == Front(s)
           r == f \o e
<1>2. s \in Seq(S) /\ e \in Seq(S)
  BY <1>1, SeqMonotonic
<1>3. n \in Nat /\ Len(s) = n + 1 /\ Len(e) \in Nat /\ \A i \in 1 .. n + 1 : s[i] \in S
  <2>1. Len(s) \in Nat \ {0} /\ Len(e) \in Nat
    BY <1>2, EmptySeq, LenProperties
  <2>2. \A i \in 1 .. Len(s) : s[i] \in S
    BY <1>2, ElementOfSeq
  <2>3. QED
    BY <2>1, <2>2
<1>4. f = SubSeq(s, 1, n)
  BY DEF Front
<1> HIDE DEF n, S, f
<1>5. f \in Seq(S) /\ Len(f) = n /\ \A i \in 1 .. n : f[i] = s[i]
  <2>1. \A i \in 1 .. n : s[i] \in S
    BY <1>3
  <2>2. /\ SubSeq(s, 1, n) \in Seq(S)
        /\ Len(SubSeq(s, 1, n)) = IF 1 <= n THEN n - 1 + 1 ELSE 0
        /\ \A i \in 1 .. n - 1 + 1 : SubSeq(s, 1, n)[i] = s[1 + i - 1]
    BY <1>3, <2>1, SubSeqProperties
  <2>3. \A i \in 1 .. n : i \in 1 .. n - 1 + 1 /\ 1 + i - 1 = i
    BY <1>3
  <2>4. (IF 1 <= n THEN n - 1 + 1 ELSE 0) = n
    BY <1>3
  <2>5. QED
    BY <1>4, <2>2, <2>3, <2>4
<1>6. /\ r \in Seq(S) /\ Len(r) = n + Len(e)
      /\ \A i \in 1 .. n + Len(e) : r[i] = IF i <= n THEN f[i] ELSE e[i - n]
  BY <1>2, <1>5, ConcatProperties
<1> HIDE DEF r
<1> DEFINE F == {s[i] : i \in 1 .. n}
<1>7. Elems(s) = F \cup {Last(s)}
  <2>1. Last(s) = s[n + 1]
    BY <1>3 DEF Last
  <2>2. 1 .. n + 1 = (1 .. n) \cup {n + 1}
    BY <1>3
  <2>3. QED
    BY <1>3, <2>1, <2>2 DEF Elems
<1>8. Elems(r) = F \cup Elems(e)
  <2>1. ASSUME NEW i \in 1 .. Len(r) PROVE r[i] \in F \cup Elems(e)
    <3>1. CASE i <= n
      <4>1. i \in 1 .. n /\ i \in 1 .. n + Len(e)
        BY <1>3, <1>6, <2>1, <3>1
      <4>2. r[i] = s[i]
        BY <1>5, <1>6, <3>1, <4>1
      <4>3. QED
        BY <4>1, <4>2
    <3>2. CASE ~(i <= n)
      <4>1. i - n \in 1 .. Len(e) /\ i \in 1 .. n + Len(e)
        BY <1>3, <1>6, <2>1, <3>2
      <4>2. r[i] = e[i - n]
        BY <1>6, <3>2, <4>1
      <4>3. QED
        BY <4>1, <4>2 DEF Elems
    <3>3. QED
      BY <3>1, <3>2
  <2>2. ASSUME NEW i \in 1 .. n PROVE s[i] \in Elems(r)
    <3>1. i \in 1 .. Len(r) /\ i <= n /\ i \in 1 .. n + Len(e)
      BY <1>3, <1>6
    <3>2. r[i] = s[i]
      BY <1>5, <1>6, <3>1
    <3>3. QED
      BY <3>1, <3>2 DEF Elems
  <2>3. ASSUME NEW j \in 1 .. Len(e) PROVE e[j] \in Elems(r)
    <3> DEFINE i == n + j
    <3>1. i \in 1 .. n + Len(e) /\ ~(i <= n) /\ i - n = j
      BY <1>3
    <3> HIDE DEF i
    <3>2. r[i] = e[j]
      BY <1>6, <3>1
    <3>3. i \in 1 .. Len(r)
      BY <1>6, <3>1
    <3>4. QED
      BY <3>2, <3>3 DEF Elems
  <2>4. Elems(r) \subseteq F \cup Elems(e)
    BY <2>1 DEF Elems
  <2>5. F \subseteq Elems(r)
    BY <2>2
  <2>6. Elems(e) \subseteq Elems(r)
    BY <2>3 DEF Elems
  <2>7. QED
    BY <2>4, <2>5, <2>6
<1>9. IsSeq(r)
  BY <1>6 DEF IsSeq
<1>10. QED
  BY <1>7, <1>8, <1>9 DEF r, f

\* Short lists.
LEMMA ShortLists ==
    /\ IsSeq(<<>>) /\ Elems(<<>>) = {}
    /\ \A a : IsSeq(<<a>>) /\ Elems(<<a>>) = {a} /\ <<a>> # <<>> /\ Last(<<a>>) = a
    /\ \A a : <<a>> \o <<>> = <<a>> /\ <<>> \o <<a>> = <<a>>
    /\ \A a, b : <<a>> \o <<b>> = <<a, b>> /\ IsSeq(<<a, b>>) /\ Elems(<<a, b>>) = {a, b}
<1>1. IsSeq(<<>>) /\ Elems(<<>>) = {}
  <2>1. <<>> \in Seq({}) /\ Len(<<>>) = 0
    BY EmptySeq
  <2>2. 1 .. 0 = {}
    OBVIOUS
  <2>3. QED
    BY <2>1, <2>2 DEF IsSeq, Elems
<1>2. ASSUME NEW a PROVE /\ IsSeq(<<a>>) /\ Elems(<<a>>) = {a} /\ <<a>> # <<>> /\ Last(<<a>>) = a
                         /\ <<a>> \o <<>> = <<a>> /\ <<>> \o <<a>> = <<a>>
  <2>1. <<a>> \in Seq({a}) /\ Len(<<a>>) = 1 /\ <<a>>[1] = a
    OBVIOUS
  <2>2. 1 .. 1 = {1}
    OBVIOUS
  <2>3. Elems(<<a>>) = {a}
    BY <2>1, <2>2 DEF Elems
  <2>4. Last(<<a>>) = a
    BY <2>1 DEF Last
  <2>5. <<a>> # <<>>
    BY <2>1
  <2>6. <<a>> \o <<>> = <<a>> /\ <<>> \o <<a>> = <<a>>
    BY <2>1, ConcatEmptySeq
  <2>7. QED
    BY <2>1, <2>3, <2>4, <2>5, <2>6 DEF IsSeq
<1>3. ASSUME NEW a, NEW b PROVE <<a>> \o <<b>> = <<a, b>> /\ IsSeq(<<a, b>>) /\ Elems(<<a, b>>) = {a, b}
  <2> DEFINE S == {a, b}
             t == <<a, b>>
             r == <<a>> \o <<b>>
  <2>1. t \in Seq(S) /\ Len(t) = 2 /\ t[1] = a /\ t[2] = b
    OBVIOUS
  <2>2. 1 .. 2 = {1, 2}
    OBVIOUS
  <2>3. Elems(t) = {a, b}
    <3> HIDE DEF t
    <3>1. QED
      BY <2>1, <2>2 DEF Elems
  <2>4. r = t
    <3>1. <<a>> \in Seq(S) /\ <<b>> \in Seq(S) /\ Len(<<a>>) = 1 /\ Len(<<b>>) = 1
      OBVIOUS
    <3>2. /\ r \in Seq(S) /\ Len(r) = 1 + 1
          /\ \A i \in 1 .. 1 + 1 : r[i] = IF i <= 1 THEN <<a>>[i] ELSE <<b>>[i - 1]
      BY <3>1, ConcatProperties
    <3>3. r[1] = a /\ r[2] = b
      BY <3>2
    <3> HIDE DEF r, t, S
    <3>4. Len(r) = Len(t) /\ \A i \in 1 .. Len(r) : r[i] = t[i]
      BY <2>1, <2>2, <3>2, <3>3
    <3>5. QED
      BY <2>1, <3>2, <3>4, SeqEqual
  <2>5. IsSeq(t)
    BY <2>1 DEF IsSeq
  <2>6. QED
    BY <2>3, <2>4, <2>5
<1>4. QED
  BY <1>1, <1>2, <1>3

-----------------------------------------------------------------------------
(* Distances *)

\* A sum of numbers that are not negative is at least each of them.
LEMMA TotalHolds ==
    ASSUME NEW n \in Nat, NEW f \in [1 .. n -> Nat]
    PROVE  Total(f) \in Nat /\ \A i \in 1 .. n : Total(f) >= f[i]
<1>1. f \in Seq(Int) /\ Len(f) = n
  <2>1. f \in [1 .. n -> Int]
    OBVIOUS
  <2>2. QED
    BY <2>1, FunctionIsSequence
<1>2. PICK s \in [0 .. n -> Int] :
        /\ s[0] = 0
        /\ \A k \in 1 .. n : s[k] = s[k - 1] + f[k]
        /\ Total(f) = s[n]
  BY <1>1, TotalIsSum
<1>3. ASSUME NEW i \in 0 .. n
      PROVE  \A k \in 0 .. n : s[k] >= 0 /\ (i # 0 /\ k >= i => s[k] >= f[i])
  <2> DEFINE Good(k) == s[k] >= 0 /\ (i # 0 /\ k >= i => s[k] >= f[i])
             Bad == {k \in 0 .. n : ~Good(k)}
  <2>1. SUFFICES ASSUME Bad # {} PROVE FALSE
    OBVIOUS
  <2>2. PICK m \in Bad : \A k \in Bad : m <= k
    <3>1. Bad \subseteq Nat
      OBVIOUS
    <3> HIDE DEF Bad
    <3>2. QED
      BY <2>1, <3>1, NatMin
  <2>3. m # 0
    BY <1>2, <2>2
  <2>4. m \in 1 .. n /\ m - 1 \in 0 .. n /\ m - 1 \notin Bad
    <3>1. m \in 0 .. n
      BY <2>2
    <3>2. m \in 1 .. n /\ m - 1 \in 0 .. n /\ m - 1 < m
      BY <2>3, <3>1
    <3>3. m - 1 \notin Bad
      BY <2>2, <3>2
    <3>4. QED
      BY <3>2, <3>3
  <2>5. Good(m - 1)
    BY <2>4
  <2>6. s[m] = s[m - 1] + f[m] /\ s[m - 1] \in Int /\ f[m] \in Nat
    BY <1>2, <2>4
  <2>7. s[m] >= 0
    BY <2>5, <2>6
  <2>8. ASSUME i # 0, m >= i PROVE s[m] >= f[i]
    <3>1. i \in 1 .. n /\ f[i] \in Nat
      BY <2>8
    <3>2. CASE m = i
      BY <2>5, <2>6, <3>2
    <3>3. CASE m # i
      <4>1. m - 1 >= i
        BY <2>4, <2>8, <3>1, <3>3
      <4>2. s[m - 1] >= f[i]
        BY <2>5, <2>8, <4>1
      <4>3. QED
        BY <2>6, <3>1, <4>2
    <3>4. QED
      BY <3>2, <3>3
  <2>9. QED
    BY <2>2, <2>7, <2>8
<1>4. n \in 0 .. n /\ 0 \in 0 .. n
  OBVIOUS
<1>5. Total(f) \in Nat
  BY <1>2, <1>3, <1>4
<1>6. ASSUME NEW i \in 1 .. n PROVE Total(f) >= f[i]
  <2>1. i \in 0 .. n /\ i # 0 /\ n >= i
    OBVIOUS
  <2>2. QED
    BY <1>2, <1>3, <1>4, <2>1
<1>7. QED
  BY <1>5, <1>6

\* Squares of integers: never negative, and in the order of what is squared.
LEMMA Squares ==
    /\ \A x \in Int : Square(x) \in Nat /\ Square(-x) = Square(x)
    /\ \A x, y \in Nat : x < y => Square(x) < Square(y)
    /\ \A x, y \in Nat : x <= y => Square(x) <= Square(y)
<1>1. \A x \in Int : x * x \in Nat /\ (-x) * (-x) = x * x
  OBVIOUS
<1>2. \A x, y \in Nat : x <= y => x * x <= y * y
  OBVIOUS
<1>3. \A x, y \in Nat : x < y => x * x < y * y
  OBVIOUS
<1>4. QED
  BY <1>1, <1>2, <1>3 DEF Square

\* Distances along one dimension bound the distance.
LEMMA DistanceHolds ==
    ASSUME pts \in Clouds, perm \in [0 .. N - 1 -> 1 .. N], NEW p \in 0 .. N - 1
    PROVE  /\ \A d \in Dims : At(p, d) \in 0 .. TMax
           /\ \A q \in [Dims -> Int] :
                 Dist2(q, p) \in Nat /\ \A d \in Dims : Square(q[d] - 2 * At(p, d)) <= Dist2(q, p)
           /\ query.at \in [Dims -> Int] =>
                 TDist2(p) \in Nat /\ \A d \in Dims : Square(TQuery(d) - At(p, d)) <= TDist2(p)
<1>1. NDim \in Nat /\ TMax \in Nat /\ Dims = 1 .. NDim
  BY TreeAssumption DEF Dims
<1>2. \A d \in Dims : At(p, d) \in 0 .. TMax
  BY TreeSize DEF At
<1>3. ASSUME NEW q \in [Dims -> Int]
      PROVE  Dist2(q, p) \in Nat /\ \A d \in Dims : Square(q[d] - 2 * At(p, d)) <= Dist2(q, p)
  <2> DEFINE f == [d \in Dims |-> Square(q[d] - 2 * At(p, d))]
  <2>1. \A d \in Dims : Square(q[d] - 2 * At(p, d)) \in Nat
    <3>1. \A d \in Dims : q[d] - 2 * At(p, d) \in Int
      BY <1>1, <1>2
    <3>2. QED
      BY <3>1, Squares
  <2>2. f \in [1 .. NDim -> Nat] /\ Dist2(q, p) = Total(f)
    BY <1>1, <2>1 DEF Dist2
  <2>3. \A d \in Dims : f[d] = Square(q[d] - 2 * At(p, d))
    OBVIOUS
  <2> HIDE DEF f
  <2>4. Total(f) \in Nat /\ \A d \in 1 .. NDim : Total(f) >= f[d]
    BY <1>1, <2>2, TotalHolds
  <2>5. \A d \in Dims : f[d] <= Total(f)
    <3>1. \A d \in 1 .. NDim : f[d] \in Nat
      BY <2>2
    <3>2. QED
      BY <1>1, <2>4, <3>1
  <2>6. QED
    BY <2>2, <2>3, <2>4, <2>5
<1>4. ASSUME query.at \in [Dims -> Int]
      PROVE  TDist2(p) \in Nat /\ \A d \in Dims : Square(TQuery(d) - At(p, d)) <= TDist2(p)
  <2> DEFINE f == [d \in Dims |-> Square(TQuery(d) - At(p, d))]
  <2>1. \A d \in Dims : Square(TQuery(d) - At(p, d)) \in Nat
    <3>1. \A d \in Dims : TQuery(d) - At(p, d) \in Int
      BY <1>1, <1>2, <1>4 DEF TQuery
    <3>2. QED
      BY <3>1, Squares
  <2>2. f \in [1 .. NDim -> Nat] /\ TDist2(p) = Total(f)
    BY <1>1, <2>1 DEF TDist2
  <2>3. \A d \in Dims : f[d] = Square(TQuery(d) - At(p, d))
    OBVIOUS
  <2> HIDE DEF f
  <2>4. Total(f) \in Nat /\ \A d \in 1 .. NDim : Total(f) >= f[d]
    BY <1>1, <2>2, TotalHolds
  <2>5. \A d \in Dims : f[d] <= Total(f)
    <3>1. \A d \in 1 .. NDim : f[d] \in Nat
      BY <2>2
    <3>2. QED
      BY <1>1, <2>4, <3>1
  <2>6. QED
    BY <2>2, <2>3, <2>4, <2>5
<1>5. QED
  BY <1>2, <1>3, <1>4

-----------------------------------------------------------------------------
(* Quads *)

\* What is known of the quad that is tried.
Distinct(s) == \A i, j \in 1 .. Len(s) : s[i] = s[j] => i = j
Row(s, n)   == s \in Seq(1 .. n) /\ Distinct(s)
ParityLists == {<<FALSE>>, <<TRUE>>, <<FALSE, TRUE>>}
QuadPart(code, pars, turned, stars, n) ==
    /\ pars \in ParityLists /\ turned \in BOOLEAN
    /\ Row(stars, Len(code)) /\ n \in Nat \ {0}
QuadTypes ==
    /\ phase \in {"idle", "perm", "search", "tried"}
    /\ phase # "idle" => fieldcode \in FieldCodes
    /\ phase \in {"perm", "search"} =>
          QuadPart(fieldcode, parities, flipped, placed, next)
    /\ phase = "perm" => Len(placed) < Len(fieldcode)
    /\ phase = "search" => Len(placed) = Len(fieldcode)
    /\ quit_now \in BOOLEAN

\* A quad has an inner star, and each has a position.
LEMMA CodesRight ==
    ASSUME NEW c \in FieldCodes
    PROVE  /\ c \in Seq(Int \X Int) /\ Len(c) \in Nat \ {0} /\ 2 * Len(c) = NDim
           /\ DOMAIN c = 1 .. Len(c)
           /\ \A k \in 1 .. Len(c) : c[k][1] \in Int /\ c[k][2] \in Int
<1>1. c \in Seq(Int \X Int) /\ 2 * Len(c) = NDim /\ NDim \in 1 .. 8
  BY FieldAssumption, TreeAssumption
<1>2. Len(c) \in Nat /\ DOMAIN c = 1 .. Len(c)
  BY <1>1, LenProperties
<1>3. \A k \in 1 .. Len(c) : c[k] \in Int \X Int
  BY <1>1, ElementOfSeq
<1>4. Len(c) # 0
  BY <1>1, <1>2
<1>5. QED
  BY <1>1, <1>2, <1>3, <1>4

\* A query is a point.
LEMMA QueriesRight ==
    ASSUME fieldcode \in FieldCodes, NEW order, \A k \in 1 .. Len(fieldcode) : order[k] \in 1 .. Len(fieldcode),
           NEW flip \in BOOLEAN, NEW turned \in BOOLEAN
    PROVE  Query(flip, turned, order) \in [Dims -> Int]
<1> DEFINE n == Len(fieldcode)
<1>1. /\ n \in Nat \ {0} /\ 2 * n = NDim /\ Dims = 1 .. NDim
      /\ \A k \in 1 .. n : fieldcode[k][1] \in Int /\ fieldcode[k][2] \in Int
  BY CodesRight DEF Dims
<1>2. Unit \in Int
  BY QueryAssumption
<1>3. ASSUME NEW k \in 1 .. n, NEW i \in 1 .. 2 PROVE CodeOf(k, flip, turned)[i] \in Int
  <2> DEFINE c == IF flip THEN <<fieldcode[k][2], fieldcode[k][1]>> ELSE fieldcode[k]
  <2>1. c[1] \in Int /\ c[2] \in Int
    BY <1>1
  <2>2. CodeOf(k, flip, turned) = IF turned THEN <<Unit - c[1], Unit - c[2]>> ELSE c
    BY DEF CodeOf
  <2> HIDE DEF c
  <2>3. CASE i = 1
    BY <1>2, <2>1, <2>2, <2>3
  <2>4. CASE i = 2
    BY <1>2, <2>1, <2>2, <2>4
  <2>5. QED
    BY <2>3, <2>4
<1> HIDE DEF n
<1>4. ASSUME NEW d \in Dims PROVE CodeOf(order[(d + 1) \div 2], flip, turned)[2 - (d % 2)] \in Int
  <2>1. (d + 1) \div 2 \in 1 .. n /\ 2 - (d % 2) \in 1 .. 2
    BY <1>1
  <2>2. order[(d + 1) \div 2] \in 1 .. n
    BY <2>1 DEF n
  <2>3. QED
    BY <1>3, <2>1, <2>2
<1>5. QED
  BY <1>4 DEF Query

\* One star more, or one less.
LEMMA PlacedMore ==
    ASSUME NEW n \in Nat, NEW s, Row(s, n), NEW k \in 1 .. n, k \notin ToSet(s)
    PROVE  LET t == Append(s, k)
           IN  /\ Row(t, n) /\ Len(t) = Len(s) + 1 /\ Len(s) \in Nat
               /\ t[Len(s) + 1] = k /\ \A i \in 1 .. Len(s) : t[i] = s[i]
<1>0. s \in Seq(1 .. n) /\ \A i, j \in 1 .. Len(s) : s[i] = s[j] => i = j
  BY DEF Row, Distinct
<1> DEFINE S == 1 .. n
           t == Append(s, k)
           m == Len(s)
<1>1. Len(s) \in Nat /\ DOMAIN s = 1 .. Len(s) /\ \A i \in 1 .. Len(s) : s[i] \in S
  BY <1>0, LenProperties, ElementOfSeq
<1>2. \A i \in 1 .. m : s[i] # k
  BY <1>1 DEF ToSet
<1> HIDE DEF S
<1>3. /\ t \in Seq(S) /\ Len(t) = m + 1
      /\ \A i \in 1 .. m : t[i] = s[i]
      /\ t[m + 1] = k
  BY <1>0, AppendProperties DEF S
<1>4. m \in Nat /\ \A i, j \in 1 .. m : s[i] = s[j] => i = j
  BY <1>0, <1>1
<1> HIDE DEF t, m
<1>5. \A i, j \in 1 .. m + 1 : t[i] = t[j] => i = j
  <2>1. \A i \in 1 .. m + 1 : i \in 1 .. m \/ i = m + 1
    BY <1>4
  <2>2. \A i, j \in 1 .. m : t[i] = t[j] => i = j
    BY <1>3, <1>4
  <2>3. \A i \in 1 .. m : t[i] # k
    BY <1>2, <1>3
  <2>4. QED
    BY <1>3, <2>1, <2>2, <2>3
<1>6. QED
  BY <1>3, <1>4, <1>5 DEF t, m, S, Row, Distinct

\* The slots filled so far, when the last of them is given up.
LEMMA PlacedLess ==
    ASSUME NEW n \in Nat, NEW s, Row(s, n), s # <<>>
    PROVE  LET t == Front(s)
           IN  /\ Row(t, n) /\ Len(t) = Len(s) - 1
               /\ \A i \in 1 .. Len(t) : t[i] = s[i]
               /\ Last(s) \in 1 .. n /\ Len(s) \in Nat \ {0}
<1> DEFINE S == 1 .. n
           t == Front(s)
           m == Len(s)
<1>0. s \in Seq(S)
  BY DEF Row
<1>1. m \in Nat \ {0} /\ \A i \in 1 .. m : s[i] \in S
  BY <1>0, EmptySeq, LenProperties, ElementOfSeq
<1>2. \A i, j \in 1 .. m : s[i] = s[j] => i = j
  BY DEF Row, Distinct
<1>3. Last(s) \in S
  <2>1. Last(s) = s[m]
    BY DEF Last
  <2> HIDE DEF m, S
  <2>2. QED
    BY <1>1, <2>1
<1>4. t = SubSeq(s, 1, m - 1)
  BY DEF Front
<1> HIDE DEF m, S, t
<1>5. /\ t \in Seq(S) /\ Len(t) = m - 1 /\ \A i \in 1 .. m - 1 : t[i] = s[i]
  <2>1. \A i \in 1 .. m - 1 : i \in 1 .. m /\ s[i] \in S
    BY <1>1
  <2>2. /\ SubSeq(s, 1, m - 1) \in Seq(S)
        /\ Len(SubSeq(s, 1, m - 1)) = IF 1 <= m - 1 THEN (m - 1) - 1 + 1 ELSE 0
        /\ \A i \in 1 .. (m - 1) - 1 + 1 : SubSeq(s, 1, m - 1)[i] = s[1 + i - 1]
    BY <1>1, <2>1, SubSeqProperties
  <2>3. \A i \in 1 .. m - 1 : i \in 1 .. (m - 1) - 1 + 1 /\ 1 + i - 1 = i
    BY <1>1
  <2>4. (IF 1 <= m - 1 THEN (m - 1) - 1 + 1 ELSE 0) = m - 1
    BY <1>1
  <2>5. QED
    BY <1>4, <2>2, <2>3, <2>4
<1>6. \A i \in 1 .. m - 1 : i \in 1 .. m
  BY <1>1
<1>7. \A i, j \in 1 .. m - 1 : t[i] = t[j] => i = j
  BY <1>2, <1>5, <1>6
<1>8. QED
  BY <1>1, <1>3, <1>5, <1>7 DEF t, m, S, Row, Distinct

\* The tails of short lists.
LEMMA ShortTails == /\ \A a : Tail(<<a>>) = <<>>
                    /\ \A a, b : Tail(<<a, b>>) = <<b>>
<1>1. ASSUME NEW a PROVE Tail(<<a>>) = <<>>
  <2>1. <<a>> \in Seq({a}) /\ Len(<<a>>) = 1 /\ <<a>> # <<>>
    OBVIOUS
  <2>2. Tail(<<a>>) \in Seq({a}) /\ Len(Tail(<<a>>)) = 1 - 1
    BY <2>1, HeadTailProperties
  <2>3. QED
    BY <2>2, EmptySeq
<1>2. ASSUME NEW a, NEW b PROVE Tail(<<a, b>>) = <<b>>
  <2> DEFINE S == {a, b}
             s == <<a, b>>
             t == Tail(s)
             u == <<b>>
  <2>1. s \in Seq(S) /\ Len(s) = 2 /\ s # <<>> /\ s[2] = b
    OBVIOUS
  <2>2. u \in Seq(S) /\ Len(u) = 1 /\ u[1] = b
    OBVIOUS
  <2> HIDE DEF s, u, S
  <2>3. t \in Seq(S) /\ Len(t) = 1 /\ \A i \in 1 .. Len(t) : t[i] = s[i + 1]
    BY <2>1, HeadTailProperties
  <2>4. \A i \in 1 .. Len(t) : t[i] = u[i]
    <3>1. 1 \in 1 .. Len(t) /\ \A i \in 1 .. Len(t) : i = 1
      <4>1. 1 \in 1 .. 1 /\ \A i \in 1 .. 1 : i = 1
        OBVIOUS
      <4>2. Len(t) = 1
        BY <2>3
      <4>3. QED
        BY <4>1, <4>2
    <3>2. t[1] = s[1 + 1]
      BY <2>3, <3>1
    <3>3. QED
      BY <2>1, <2>2, <3>1, <3>2
  <2>5. t = u
    <3> HIDE DEF t
    <3>1. QED
      BY <2>2, <2>3, <2>4, SeqEqual
  <2>6. QED
    BY <2>5 DEF u, s
<1>3. QED
  BY <1>1, <1>2

\* At first, no quad is tried.
LEMMA QuadTypesStart == ASSUME QuadInit PROVE QuadTypes
BY DEF QuadInit, QuadTypes

\* Each step of try_all_codes leaves a quad in one of its phases, with what the phase needs.
LEMMA QuadTypesKept == ASSUME QuadTypes, [QuadNext]_<<vars, quadvars>> PROVE QuadTypes'
<1>1. CASE UNCHANGED quadvars
  BY <1>1 DEF quadvars, QuadTypes
<1>2. CASE StartQuad
  <2>1. /\ fieldcode' \in FieldCodes /\ parities' \in ParityLists
        /\ flipped' = FALSE /\ placed' = <<>> /\ next' = 1 /\ phase' = "perm" /\ quit_now' = quit_now
    BY <1>2 DEF StartQuad, ParityLists
  <2>2. Len(fieldcode') \in Nat \ {0}
    BY <2>1, CodesRight
  <2>3. placed' \in Seq(1 .. Len(fieldcode')) /\ Len(placed') = 0
    BY <2>1, EmptySeq
  <2>4. Row(placed', Len(fieldcode'))
    <3>1. 1 .. 0 = {}
      OBVIOUS
    <3>2. QED
      BY <2>3, <3>1 DEF Row, Distinct
  <2>5. QuadPart(fieldcode', parities', flipped', placed', next')
    <3>1. next' \in Nat \ {0} /\ parities' \in ParityLists
      BY <2>1
    <3>2. flipped' \in BOOLEAN
      BY <2>1
    <3>3. QED
      BY <2>4, <3>1, <3>2 DEF QuadPart
  <2>6. Len(placed') < Len(fieldcode')
    BY <2>2, <2>3
  <2>7. QED
    BY <2>1, <2>5, <2>6 DEF QuadTypes
<1>3. CASE Skip
  <2>1. /\ phase = "perm" /\ phase' = phase /\ fieldcode' = fieldcode /\ parities' = parities
        /\ flipped' = flipped /\ placed' = placed /\ quit_now' = quit_now /\ next' = next + 1
    BY <1>3 DEF Skip
  <2>2. QuadPart(fieldcode, parities, flipped, placed, next)
    BY <2>1 DEF QuadTypes
  <2>3. QuadPart(fieldcode', parities', flipped', placed', next')
    <3>1. next' \in Nat \ {0}
      BY <2>1, <2>2 DEF QuadPart
    <3>2. QED
      BY <2>1, <2>2, <3>1 DEF QuadPart
  <2>4. QED
    BY <2>1, <2>3 DEF QuadTypes
<1> DEFINE n == Len(fieldcode)
<1>4. ASSUME phase \in {"perm", "search"}
      PROVE  /\ n \in Nat \ {0} /\ fieldcode \in FieldCodes /\ DOMAIN fieldcode = 1 .. n
             /\ parities \in ParityLists /\ flipped \in BOOLEAN
             /\ Row(placed, n) /\ next \in Nat \ {0}
  <2>1. fieldcode \in FieldCodes
    BY <1>4 DEF QuadTypes
  <2>2. QED
    BY <1>4, <2>1, CodesRight DEF QuadTypes, QuadPart
<1>5. CASE PlaceStar
  <2>1. /\ phase = "perm" /\ next \in DOMAIN fieldcode /\ next \notin ToSet(placed)
        /\ placed' = Append(placed, next) /\ next' = 1
        /\ fieldcode' = fieldcode /\ parities' = parities /\ flipped' = flipped /\ quit_now' = quit_now
        /\ IF Len(placed') = Len(fieldcode) THEN phase' = "search" ELSE phase' = phase
    BY <1>5 DEF PlaceStar, Filled, Inner
  <2>2. next \in 1 .. n /\ Len(placed) < n
    BY <1>4, <2>1 DEF QuadTypes
  <2> HIDE DEF n
  <2>3. Row(placed', n) /\ Len(placed') = Len(placed) + 1 /\ Len(placed) \in Nat
    BY <1>4, <2>1, <2>2, PlacedMore
  <2>4. Len(placed') <= n
    BY <1>4, <2>1, <2>2, <2>3
  <2>5. Len(fieldcode') = n
    BY <2>1 DEF n
  <2>9. QuadPart(fieldcode', parities', flipped', placed', next')
    BY <1>4, <2>1, <2>3, <2>5 DEF QuadPart
  <2>6. CASE Len(placed') = n
    BY <1>4, <2>1, <2>5, <2>6, <2>9 DEF QuadTypes, n
  <2>7. CASE Len(placed') # n
    <3>1. Len(placed') < n
      BY <1>4, <2>1, <2>3, <2>4, <2>7
    <3>2. QED
      BY <1>4, <2>1, <2>5, <2>7, <2>9, <3>1 DEF QuadTypes, n
  <2>8. QED
    BY <2>6, <2>7
<1>6. CASE Backtrack \/ Resolve
  <2>1. /\ phase \in {"perm", "search"} /\ placed # <<>>
        /\ placed' = Front(placed) /\ next' \in {Last(placed) + 1, n + 1}
        /\ fieldcode' = fieldcode /\ parities' = parities /\ flipped' = flipped
        /\ quit_now' \in BOOLEAN /\ phase' = "perm"
    <3>1. CASE Backtrack
      BY <3>1 DEF Backtrack, QuadTypes
    <3>2. CASE Resolve
      <4>1. phase = "search"
        BY <3>2 DEF Resolve
      <4>2. Len(placed) = n /\ n # 0
        BY <1>4, <4>1 DEF QuadTypes
      <4>3. placed # <<>>
        BY <4>2, EmptySeq
      <4>4. QED
        BY <3>2, <4>1, <4>3 DEF Resolve
    <3>3. QED
      BY <1>6, <3>1, <3>2
  <2> HIDE DEF n
  <2>2. /\ Row(placed', n) /\ Len(placed') = Len(placed) - 1 /\ Len(placed) \in Nat
        /\ Last(placed) \in 1 .. n
    BY <1>4, <2>1, PlacedLess
  <2>3. Len(placed) <= n
    BY <1>4, <2>1 DEF QuadTypes, n
  <2>4. Len(placed') < n /\ next' \in Nat \ {0}
    <3>1. n \in Nat
      BY <1>4, <2>1
    <3> DEFINE p == Len(placed)
               l == Last(placed)
    <3>2. p \in Nat /\ Len(placed') = p - 1 /\ p <= n /\ l \in 1 .. n /\ next' \in {l + 1, n + 1}
      BY <2>1, <2>2, <2>3
    <3> HIDE DEF p, l
    <3>3. QED
      BY <3>1, <3>2
  <2>5. QuadPart(fieldcode', parities', flipped', placed', next')
    <3>1. Len(fieldcode') = n
      BY <2>1 DEF n
    <3>2. QED
      BY <1>4, <2>1, <2>2, <2>4, <3>1 DEF QuadPart
  <2>6. QED
    BY <1>4, <2>1, <2>4, <2>5 DEF QuadTypes, n
<1>7. CASE TurnAround
  <2>1. /\ phase = "perm" /\ placed = <<>> /\ flipped' \in BOOLEAN
        /\ parities' = (IF flipped' THEN parities ELSE Tail(parities)) /\ next' = 1
        /\ phase' = (IF parities' = <<>> THEN "tried" ELSE phase)
        /\ fieldcode' = fieldcode /\ placed' = placed /\ quit_now' = quit_now
    BY <1>7 DEF TurnAround
  <2>2. parities' \in ParityLists \cup {<<>>}
    <3>1. Tail(<<FALSE>>) = <<>> /\ Tail(<<TRUE>>) = <<>> /\ Tail(<<FALSE, TRUE>>) = <<TRUE>>
      BY ShortTails
    <3>2. QED
      BY <1>4, <2>1, <3>1 DEF ParityLists
  <2>3. parities' # <<>> => QuadPart(fieldcode', parities', flipped', placed', next')
    BY <1>4, <2>1, <2>2 DEF QuadPart
  <2>4. fieldcode' \in FieldCodes /\ Len(placed') < Len(fieldcode') /\ quit_now' \in BOOLEAN
    BY <1>4, <2>1 DEF QuadTypes
  <2>5. QED
    BY <2>1, <2>3, <2>4 DEF QuadTypes
<1>8. CASE EndQuad
  BY <1>8 DEF EndQuad, QuadTypes
<1>9. QED
  BY <1>1, <1>2, <1>3, <1>5, <1>6, <1>7, <1>8 DEF QuadNext, Other, Visit, quadvars

-----------------------------------------------------------------------------
(* Range searches *)

\* A node with a point has more than one, unless one is alone.
LEMMA NotAlone ==
    ASSUME Built, ~SomeoneAlone, NEW n \in 0 .. Interior - 1, Places(n) # {}
    PROVE  Cardinality(Places(n)) > 1
<1> DEFINE S == Places(n)
<1>1. S \subseteq 0 .. N - 1 /\ N \in Nat /\ n \in 0 .. 2 * Interior
  BY DEF Built
<1>2. IsFiniteSet(S) /\ Cardinality(S) \in Nat
  <2>1. IsFiniteSet(0 .. N - 1)
    BY <1>1, FS_Interval
  <2> HIDE DEF S
  <2>2. IsFiniteSet(S)
    BY <1>1, <2>1, FS_Subset
  <2>3. QED
    BY <2>2, FS_CardinalityType
<1>3. Cardinality(S) # 0
  BY <1>2, FS_EmptySet
<1>4. Cardinality(S) # 1
  BY DEF SomeoneAlone
<1> HIDE DEF S
<1>5. Cardinality(S) > 1
  BY <1>2, <1>3, <1>4
<1>6. QED
  BY <1>5 DEF S

\* How far a coordinate is, when a plane is between it and the query.
LEMMA Rounding ==
    ASSUME NEW q \in Int, NEW r \in Nat, NEW w \in Int, NEW x \in Int,
           Abs(q \div 2 - w) > Ceil2(r),
           \/ q \div 2 < w /\ x >= w
           \/ ~(q \div 2 < w) /\ x <= w
    PROVE  Square(q - 2 * x) > Square(r)
<1> DEFINE t == q \div 2
           c == Ceil2(r)
<1>1. t \in Int /\ 2 * t <= q /\ q <= 2 * t + 1
  OBVIOUS
<1>2. c \in Nat /\ 2 * c >= r
  BY DEF Ceil2
<1>3. Abs(t - w) = (IF t - w < 0 THEN w - t ELSE t - w) /\ Abs(t - w) > c
  BY <1>1 DEF Abs
<1> HIDE DEF t, c
<1>4. CASE t < w /\ x >= w
  <2>1. w - t > c
    BY <1>1, <1>3, <1>4
  <2>2. 2 * x - q > r /\ 2 * x - q \in Nat /\ q - 2 * x = -(2 * x - q)
    BY <1>1, <1>2, <1>4, <2>1
  <2> DEFINE y == 2 * x - q
  <2>3. Square(q - 2 * x) = Square(y) /\ r < y /\ y \in Nat
    BY <2>2, Squares
  <2> HIDE DEF y
  <2>4. Square(r) < Square(y) /\ Square(r) \in Int /\ Square(y) \in Int
    BY <2>3, Squares
  <2>5. QED
    BY <2>3, <2>4
<1>5. CASE ~(t < w) /\ x <= w
  <2>1. t - w > c
    BY <1>1, <1>3, <1>5
  <2> DEFINE y == q - 2 * x
  <2>2. r < y /\ y \in Nat
    BY <1>1, <1>2, <1>5, <2>1
  <2> HIDE DEF y
  <2>3. Square(r) < Square(y) /\ Square(r) \in Int /\ Square(y) \in Int
    BY <2>2, Squares
  <2>4. QED
    BY <2>3 DEF y
<1>6. QED
  BY <1>4, <1>5 DEF t

\* What is beyond a plane that is out of reach is out of range.
LEMMA BeyondReach ==
    ASSUME pts \in Clouds, Built, ~SomeoneAlone, query.at \in [Dims -> Int], query.r \in Nat,
           NEW n \in 0 .. Interior - 1, NEW p \in Places(n), InRange(p),
           ~(Abs(TQuery(Dimension(split[n])) - Position(split[n])) <= Ceil2(query.r))
    PROVE  IF TQuery(Dimension(split[n])) < Position(split[n])
           THEN p \in Places(2 * n + 1) ELSE p \in Places(2 * n + 2)
<1> DEFINE d == Dimension(split[n])
           w == Position(split[n])
           x == At(p, d)
           q == query.at[d]
<1>1. Cardinality(Places(n)) > 1
  BY NotAlone
<1>2. /\ d \in Dims /\ w \in 0 .. TMax
      /\ p \in Places(2 * n + 1) \/ p \in Places(2 * n + 2)
      /\ p \in Places(2 * n + 1) => x <= w
      /\ p \in Places(2 * n + 2) => x >= w
  BY <1>1 DEF Built
<1>3. p \in 0 .. N - 1 /\ perm \in [0 .. N - 1 -> 1 .. N]
  <2>1. n \in 0 .. 2 * Interior
    BY DEF Built
  <2>2. QED
    BY <2>1 DEF Built
<1>4. x \in 0 .. TMax /\ Square(q - 2 * x) <= Dist2(query.at, p) /\ Dist2(query.at, p) \in Nat
  <2> DEFINE at == query.at
  <2>1. at \in [Dims -> Int]
    OBVIOUS
  <2> HIDE DEF at
  <2>2. Dist2(at, p) \in Nat /\ \A e \in Dims : Square(at[e] - 2 * At(p, e)) <= Dist2(at, p)
    BY <1>3, <2>1, DistanceHolds
  <2>3. x \in 0 .. TMax
    BY <1>2, <1>3, DistanceHolds
  <2>4. QED
    BY <1>2, <2>2, <2>3 DEF at
<1>5. Dist2(query.at, p) <= Square(query.r)
  BY DEF InRange
<1>6. q \in Int /\ TMax \in Nat /\ TQuery(d) = q \div 2
  BY <1>2, TreeAssumption DEF TQuery
<1> DEFINE r == query.r
<1>7. ~(Abs(q \div 2 - w) <= Ceil2(r)) /\ r \in Nat
  BY <1>6
<1> HIDE DEF d, w, x, q, r
<1>8. Abs(q \div 2 - w) > Ceil2(r)
  <2>1. q \div 2 - w \in Int
    BY <1>2, <1>6
  <2>2. Abs(q \div 2 - w) \in Int
    BY <2>1 DEF Abs
  <2>3. Ceil2(r) \in Int
    BY <1>7 DEF Ceil2
  <2>4. QED
    BY <1>7, <2>2, <2>3
<1>9. w \in Int /\ x \in Int
  BY <1>2, <1>4, <1>6
<1>10. ~(Square(q - 2 * x) > Square(r))
  <2>1. q - 2 * x \in Int
    BY <1>6, <1>9
  <2>2. Square(q - 2 * x) \in Int /\ Square(r) \in Int
    BY <1>7, <2>1, Squares
  <2>3. QED
    BY <1>4, <1>5, <2>2 DEF r
<1>11. ~(q \div 2 < w /\ x >= w) /\ ~(~(q \div 2 < w) /\ x <= w)
  BY <1>6, <1>7, <1>8, <1>9, <1>10, Rounding
<1>12. QED
  BY <1>2, <1>6, <1>11 DEF d, w

\* What a range search has found, and has still to look at.
RangeGood(st, fd) ==
    /\ IsSeq(st) /\ \A e \in Elems(st) : e.node \in 0 .. 2 * Interior
    /\ fd \subseteq AllInRange
    /\ Fits /\ ~SomeoneAlone =>
          \A p \in AllInRange : p \in fd \/ \E e \in Elems(st) : p \in Places(e.node)
RangeInv ==
    pc = "range" => query.at \in [Dims -> Int] /\ query.r \in Nat /\ RangeGood(stack, found)

\* While the tree stays as it is, so do the points of its nodes.
LEMMA PlacesSame ==
    ASSUME UNCHANGED tree
    PROVE  /\ N' = N /\ Interior' = Interior /\ SomeoneAlone' = SomeoneAlone
           /\ \A n : Places(n)' = Places(n)
           /\ \A p, d : At(p, d)' = At(p, d)
<1>1. pts' = pts /\ perm' = perm /\ lr' = lr /\ split' = split
  BY DEF tree
<1>2. N' = N /\ Bottom' = Bottom /\ Interior' = Interior
  BY <1>1 DEF N, Bottom, Interior
<1>3. ASSUME NEW n PROVE Places(n)' = Places(n)
  <2>1. Level(n)' = Level(n)
    BY <1>2 DEF Level
  <2>2. Depth(n)' = Depth(n)
    BY <1>2, <2>1 DEF Depth
  <2>3. FirstLeaf(n)' = FirstLeaf(n) /\ LastLeaf(n)' = LastLeaf(n)
    BY <1>2, <2>2 DEF FirstLeaf, LastLeaf
  <2>4. QED
    BY <1>1, <2>3 DEF Places, LeafLeft
<1>4. SomeoneAlone' = SomeoneAlone
  BY <1>2, <1>3 DEF SomeoneAlone
<1>5. \A p, d : At(p, d)' = At(p, d)
  BY <1>1 DEF At
<1>6. QED
  BY <1>2, <1>3, <1>4, <1>5

\* When the query does not change either, nor does what is in range of it.
LEMMA SearchSame ==
    ASSUME UNCHANGED tree, query' = query
    PROVE  /\ AllInRange' = AllInRange /\ UseTSplit' = UseTSplit /\ Fits' = Fits
           /\ Limit' = Limit
           /\ \A p : TDist2(p)' = TDist2(p) /\ Reach2(p)' = Reach2(p)
<1>1. Fits' = Fits
  BY DEF Fits
<1>2. UseTSplit' = UseTSplit /\ Limit' = Limit
  BY <1>1 DEF UseTSplit, Limit
<1>3. ASSUME NEW p PROVE InRange(p)' = InRange(p) /\ TDist2(p)' = TDist2(p) /\ Reach2(p)' = Reach2(p)
  <2>1. \A d : At(p, d)' = At(p, d)
    BY PlacesSame
  <2>2. TDist2(p)' = TDist2(p)
    BY <2>1 DEF TDist2, TQuery
  <2>3. Dist2(query.at, p)' = Dist2(query.at, p)
    BY <2>1 DEF Dist2
  <2>4. QED
    BY <1>1, <2>2, <2>3 DEF InRange, Reach2
<1>4. AllInRange' = AllInRange
  BY <1>3, PlacesSame DEF AllInRange
<1>5. QED
  BY <1>1, <1>2, <1>3, <1>4

\* A step of a range search loses no point.
LEMMA RangeKeeps ==
    ASSUME pts \in Clouds, Built, query.at \in [Dims -> Int], query.r \in Nat,
           RangeGood(stack, found), VisitRange
    PROVE  RangeGood(stack', found')
<1>1. stack # <<>> /\ IsSeq(stack) /\ (RangeLeaf \/ RangeSplit \/ RangeReal)
  BY DEF RangeGood, VisitRange
<1> DEFINE n == Top.node
           L == Entry(LeftOf, 0)
           R == Entry(RightOf, 0)
<1>2. Interior \in Nat
  BY DEF Built
<1>3. \A e : IsSeq(e) => /\ IsSeq(Front(stack) \o e)
                         /\ \E F : Elems(stack) = F \cup {Top} /\ Elems(Front(stack) \o e) = F \cup Elems(e)
  BY <1>1, PushRight DEF Top
<1>4. n \in 0 .. 2 * Interior /\ Top \in Elems(stack)
  <2>1. Top \in Elems(stack)
    BY <1>3, ShortLists
  <2>2. QED
    BY <2>1 DEF RangeGood
<1>5. CASE RangeLeaf
  <2>1. /\ stack' = Front(stack) \o <<>>
        /\ found' = found \cup {p \in Places(n) : InRange(p)}
    BY <1>5 DEF RangeLeaf, Push
  <2>2. PICK F : Elems(stack) = F \cup {Top} /\ Elems(stack') = F
    BY <1>3, <2>1, ShortLists
  <2>3. IsSeq(stack')
    BY <1>3, <2>1, ShortLists
  <2>4. Places(n) \subseteq 0 .. N - 1
    BY <1>4 DEF Built
  <2>5. found' \subseteq AllInRange
    BY <2>1, <2>4 DEF RangeGood, AllInRange
  <2>6. \A p \in AllInRange : InRange(p)
    BY DEF AllInRange
  <2>7. QED
    BY <2>1, <2>2, <2>3, <2>5, <2>6 DEF RangeGood
<1>6. ASSUME ~IsLeaf
      PROVE  /\ n \in 0 .. Interior - 1
             /\ L.node = 2 * n + 1 /\ R.node = 2 * n + 2
             /\ L.node \in 0 .. 2 * Interior /\ R.node \in 0 .. 2 * Interior
             /\ Places(n) = Places(L.node) \cup Places(R.node)
  <2>1. n \in 0 .. Interior - 1
    BY <1>2, <1>4, <1>6 DEF IsLeaf
  <2>2. L.node = 2 * n + 1 /\ R.node = 2 * n + 2
    BY DEF Entry, LeftOf, RightOf
  <2>3. 2 * n + 1 \in 0 .. 2 * Interior /\ 2 * n + 2 \in 0 .. 2 * Interior
    BY <1>2, <2>1
  <2>4. Places(n) = Places(2 * n + 1) \cup Places(2 * n + 2)
    BY <2>1 DEF Built
  <2>5. QED
    BY <2>1, <2>2, <2>3, <2>4
\* Both children are put on the stack, or one.
<1>7. ASSUME NEW isleft, NEW reach
      PROVE  \E e : /\ (IF isleft THEN <<L>> \o (IF reach THEN <<R>> ELSE <<>>)
                                   ELSE <<R>> \o (IF reach THEN <<L>> ELSE <<>>)) = e
                    /\ IsSeq(e) /\ Elems(e) \subseteq {L, R}
                    /\ reach \/ isleft => L \in Elems(e)
                    /\ reach \/ ~isleft => R \in Elems(e)
  <2> DEFINE es == IF isleft THEN <<L>> \o (IF reach THEN <<R>> ELSE <<>>)
                             ELSE <<R>> \o (IF reach THEN <<L>> ELSE <<>>)
  <2> HIDE DEF L, R
  <2>0. /\ <<L>> \o <<R>> = <<L, R>> /\ IsSeq(<<L, R>>) /\ Elems(<<L, R>>) = {L, R}
        /\ <<R>> \o <<L>> = <<R, L>> /\ IsSeq(<<R, L>>) /\ Elems(<<R, L>>) = {R, L}
    BY ShortLists
  <2>2. CASE isleft /\ reach
    <3>1. es = <<L, R>>
      BY <2>0, <2>2
    <3>2. QED
      BY <2>0, <2>2, <3>1
  <2>3. CASE isleft /\ ~reach
    <3>1. <<L>> \o <<>> = <<L>> /\ IsSeq(<<L>>) /\ Elems(<<L>>) = {L}
      BY ShortLists
    <3>2. es = <<L>>
      BY <2>3, <3>1
    <3>3. QED
      BY <2>3, <3>1, <3>2
  <2>4. CASE ~isleft /\ reach
    <3>1. es = <<R, L>>
      BY <2>0, <2>4
    <3>2. QED
      BY <2>0, <2>4, <3>1
  <2>5. CASE ~isleft /\ ~reach
    <3>1. <<R>> \o <<>> = <<R>> /\ IsSeq(<<R>>) /\ Elems(<<R>>) = {R}
      BY ShortLists
    <3>2. es = <<R>>
      BY <2>5, <3>1
    <3>3. QED
      BY <2>5, <3>1, <3>2
  <2>6. QED
    BY <2>2, <2>3, <2>4, <2>5
<1>8. ASSUME ~IsLeaf, found' = found, NEW e, stack' = Front(stack) \o e, IsSeq(e), Elems(e) \subseteq {L, R},
             Fits /\ ~SomeoneAlone =>
                \A p \in AllInRange : p \in Places(n) =>
                    \/ p \in Places(L.node) /\ L \in Elems(e)
                    \/ p \in Places(R.node) /\ R \in Elems(e)
      PROVE  RangeGood(stack', found')
  <2>1. PICK F : Elems(stack) = F \cup {Top} /\ Elems(stack') = F \cup Elems(e)
    BY <1>3, <1>8
  <2>2. IsSeq(stack')
    BY <1>3, <1>8
  <2> HIDE DEF L, R
  <2>3. \A x \in Elems(stack') : x.node \in 0 .. 2 * Interior
    BY <1>6, <1>8, <2>1 DEF RangeGood
  <2>4. ASSUME Fits, ~SomeoneAlone, NEW p \in AllInRange, p \notin found
        PROVE  \E x \in Elems(stack') : p \in Places(x.node)
    <3>1. PICK x \in Elems(stack) : p \in Places(x.node)
      BY <2>4 DEF RangeGood
    <3>2. CASE x \in F
      BY <2>1, <3>1, <3>2
    <3>3. CASE x = Top
      <4>1. p \in Places(n)
        BY <3>1, <3>3
      <4>2. QED
        BY <1>8, <2>1, <2>4, <4>1
    <3>4. QED
      BY <2>1, <3>2, <3>3
  <2>5. QED
    BY <1>8, <2>2, <2>3, <2>4 DEF RangeGood
<1>9. CASE RangeSplit
  <2> DEFINE isleft == TQuery(Dim) < Plane
             reach == Abs(TQuery(Dim) - Plane) <= Ceil2(query.r)
  <2>1. /\ ~IsLeaf /\ found' = found
        /\ stack' = Front(stack) \o
              (IF isleft THEN <<L>> \o (IF reach THEN <<R>> ELSE <<>>)
                         ELSE <<R>> \o (IF reach THEN <<L>> ELSE <<>>))
    BY <1>9 DEF RangeSplit, Descend, Push
  <2> HIDE DEF isleft, reach, L, R
  <2>2. PICK e : /\ stack' = Front(stack) \o e /\ IsSeq(e) /\ Elems(e) \subseteq {L, R}
                 /\ reach \/ isleft => L \in Elems(e)
                 /\ reach \/ ~isleft => R \in Elems(e)
    BY <1>7, <2>1
  <2>3. ASSUME Fits, ~SomeoneAlone, NEW p \in AllInRange, p \in Places(n)
        PROVE  \/ p \in Places(L.node) /\ L \in Elems(e)
               \/ p \in Places(R.node) /\ R \in Elems(e)
    <3>1. InRange(p)
      BY <2>3 DEF AllInRange
    <3>2. n \in 0 .. Interior - 1 /\ L.node = 2 * n + 1 /\ R.node = 2 * n + 2
          /\ (p \in Places(L.node) \/ p \in Places(R.node))
      BY <1>6, <2>1, <2>3
    <3>3. CASE reach
      BY <2>2, <3>2, <3>3
    <3>4. CASE ~reach
      <4>1. IF isleft THEN p \in Places(2 * n + 1) ELSE p \in Places(2 * n + 2)
        <5> USE DEF isleft, reach
        <5> DEFINE m == Top.node
        <5>1. m \in 0 .. Interior - 1 /\ p \in Places(m) /\ Dim = Dimension(split[m]) /\ Plane = Position(split[m])
          BY <2>3, <3>2 DEF Dim, Plane
        <5>2. ~(Abs(TQuery(Dimension(split[m])) - Position(split[m])) <= Ceil2(query.r))
          BY <3>4, <5>1
        <5> HIDE DEF m
        <5>3. IF TQuery(Dimension(split[m])) < Position(split[m])
              THEN p \in Places(2 * m + 1) ELSE p \in Places(2 * m + 2)
          BY <2>3, <3>1, <5>1, <5>2, BeyondReach
        <5>4. QED
          BY <5>1, <5>3 DEF m
      <4>2. QED
        BY <2>2, <3>2, <4>1
    <3>5. QED
      BY <3>3, <3>4
  <2>4. QED
    BY <1>8, <2>1, <2>2, <2>3
<1>10. CASE RangeReal
  <2> DEFINE q == query.at[Dim]
             rsplit == Unit * ((2 * Plane) \div Unit)
             isleft == q < rsplit
             reach == Abs(q - rsplit) <= query.r
  <2>1. /\ ~IsLeaf /\ found' = found /\ ~UseTSplit
        /\ stack' = Front(stack) \o
              (IF isleft THEN <<L>> \o (IF reach THEN <<R>> ELSE <<>>)
                         ELSE <<R>> \o (IF reach THEN <<L>> ELSE <<>>))
    BY <1>10 DEF RangeReal, Descend, Push
  \* A radius that is not truncated reaches all of the tree.
  <2>2. ASSUME Fits, ~SomeoneAlone, Places(n) # {} PROVE reach
    <3>1. n \in 0 .. Interior - 1
      BY <1>6, <2>1
    <3>2. Cardinality(Places(n)) > 1
      <4> HIDE DEF n
      <4>1. QED
        BY <2>2, <3>1, NotAlone
    <3>3. Dim \in Dims /\ Plane \in 0 .. TMax
      BY <3>1, <3>2 DEF Built, Dim, Plane
    <3>4. q \in 0 .. 2 * TMax /\ query.r \in Nat /\ ~(query.r < 2 * TMax)
      BY <2>1, <2>2, <3>3 DEF Fits, UseTSplit
    <3>5. TMax \in Nat /\ Unit \in Nat \ {0}
      BY TreeAssumption, QueryAssumption
    <3> DEFINE x == 2 * Plane
    <3>6. x \in 0 .. 2 * TMax /\ x \in Nat
      BY <3>3, <3>5
    <3> HIDE DEF q, x
    <3>7. Unit * (x \div Unit) \in 0 .. x
      BY <3>5, <3>6
    <3> DEFINE y == Unit * (x \div Unit)
    <3>8. y \in 0 .. 2 * TMax
      BY <3>5, <3>6, <3>7
    <3>9. y = rsplit
      BY DEF x
    <3> HIDE DEF y
    <3>10. Abs(q - y) <= query.r
      BY <3>4, <3>5, <3>8 DEF Abs
    <3>11. QED
      BY <3>9, <3>10
  <2> HIDE DEF isleft, reach, L, R
  <2>3. PICK e : /\ stack' = Front(stack) \o e /\ IsSeq(e) /\ Elems(e) \subseteq {L, R}
                 /\ reach \/ isleft => L \in Elems(e)
                 /\ reach \/ ~isleft => R \in Elems(e)
    BY <1>7, <2>1
  <2>4. ASSUME Fits, ~SomeoneAlone, NEW p \in AllInRange, p \in Places(n)
        PROVE  \/ p \in Places(L.node) /\ L \in Elems(e)
               \/ p \in Places(R.node) /\ R \in Elems(e)
    <3>1. reach
      BY <2>2, <2>4
    <3>2. p \in Places(L.node) \/ p \in Places(R.node)
      BY <1>6, <2>1, <2>4
    <3>3. QED
      BY <2>3, <3>1, <3>2
  <2>5. QED
    BY <1>8, <2>1, <2>3, <2>4
<1>11. QED
  BY <1>1, <1>5, <1>9, <1>10

\* What a range search still has to find depends on the tree and the query alone.
LEMMA RangeSame ==
    ASSUME UNCHANGED tree, query' = query, RangeGood(stack', found')
    PROVE  RangeGood(stack, found)'
<1>1. /\ AllInRange' = AllInRange /\ Fits' = Fits
      /\ Interior' = Interior /\ SomeoneAlone' = SomeoneAlone
  BY SearchSame, PlacesSame
<1>2. \A n : Places(n)' = Places(n)
  BY PlacesSame
<1>3. /\ IsSeq(stack') /\ \A e \in Elems(stack') : e.node \in 0 .. 2 * Interior
      /\ found' \subseteq AllInRange
      /\ Fits /\ ~SomeoneAlone =>
            \A p \in AllInRange : p \in found' \/ \E e \in Elems(stack') : p \in Places(e.node)
  BY DEF RangeGood
<1>4. /\ IsSeq(stack)' /\ \A e \in Elems(stack)' : e.node \in 0 .. 2 * Interior'
      /\ found' \subseteq AllInRange'
  BY <1>1, <1>3 DEF IsSeq, Elems
<1>5. Fits' /\ ~SomeoneAlone' =>
            \A p \in AllInRange' : p \in found' \/ \E e \in Elems(stack)' : p \in Places(e.node)'
  <2>1. Elems(stack)' = Elems(stack')
    BY DEF Elems
  <2>2. \A e : Places(e.node)' = Places(e.node)
    BY <1>2
  <2>3. QED
    BY <1>1, <1>3, <2>1, <2>2
<1>6. QED
  BY <1>4, <1>5 DEF RangeGood

\* A search begins at the root, which has all points.
LEMMA RangeStarts ==
    ASSUME Built, UNCHANGED tree, query'.at \in [Dims -> Int], query'.r \in Nat,
           stack' = <<Entry(0, 0)>>, found' = {}
    PROVE  RangeInv'
<1>1. N' = N /\ Interior' = Interior /\ \A n : Places(n)' = Places(n)
  BY PlacesSame
<1>2. Places(0) = 0 .. N - 1 /\ Interior \in Nat
  BY DEF Built
<1> DEFINE e == Entry(0, 0)
<1>3. e.node = 0
  BY DEF Entry
<1>4. IsSeq(stack') /\ Elems(stack') = {e}
  BY ShortLists
<1> HIDE DEF e
<1>5. Places(e.node)' = 0 .. N' - 1
  BY <1>1, <1>2, <1>3
<1>6. AllInRange' \subseteq 0 .. N' - 1
  BY DEF AllInRange
<1>7. e.node \in 0 .. 2 * Interior'
  BY <1>1, <1>2, <1>3
<1>8. IsSeq(stack)' /\ Elems(stack)' = {e}
  BY <1>4 DEF IsSeq, Elems
<1>9. RangeGood(stack, found)'
  BY <1>5, <1>6, <1>7, <1>8 DEF RangeGood
<1>10. QED
  BY <1>9 DEF RangeInv

\* The first of one, and of two.
LEMMA ShortHeads == /\ \A a : Head(<<a>>) = a
                    /\ \A a, b : Head(<<a, b>>) = a
<1>1. ASSUME NEW a PROVE Head(<<a>>) = a
  OBVIOUS
<1>2. ASSUME NEW a, NEW b PROVE Head(<<a, b>>) = a
  OBVIOUS
<1>3. QED
  BY <1>1, <1>2

\* The parity that is tried.
LEMMA ParityHead == ASSUME NEW q \in ParityLists PROVE Head(q) \in BOOLEAN
<1>1. q = <<FALSE>> \/ q = <<TRUE>> \/ q = <<FALSE, TRUE>>
  BY DEF ParityLists
<1>2. Head(<<FALSE>>) = FALSE /\ Head(<<TRUE>>) = TRUE /\ Head(<<FALSE, TRUE>>) = FALSE
  BY ShortHeads
<1>3. Head(q) = FALSE \/ Head(q) = TRUE
  BY <1>1, <1>2
<1>4. QED
  BY <1>3

\* The search for a quad that was filled asks for a point.
LEMMA FilledAsks ==
    ASSUME QuadTypes, phase = "perm", next \in Inner, next \notin ToSet(placed),
           placed' = Append(placed, next), Len(placed') = Len(fieldcode), Filled(placed')
    PROVE  query'.at \in [Dims -> Int] /\ query'.r \in Nat
<1> DEFINE n == Len(fieldcode)
           order == placed'
           flip == Head(parities)
<1>1. /\ fieldcode \in FieldCodes /\ QuadPart(fieldcode, parities, flipped, placed, next)
  BY DEF QuadTypes
<1>2. n \in Nat /\ DOMAIN fieldcode = 1 .. n
  BY <1>1, CodesRight
<1>3. next \in 1 .. n /\ Row(placed, n) /\ flipped \in BOOLEAN
  BY <1>1, <1>2 DEF Inner, QuadPart
<1>4. Row(order, n) /\ Len(order) = n
  <2> HIDE DEF n
  <2>1. Row(order, n)
    BY <1>2, <1>3, PlacedMore
  <2>2. QED
    BY <2>1 DEF n
<1>5. flip \in BOOLEAN
  <2>1. parities \in ParityLists
    BY <1>1 DEF QuadPart
  <2>2. QED
    BY <2>1, ShortHeads DEF ParityLists
<1>6. \A k \in 1 .. n : order[k] \in 1 .. n
  BY <1>4, ElementOfSeq DEF Row
<1>7. query' = [at |-> Query(flip, flipped, order), r |-> Tol]
  BY DEF Filled
<1>8. Query(flip, flipped, order) \in [Dims -> Int]
  <2> HIDE DEF order, flip
  <2>1. QED
    BY <1>1, <1>3, <1>5, <1>6, QueriesRight
<1>9. Tol \in Nat
  BY FieldAssumption
<1>10. QED
  BY <1>7, <1>8, <1>9

\* Tree, quad and range search.
SearchInv == BuildInv /\ QuadTypes /\ RangeInv

\* At first, nothing is searched for.
LEMMA SearchInvStarts == ASSUME QuadInit PROVE SearchInv
<1>1. pc # "range"
  BY DEF QuadInit, Init
<1>2. QED
  BY <1>1, BuildInvStarts, QuadTypesStart DEF SearchInv, RangeInv

\* A query that is asked is a point and a radius, and its search starts at the root.
LEMMA AskedRight ==
    ASSUME NEW mode, Ask(mode)
    PROVE  /\ query'.at \in [Dims -> Int] /\ UNCHANGED tree /\ pc = "ready" /\ pc' = mode
           /\ stack' = <<Entry(0, 0)>> /\ found' = {}
           /\ IF mode = "near" THEN query'.r \in Nat \cup {NoRadius} ELSE query'.r \in Nat
<1>1. PICK q \in Queries, r \in Radii \cup (IF mode = "near" THEN {NoRadius} ELSE {}) :
         query' = [at |-> q, r |-> r]
  BY DEF Ask
<1>2. query'.at = q /\ query'.r = r
  BY <1>1
<1>3. QED
  BY <1>2, QueryAssumption DEF Ask

\* Each step keeps what is known of the tree, of the quad and of the range search.
LEMMA SearchInvKept == ASSUME SearchInv, [QuadNext]_<<vars, quadvars>> PROVE SearchInv'
<1>1. BuildInv' /\ QuadTypes'
  BY BuildInvKept, QuadTypesKept DEF SearchInv
<1>2. TreeInv /\ RangeInv /\ QuadTypes /\ pts \in Clouds
  BY DEF SearchInv, BuildInv, TreeInv, TreeTypes
<1> SUFFICES RangeInv'
  BY <1>1 DEF SearchInv
<1>3. CASE UNCHANGED vars
  <2>1. UNCHANGED tree /\ query' = query /\ pc' = pc /\ stack' = stack /\ found' = found
    BY <1>3 DEF vars
  <2>2. ASSUME pc' = "range" PROVE query'.at \in [Dims -> Int] /\ query'.r \in Nat /\ RangeGood(stack, found)'
    <3>1. RangeGood(stack', found')
      BY <1>2, <2>1, <2>2 DEF RangeInv
    <3>2. QED
      BY <1>2, <2>1, <2>2, <3>1, RangeSame DEF RangeInv
  <2>3. QED
    BY <2>2 DEF RangeInv
<1>4. CASE VisitRange
  <2>1. pc = "range" /\ pc' = pc /\ UNCHANGED tree /\ query' = query
    BY <1>4 DEF VisitRange
  <2>2. Built
    BY <1>2, <2>1, BuiltRight
  <2>3. RangeGood(stack', found')
    BY <1>2, <1>4, <2>1, <2>2, RangeKeeps DEF RangeInv
  <2>4. QED
    BY <1>2, <2>1, <2>3, RangeSame DEF RangeInv
<1>5. CASE StartRange
  <2>1. Ask("range")
    BY <1>5 DEF StartRange
  <2>2. /\ query'.at \in [Dims -> Int] /\ UNCHANGED tree /\ pc = "ready"
        /\ stack' = <<Entry(0, 0)>> /\ found' = {} /\ query'.r \in Nat
    BY <2>1, AskedRight
  <2>3. Built
    BY <1>2, <2>2, BuiltRight
  <2>4. QED
    BY <2>2, <2>3, RangeStarts
<1>6. CASE PlaceStar
  <2>1. \/ UNCHANGED vars
        \/ /\ phase = "perm" /\ next \in Inner /\ next \notin ToSet(placed)
           /\ placed' = Append(placed, next) /\ Len(placed') = Len(fieldcode) /\ Filled(placed')
    BY <1>6 DEF PlaceStar
  <2>2. CASE UNCHANGED vars
    BY <1>3, <2>2
  <2>3. CASE /\ phase = "perm" /\ next \in Inner /\ next \notin ToSet(placed)
             /\ placed' = Append(placed, next) /\ Len(placed') = Len(fieldcode) /\ Filled(placed')
    <3>1. query'.at \in [Dims -> Int] /\ query'.r \in Nat
      BY <1>2, <2>3, FilledAsks
    <3>2. UNCHANGED tree /\ stack' = <<Entry(0, 0)>> /\ found' = {}
      BY <2>3 DEF Filled
    <3>3. pc # "build"
      BY <2>3 DEF SearchInv, BuildInv, InPhase
    <3>4. QED
      BY <1>2, <3>1, <3>2, <3>3, BuiltRight, RangeStarts
  <2>4. QED
    BY <2>1, <2>2, <2>3
<1>7. CASE Build \/ StartNearest \/ VisitNear \/ Return \/ Resolve
  <2>1. pc' # "range"
    <3>1. CASE Build
      BY <3>1 DEF Build
    <3>2. CASE StartNearest
      BY <3>2, AskedRight DEF StartNearest
    <3>3. CASE VisitNear
      BY <3>3 DEF VisitNear
    <3>4. CASE Return
      BY <3>4 DEF Return
    <3>5. CASE Resolve
      BY <3>5 DEF Resolve
    <3>6. QED
      BY <1>7, <3>1, <3>2, <3>3, <3>4, <3>5
  <2>2. QED
    BY <2>1 DEF RangeInv
<1>8. CASE StartQuad \/ Skip \/ Backtrack \/ TurnAround \/ EndQuad
  <2>1. UNCHANGED vars
    BY <1>8 DEF StartQuad, Skip, Backtrack, TurnAround, EndQuad
  <2>2. QED
    BY <1>3, <2>1
<1>9. QED
  BY <1>3, <1>4, <1>5, <1>6, <1>7, <1>8 DEF QuadNext, Other, Visit, Next

\* A range search finds what is in range (KdTree!RangeIsExact).
THEOREM RangeRight == QuadSpec => []RangeIsExact
<1>1. QuadInit => SearchInv
  BY SearchInvStarts
<1>2. SearchInv /\ [QuadNext]_<<vars, quadvars>> => SearchInv'
  BY SearchInvKept
<1>3. SearchInv => RangeIsExact
  <2>1. SUFFICES ASSUME SearchInv, pc = "range", Answered
                 PROVE  /\ found \subseteq AllInRange
                        /\ Fits /\ ~SomeoneAlone => found = AllInRange
    BY DEF RangeIsExact
  <2>2. stack = <<>> /\ RangeGood(stack, found)
    BY <2>1 DEF Answered, SearchInv, RangeInv
  <2>3. Elems(stack) = {}
    BY <2>2, ShortLists
  <2>4. QED
    BY <2>2, <2>3 DEF RangeGood
<1>4. QED
  BY <1>1, <1>2, <1>3, PTL DEF QuadSpec

-----------------------------------------------------------------------------
(* Nearest-neighbour searches *)

\* The premise of NearestIsNearest, and a question that makes sense.
Short == Fits => \A p \in 0 .. N - 1 : TDist2(p) <= Square(TMax)
NearAsked == query.at \in [Dims -> Int] /\ query.r \in Nat \cup {NoRadius}
NearReady == pts \in Clouds /\ Built /\ ~SomeoneAlone /\ Short /\ NearAsked

\* A distance that a node was put on the stack with is a bound on its points.
FarBound(far) == IF Fits THEN Square(far) ELSE far
EntryGood(e) == /\ e.node \in 0 .. 2 * Interior
                /\ \A p \in Places(e.node) : /\ e.far \in Nat /\ (Fits => e.far <= TMax)
                                             /\ FarBound(e.far) <= Reach2(p)

\* The distance from which on a point may be left out; TMax is the largest.
Beyond(nr) == IF Fits /\ nr = NoLimit THEN Square(TMax) ELSE nr

\* What a nearest-neighbour search has found, and has still to look at.
BestGood(nr, fd) ==
    /\ nr \in Nat /\ nr <= Limit
    /\ fd = {} => nr = Limit
    /\ fd # {} => \E p \in 0 .. N - 1 : fd = {p} /\ Reach2(p) = nr
NearGood(st, nr, fd) ==
    /\ IsSeq(st) /\ \A e \in Elems(st) : EntryGood(e)
    /\ BestGood(nr, fd)
    /\ \A p \in 0 .. N - 1 : \/ \E e \in Elems(st) : p \in Places(e.node)
                             \/ Reach2(p) >= Beyond(nr)
    /\ Fits /\ nr = NoLimit => \E e \in Elems(st) : Places(e.node) # {}
NearInv ==
    pc = "near" => NearAsked /\ (~SomeoneAlone /\ Short => NearGood(stack, near, found))

\* What a distance is at least, and at most.
LEMMA ReachHolds ==
    ASSUME NearReady, NEW p \in 0 .. N - 1
    PROVE  /\ Reach2(p) \in Nat /\ (Fits => Reach2(p) <= Square(TMax))
           /\ \A d \in Dims :
                /\ At(p, d) \in 0 .. TMax /\ TQuery(d) \in Int /\ query.at[d] \in Int
                /\ Fits => TQuery(d) \in 0 .. TMax /\ Square(TQuery(d) - At(p, d)) <= Reach2(p)
                /\ ~Fits => Square(query.at[d] - 2 * At(p, d)) <= Reach2(p)
<1> DEFINE at == query.at
<1>1. at \in [Dims -> Int] /\ TMax \in Nat
  BY TreeAssumption DEF NearReady, NearAsked
<1>2. pts \in Clouds /\ perm \in [0 .. N - 1 -> 1 .. N]
  BY DEF NearReady, Built
<1>3. \A d \in Dims : at[d] \in Int /\ TQuery(d) = at[d] \div 2
  BY <1>1 DEF TQuery
<1>4. ASSUME Fits, NEW d \in Dims PROVE TQuery(d) \in 0 .. TMax
  <2> DEFINE x == at[d]
  <2>1. x \in 0 .. 2 * TMax /\ TQuery(d) = x \div 2
    BY <1>3, <1>4 DEF Fits
  <2> HIDE DEF x
  <2>2. QED
    BY <1>1, <2>1
<1>5. \A d \in Dims : TQuery(d) \in Int
  <2>1. \A x \in Int : x \div 2 \in Int
    OBVIOUS
  <2>2. QED
    BY <1>3, <2>1
<1>6. \A d \in Dims : At(p, d) \in 0 .. TMax
  BY <1>2, DistanceHolds
<1>7. TDist2(p) \in Nat /\ \A d \in Dims : Square(TQuery(d) - At(p, d)) <= TDist2(p)
  BY <1>1, <1>2, DistanceHolds
<1> HIDE DEF at
<1>8. Dist2(at, p) \in Nat /\ \A d \in Dims : Square(at[d] - 2 * At(p, d)) <= Dist2(at, p)
  BY <1>1, <1>2, DistanceHolds
<1>9. Reach2(p) = IF Fits THEN TDist2(p) ELSE Dist2(at, p)
  BY DEF Reach2, at
<1>10. Fits => TDist2(p) <= Square(TMax)
  BY DEF NearReady, Short
<1>11. QED
  BY <1>3, <1>4, <1>5, <1>6, <1>7, <1>8, <1>9, <1>10 DEF at

\* A limit on squares of distances in the tree is none, or one that fits.
LEMMA LimitHolds ==
    ASSUME NearAsked
    PROVE  /\ Limit \in Nat /\ NoLimit \in Nat /\ TMax \in Nat /\ Square(TMax) \in Nat
           /\ Square(TMax) < NoLimit
           /\ Fits => Limit = NoLimit \/ Limit <= Square(TMax)
<1>1. TMax \in Nat /\ NDim \in Nat /\ NDim >= 1
  BY TreeAssumption
<1>2. Square(TMax) < NoLimit /\ NoLimit \in Nat
  <2> DEFINE y == TMax + 2
  <2>1. y \in Nat /\ TMax < y
    BY <1>1
  <2> HIDE DEF y
  <2>2. TMax * TMax < y * y /\ y * y \in Nat
    BY <1>1, <2>1
  <2> DEFINE z == y * y
             x == TMax * TMax
  <2>3. x < z /\ z \in Nat /\ x \in Nat
    BY <1>1, <2>2
  <2>4. NoLimit = 16 * y * y * NDim
    BY DEF NoLimit, y
  <2>5. 16 * y * y = 16 * z
    BY <2>1
  <2> HIDE DEF z, x
  <2>6. 16 * z * NDim \in Nat /\ 16 * z * NDim >= z
    BY <1>1, <2>3
  <2>7. QED
    BY <2>3, <2>4, <2>5, <2>6 DEF Square, x
<1>3. Square(TMax) \in Nat
  BY <1>1, Squares
<1> DEFINE r == query.r
<1>4. r \in Nat \cup {NoRadius}
  BY DEF NearAsked
<1>5. r # NoRadius => r \in Nat /\ Ceil2(r) \in Nat /\ (r <= 2 * TMax => Ceil2(r) <= TMax)
  BY <1>1, <1>4 DEF Ceil2
<1>6. Limit = IF r = NoRadius \/ (Fits /\ r > 2 * TMax) THEN NoLimit
              ELSE Square(IF Fits THEN Ceil2(r) ELSE r)
  BY DEF Limit
<1> HIDE DEF r
<1>7. CASE r = NoRadius \/ (Fits /\ r > 2 * TMax)
  BY <1>1, <1>2, <1>3, <1>6, <1>7
<1>8. CASE r # NoRadius /\ ~Fits
  <2>1. Limit = Square(r) /\ r \in Nat
    BY <1>5, <1>6, <1>8
  <2>2. QED
    BY <1>1, <1>2, <1>3, <1>8, <2>1, Squares
<1>9. CASE r # NoRadius /\ Fits /\ ~(r > 2 * TMax)
  <2> DEFINE c == Ceil2(r)
  <2>1. Limit = Square(c)
    BY <1>6, <1>9
  <2>2. c \in Nat /\ c <= TMax
    BY <1>1, <1>5, <1>9
  <2> HIDE DEF c
  <2>3. Square(c) \in Nat /\ Square(c) <= Square(TMax)
    BY <1>1, <2>2, Squares
  <2>4. QED
    BY <1>1, <1>2, <1>3, <2>1, <2>3
<1>10. QED
  BY <1>7, <1>8, <1>9

\* The distance that prunes is rounded up, and fits the type of the tree.
LEMMA ClosestHolds ==
    ASSUME NearReady, Fits, BestGood(near, found)
    PROVE  Closest \in 0 .. TMax /\ Square(Closest) >= Beyond(near)
           /\ (near = NoLimit => Closest = TMax)
<1>1. /\ near \in Nat /\ TMax \in Nat /\ Square(TMax) \in Nat /\ NoLimit \in Nat
      /\ near = NoLimit \/ near <= Square(TMax)
  <2>1. near \in Nat /\ near <= Limit /\ Limit \in Nat /\ TMax \in Nat /\ Square(TMax) \in Nat
        /\ NoLimit \in Nat /\ (Limit = NoLimit \/ Limit <= Square(TMax))
        /\ Square(TMax) < NoLimit
    BY LimitHolds DEF BestGood, NearReady
  <2>2. found = {} => near = Limit
    BY DEF BestGood
  <2>3. found # {} => near <= Square(TMax)
    BY ReachHolds DEF BestGood
  <2>4. QED
    BY <2>1, <2>2, <2>3
<1>2. CASE near = NoLimit
  <2>1. Closest = TMax /\ Beyond(near) = Square(TMax)
    BY <1>2 DEF Closest, Beyond
  <2>2. QED
    BY <1>1, <2>1
<1>3. CASE near # NoLimit
  <2> DEFINE K == {k \in 0 .. near : k * k >= near}
             c == CeilRoot(near)
  <2>1. c = Min(K)
    BY DEF CeilRoot
  <2>2. near \in K
    <3>1. near * near >= near
      BY <1>1
    <3>2. QED
      BY <1>1, <3>1
  <2>3. K \in SUBSET Nat
    BY <1>1
  <2>4. c \in K /\ \A k \in K : c <= k
    <3> HIDE DEF K, c
    <3>1. QED
      BY <2>1, <2>2, <2>3, MinIs
  <2>5. c \in Nat /\ c <= near /\ c * c >= near
    BY <1>1, <2>4
  <2>6. c <= TMax
    <3>1. CASE TMax <= near
      <4>1. TMax * TMax >= near
        BY <1>1, <1>3 DEF Square
      <4>2. TMax \in K
        BY <1>1, <3>1, <4>1
      <4>3. QED
        BY <2>4, <4>2
    <3>2. CASE near < TMax
      <4> HIDE DEF c
      <4>1. QED
        BY <1>1, <2>5, <3>2
    <3>3. QED
      BY <1>1, <3>1, <3>2
  <2>7. Closest = c % (TMax + 1) /\ Beyond(near) = near
    BY <1>3 DEF Closest, Beyond
  <2> HIDE DEF c
  <2>8. c % (TMax + 1) = c
    BY <1>1, <2>5, <2>6
  <2>9. QED
    BY <1>1, <1>3, <2>5, <2>6, <2>7, <2>8 DEF Square
<1>4. QED
  BY <1>2, <1>3

\* The plane of a node is no farther than what is on the other side of it.
LEMMA PlaneBounds ==
    ASSUME NearReady, NEW n \in 0 .. Interior - 1, NEW p \in Places(n)
    PROVE  LET off == IF Fits THEN TQuery(Dimension(split[n])) - Position(split[n])
                      ELSE query.at[Dimension(split[n])] - 2 * Position(split[n])
           IN  /\ off \in Int /\ (Fits => Abs(off) \in 0 .. TMax)
               /\ (IF off < 0 THEN p \in Places(2 * n + 2) ELSE p \in Places(2 * n + 1))
                     => Square(off) <= Reach2(p)
               /\ Places(2 * n + 2) # {}
<1> DEFINE d == Dimension(split[n])
           w == Position(split[n])
           x == At(p, d)
           t == TQuery(d)
           q == query.at[d]
           off == IF Fits THEN t - w ELSE q - 2 * w
<1>1. Cardinality(Places(n)) > 1 /\ Built
  BY NotAlone DEF NearReady
<1>2. /\ d \in Dims /\ w \in 0 .. TMax /\ Places(2 * n + 2) # {}
      /\ p \in Places(2 * n + 1) => x <= w
      /\ p \in Places(2 * n + 2) => x >= w
  BY <1>1 DEF Built
<1>3. p \in 0 .. N - 1
  <2>1. n \in 0 .. 2 * Interior
    BY <1>1 DEF Built
  <2>2. QED
    BY <1>1, <2>1 DEF Built
<1>4. /\ x \in 0 .. TMax /\ t \in Int /\ q \in Int
      /\ Fits => t \in 0 .. TMax /\ Square(t - x) <= Reach2(p)
      /\ ~Fits => Square(q - 2 * x) <= Reach2(p)
      /\ Reach2(p) \in Nat
  BY <1>2, <1>3, ReachHolds
<1>5. TMax \in Nat
  BY TreeAssumption
<1> DEFINE far == IF off < 0 THEN p \in Places(2 * n + 2) ELSE p \in Places(2 * n + 1)
<1>6. far => IF off < 0 THEN x >= w ELSE x <= w
  BY <1>2
<1> HIDE DEF d, w, x, t, q, far
\* Farther away in the same direction.
<1>7. ASSUME NEW u \in Int, NEW v \in Int, IF u < 0 THEN v <= u ELSE v >= u
      PROVE  Square(u) <= Square(v)
  <2>1. CASE u < 0
    <3>1. -u \in Nat /\ -v \in Nat /\ -u <= -v
      BY <1>7, <2>1
    <3>2. Square(-u) <= Square(-v) /\ Square(-u) = Square(u) /\ Square(-v) = Square(v)
      BY <3>1, Squares
    <3>3. QED
      BY <3>2
  <2>2. CASE ~(u < 0)
    <3>1. u \in Nat /\ v \in Nat /\ u <= v
      BY <1>7, <2>2
    <3>2. QED
      BY <3>1, Squares
  <2>3. QED
    BY <2>1, <2>2
<1>8. off \in Int /\ (Fits => Abs(off) \in 0 .. TMax)
  <2>1. CASE Fits
    <3>1. off = t - w /\ t \in 0 .. TMax /\ w \in 0 .. TMax
      BY <1>2, <1>4, <2>1
    <3> HIDE DEF off
    <3>2. QED
      BY <1>5, <3>1 DEF Abs
  <2>2. CASE ~Fits
    BY <1>2, <1>4, <1>5, <2>2
  <2>3. QED
    BY <2>1, <2>2
<1>9. ASSUME far PROVE Square(off) <= Reach2(p)
  <2>1. CASE Fits
    <3>1. off = t - w /\ t - w \in Int /\ t - x \in Int
      BY <1>2, <1>4, <1>5, <2>1
    <3>2. IF t - w < 0 THEN t - x <= t - w ELSE t - x >= t - w
      <4>1. IF t - w < 0 THEN x >= w ELSE x <= w
        BY <1>6, <1>9, <3>1
      <4>2. QED
        BY <1>2, <1>4, <1>5, <4>1
    <3>3. Square(t - w) <= Square(t - x) /\ Square(t - w) \in Int /\ Square(t - x) \in Int
      BY <1>7, <3>1, <3>2, Squares
    <3>4. QED
      BY <1>4, <2>1, <3>1, <3>3
  <2>2. CASE ~Fits
    <3>1. off = q - 2 * w /\ q - 2 * w \in Int /\ q - 2 * x \in Int
      BY <1>2, <1>4, <1>5, <2>2
    <3>2. IF q - 2 * w < 0 THEN q - 2 * x <= q - 2 * w ELSE q - 2 * x >= q - 2 * w
      <4>1. IF q - 2 * w < 0 THEN x >= w ELSE x <= w
        BY <1>6, <1>9, <3>1
      <4>2. QED
        BY <1>2, <1>4, <1>5, <4>1
    <3>3. Square(q - 2 * w) <= Square(q - 2 * x) /\ Square(q - 2 * w) \in Int
          /\ Square(q - 2 * x) \in Int
      BY <1>7, <3>1, <3>2, Squares
    <3>4. QED
      BY <1>4, <2>2, <3>1, <3>3
  <2>3. QED
    BY <2>1, <2>2
<1>10. QED
  BY <1>2, <1>8, <1>9 DEF d, w, t, q, far

\* What takes the place of the last node must have its points, or they are too far.
LEMMA NearReplaced ==
    ASSUME NearReady, NearGood(stack, near, found), stack # <<>>,
           NEW e, IsSeq(e), \A x \in Elems(e) : EntryGood(x),
           \A p \in Places(Top.node) : \/ \E x \in Elems(e) : p \in Places(x.node)
                                       \/ Reach2(p) >= Beyond(near),
           Fits /\ near = NoLimit /\ Places(Top.node) # {}
              => \E x \in Elems(e) : Places(x.node) # {}
    PROVE  NearGood(Front(stack) \o e, near, found)
<1> DEFINE st == Front(stack) \o e
<1>1. IsSeq(stack) /\ \A x \in Elems(stack) : EntryGood(x)
  BY DEF NearGood
<1>2. IsSeq(st) /\ \E F : Elems(stack) = F \cup {Top} /\ Elems(st) = F \cup Elems(e)
  BY <1>1, PushRight DEF Top
<1>3. PICK F : Elems(stack) = F \cup {Top} /\ Elems(st) = F \cup Elems(e)
  BY <1>2
<1> HIDE DEF st
<1>4. \A x \in Elems(st) : EntryGood(x)
  BY <1>1, <1>3
<1>5. ASSUME NEW p \in 0 .. N - 1
      PROVE  (\E x \in Elems(st) : p \in Places(x.node)) \/ Reach2(p) >= Beyond(near)
  <2>1. (\E x \in Elems(stack) : p \in Places(x.node)) \/ Reach2(p) >= Beyond(near)
    BY DEF NearGood
  <2>2. QED
    BY <1>3, <2>1
<1>6. ASSUME Fits, near = NoLimit PROVE \E x \in Elems(st) : Places(x.node) # {}
  <2>1. \E x \in Elems(stack) : Places(x.node) # {}
    BY <1>6 DEF NearGood
  <2>2. QED
    BY <1>3, <1>6, <2>1
<1>7. BestGood(near, found)
  BY DEF NearGood
<1>8. QED
  BY <1>2, <1>4, <1>5, <1>6, <1>7 DEF NearGood, st

\* The node that is looked at, and its children.
LEMMA TopRight ==
    ASSUME NearReady, NearGood(stack, near, found), stack # <<>>
    PROVE  /\ Interior \in Nat /\ EntryGood(Top) /\ Top.node \in 0 .. 2 * Interior
           /\ Places(Top.node) \subseteq 0 .. N - 1
           /\ ~IsLeaf => /\ Top.node \in 0 .. Interior - 1
                         /\ LeftOf \in 0 .. 2 * Interior /\ RightOf \in 0 .. 2 * Interior
                         /\ Places(Top.node) = Places(LeftOf) \cup Places(RightOf)
<1>1. IsSeq(stack) /\ \A x \in Elems(stack) : EntryGood(x)
  BY DEF NearGood
<1>2. Top \in Elems(stack)
  <2>1. IsSeq(<<>>)
    BY ShortLists
  <2>2. \E F : Elems(stack) = F \cup {Top}
    BY <1>1, <2>1, PushRight DEF Top
  <2>3. QED
    BY <2>2
<1>3. EntryGood(Top) /\ Top.node \in 0 .. 2 * Interior
  BY <1>1, <1>2 DEF EntryGood
<1>4. Built
  BY DEF NearReady
<1>5. Interior \in Nat /\ Places(Top.node) \subseteq 0 .. N - 1
  BY <1>3, <1>4 DEF Built
<1>6. ASSUME ~IsLeaf
      PROVE  /\ Top.node \in 0 .. Interior - 1
             /\ LeftOf \in 0 .. 2 * Interior /\ RightOf \in 0 .. 2 * Interior
             /\ Places(Top.node) = Places(LeftOf) \cup Places(RightOf)
  <2> DEFINE n == Top.node
  <2>1. n \in 0 .. Interior - 1
    BY <1>3, <1>5, <1>6 DEF IsLeaf
  <2>2. LeftOf = 2 * n + 1 /\ RightOf = 2 * n + 2
    BY DEF LeftOf, RightOf
  <2> HIDE DEF n
  <2>3. 2 * n + 1 \in 0 .. 2 * Interior /\ 2 * n + 2 \in 0 .. 2 * Interior
    BY <1>5, <2>1
  <2>4. Places(n) = Places(2 * n + 1) \cup Places(2 * n + 2)
    BY <1>4, <2>1 DEF Built
  <2>5. QED
    BY <2>1, <2>2, <2>3, <2>4 DEF n
<1>7. QED
  BY <1>3, <1>5, <1>6

\* A node that is farther than the best so far has nothing better.
LEMMA PrunedKeeps ==
    ASSUME NearReady, NearGood(stack, near, found), stack # <<>>, Pruned
    PROVE  /\ \A p \in Places(Top.node) : Reach2(p) >= Beyond(near)
           /\ Fits /\ near = NoLimit => Places(Top.node) = {}
<1> DEFINE far == Top.far
<1>1. BestGood(near, found) /\ near \in Nat
  BY DEF NearGood, BestGood
<1>2. \A p \in Places(Top.node) : /\ far \in Nat /\ (Fits => far <= TMax)
                                  /\ FarBound(far) <= Reach2(p)
                                  /\ Reach2(p) \in Nat
  BY TopRight, ReachHolds DEF EntryGood
<1>3. TMax \in Nat
  BY TreeAssumption
<1>4. CASE Fits
  <2> DEFINE c == Closest
  <2>1. c \in 0 .. TMax /\ Square(c) >= Beyond(near) /\ (near = NoLimit => c = TMax)
    BY <1>1, <1>4, ClosestHolds
  <2>2. far > c
    BY <1>4 DEF Pruned
  <2>3. Beyond(near) \in Nat
    BY <1>1, <1>3, Squares DEF Beyond
  <2> HIDE DEF far, c
  <2>4. ASSUME NEW p \in Places(Top.node) PROVE Reach2(p) >= Beyond(near)
    <3>1. far \in Nat /\ Square(far) <= Reach2(p) /\ Reach2(p) \in Nat
      BY <1>2, <1>4 DEF FarBound
    <3>2. c \in Nat /\ c <= far
      BY <1>3, <2>1, <2>2, <3>1
    <3>3. Square(c) <= Square(far) /\ Square(c) \in Nat /\ Square(far) \in Nat
      <4>1. c \in Nat /\ far \in Nat /\ c <= far /\ c \in Int /\ far \in Int
        BY <3>1, <3>2
      <4>2. QED
        BY <4>1, Squares
    <3>4. QED
      BY <2>1, <2>3, <3>1, <3>3
  <2>5. ASSUME near = NoLimit, NEW p \in Places(Top.node) PROVE FALSE
    <3>1. far \in Nat /\ far <= TMax
      BY <1>2, <1>4, <2>5
    <3>2. QED
      BY <1>3, <2>1, <2>2, <2>5, <3>1
  <2>6. QED
    BY <1>4, <2>4, <2>5
<1>5. CASE ~Fits
  <2>1. far > near /\ Beyond(near) = near
    BY <1>5 DEF Pruned, Beyond
  <2> HIDE DEF far
  <2>2. ASSUME NEW p \in Places(Top.node) PROVE Reach2(p) >= near
    <3>1. far \in Nat /\ far <= Reach2(p) /\ Reach2(p) \in Nat
      BY <1>2, <1>5 DEF FarBound
    <3>2. QED
      BY <1>1, <2>1, <3>1
  <2>3. QED
    BY <1>5, <2>1, <2>2
<1>6. QED
  BY <1>4, <1>5

\* What the far child is put on the stack with, or left out for.
LEMMA FarRight ==
    ASSUME NearReady, NearGood(stack, near, found), stack # <<>>, ~IsLeaf, ~Pruned,
           NEW p \in Places(Top.node)
    PROVE  LET off == IF Fits THEN TQuery(Dim) - Plane ELSE query.at[Dim] - 2 * Plane
               far == IF Fits THEN Abs(off) ELSE Square(off)
               farther == IF off < 0 THEN RightOf ELSE LeftOf
               reach == IF Fits THEN (IF off < 0 THEN -off <= Closest ELSE off < Closest)
                        ELSE Square(off) <= near
           IN  /\ p \in Places(farther) =>
                    /\ far \in Nat /\ (Fits => far <= TMax) /\ FarBound(far) <= Reach2(p)
                    /\ ~reach => Reach2(p) >= Beyond(near)
               /\ Fits /\ near = NoLimit /\ ~reach => ~(off < 0)
               /\ Places(RightOf) # {}
<1> DEFINE n == Top.node
           off == IF Fits THEN TQuery(Dim) - Plane ELSE query.at[Dim] - 2 * Plane
           far == IF Fits THEN Abs(off) ELSE Square(off)
           farther == IF off < 0 THEN RightOf ELSE LeftOf
           reach == IF Fits THEN (IF off < 0 THEN -off <= Closest ELSE off < Closest)
                    ELSE Square(off) <= near
<1>1. /\ n \in 0 .. Interior - 1 /\ p \in Places(n) /\ p \in 0 .. N - 1
      /\ LeftOf = 2 * n + 1 /\ RightOf = 2 * n + 2
      /\ Dim = Dimension(split[n]) /\ Plane = Position(split[n])
  BY TopRight DEF LeftOf, RightOf, Dim, Plane
<1>2. /\ off \in Int /\ (Fits => Abs(off) \in 0 .. TMax)
      /\ p \in Places(farther) => Square(off) <= Reach2(p)
      /\ Places(RightOf) # {}
  <2> HIDE DEF n
  <2> DEFINE of2 == IF Fits THEN TQuery(Dimension(split[n])) - Position(split[n])
                      ELSE query.at[Dimension(split[n])] - 2 * Position(split[n])
  <2>1. off = of2
    BY <1>1
  <2>2. /\ of2 \in Int /\ (Fits => Abs(of2) \in 0 .. TMax)
        /\ (IF of2 < 0 THEN p \in Places(2 * n + 2) ELSE p \in Places(2 * n + 1))
                     => Square(of2) <= Reach2(p)
        /\ Places(2 * n + 2) # {}
    BY <1>1, PlaneBounds
  <2> HIDE DEF of2, off
  <2>3. QED
    BY <1>1, <2>1, <2>2
<1>3. Reach2(p) \in Nat /\ TMax \in Nat /\ near \in Nat /\ BestGood(near, found)
  BY <1>1, ReachHolds, TreeAssumption DEF NearGood, BestGood
<1>4. Square(off) \in Nat /\ Square(-off) = Square(off)
  BY <1>2, Squares
<1>5. CASE Fits
  <2> DEFINE c == Closest
  <2>1. c \in 0 .. TMax /\ Square(c) >= Beyond(near) /\ (near = NoLimit => c = TMax)
    BY <1>3, <1>5, ClosestHolds
  <2>2. Beyond(near) \in Nat
    <3>1. TMax \in Int /\ near \in Nat
      BY <1>3
    <3>2. Square(TMax) \in Nat
      BY <3>1, Squares
    <3>3. QED
      BY <3>1, <3>2 DEF Beyond
  <2>3. far = Abs(off) /\ (reach <=> IF off < 0 THEN -off <= c ELSE off < c)
    BY <1>5
  <2> HIDE DEF off, c, far, reach, farther
  <2>4. far \in Nat /\ far <= TMax /\ far = (IF off < 0 THEN -off ELSE off)
    BY <1>2, <1>3, <1>5, <2>3 DEF Abs
  <2>5. Square(far) = Square(off)
    BY <1>4, <2>4
  <2>6. ASSUME ~reach, p \in Places(farther) PROVE Reach2(p) >= Beyond(near)
    <3>1. c <= far /\ c \in Nat
      BY <1>2, <1>3, <2>1, <2>3, <2>4, <2>6
    <3>2. Square(c) <= Square(far) /\ Square(c) \in Nat
      BY <2>4, <3>1, Squares
    <3>3. Square(far) <= Reach2(p)
      BY <1>2, <2>5, <2>6
    <3>4. QED
      BY <1>3, <1>4, <2>1, <2>2, <2>5, <3>2, <3>3
  <2>7. ASSUME near = NoLimit, ~reach PROVE ~(off < 0)
    BY <1>2, <1>3, <2>1, <2>3, <2>4, <2>7
  <2>8. p \in Places(farther) => FarBound(far) <= Reach2(p)
    BY <1>2, <1>5, <2>5 DEF FarBound
  <2>9. QED
    BY <1>2, <2>4, <2>6, <2>7, <2>8 DEF off, far, reach, farther, c
<1>6. CASE ~Fits
  <2>1. far = Square(off) /\ (reach <=> Square(off) <= near) /\ Beyond(near) = near
        /\ FarBound(far) = far
    BY <1>6 DEF Beyond, FarBound
  <2> HIDE DEF off, far, reach, farther
  <2>2. ASSUME ~reach, p \in Places(farther) PROVE Reach2(p) >= Beyond(near)
    BY <1>2, <1>3, <1>4, <2>1, <2>2
  <2>3. QED
    BY <1>2, <1>4, <1>6, <2>1, <2>2 DEF off, far, reach, farther
<1>7. QED
  BY <1>5, <1>6

\* The best of a leaf replaces the best so far, when it is no farther.
LEMMA LeafKeeps ==
    ASSUME NearReady, NearGood(stack, near, found), stack # <<>>, ~Pruned, NearLeaf
    PROVE  NearGood(stack', near', found')
<1> DEFINE n == Top.node
           S == Places(n)
           d2s == {Reach2(p) : p \in S}
           st == Front(stack) \o <<>>
<1>1. stack' = st
  BY DEF NearLeaf, Push
<1>2. S \subseteq 0 .. N - 1 /\ N \in Nat /\ \A p \in 0 .. N - 1 : Reach2(p) \in Nat
  BY TopRight, ReachHolds DEF NearReady, Built
<1>3. d2s \in SUBSET Nat
  BY <1>2
<1>4. /\ near \in Nat /\ near <= Limit /\ Limit \in Nat /\ NoLimit \in Nat /\ TMax \in Nat
      /\ Square(TMax) \in Nat /\ Square(TMax) < NoLimit /\ BestGood(near, found)
  BY LimitHolds DEF NearGood, BestGood, NearReady
<1>5. CASE ~\E d2 \in d2s : d2 <= near
  <2>1. near' = near /\ found' = found
    BY <1>5 DEF NearLeaf
  <2>2. \A p \in S : Reach2(p) >= near /\ Reach2(p) > near
    <3>1. ASSUME NEW p \in S PROVE Reach2(p) >= near /\ Reach2(p) > near
      <4>1. ~(Reach2(p) <= near)
        BY <1>5
      <4>2. Reach2(p) \in Nat
        BY <1>2
      <4>3. QED
        BY <1>4, <4>1, <4>2
    <3>2. QED
      BY <3>1
  <2>3. ASSUME Fits, near = NoLimit PROVE S = {}
    <3>1. \A p \in S : Reach2(p) <= Square(TMax)
      BY <1>2, <2>3, ReachHolds
    <3>2. QED
      BY <1>2, <1>4, <2>2, <2>3, <3>1
  <2>4. \A p \in S : Reach2(p) >= Beyond(near)
    BY <2>2, <2>3 DEF Beyond
  <2>5. NearGood(st, near, found)
    BY <2>3, <2>4, NearReplaced, ShortLists
  <2>6. QED
    BY <1>1, <2>1, <2>5
<1>6. CASE \E d2 \in d2s : d2 <= near
  <2> DEFINE m == Min(d2s)
             best == {p \in S : Reach2(p) = m}
             x == Max(best)
  <2>1. near' = m /\ found' = {x}
    BY <1>6 DEF NearLeaf
  <2>2. m \in d2s /\ \A d2 \in d2s : m <= d2
    <3> HIDE DEF d2s
    <3>1. d2s # {}
      BY <1>6
    <3>2. QED
      BY <1>3, <3>1, MinIs
  <2>3. m \in Nat /\ m <= near
    <3> HIDE DEF m, d2s
    <3>1. PICK d2 \in d2s : d2 <= near
      BY <1>6
    <3>2. m \in Nat /\ d2 \in Nat /\ m <= d2
      BY <1>3, <2>2
    <3>3. QED
      BY <1>4, <3>1, <3>2
  <2>4. x \in best
    <3>1. best # {}
      BY <2>2
    <3>2. best \in SUBSET (0 .. N) /\ N \in Nat
      BY <1>2
    <3> HIDE DEF best
    <3>3. QED
      BY <3>1, <3>2, MaxIs
  <2>5. x \in S /\ x \in 0 .. N - 1 /\ Reach2(x) = m
    <3> HIDE DEF x, m
    <3>1. QED
      BY <1>2, <2>4
  <2> HIDE DEF m, x, d2s, best
  <2>6. BestGood(m, {x})
    <3>1. m <= Limit
      BY <1>4, <2>3
    <3>2. QED
      BY <2>3, <2>5, <3>1 DEF BestGood
  <2>7. Fits => m <= Square(TMax) /\ m # NoLimit
    <3>1. Fits => m <= Square(TMax)
      BY <2>5, ReachHolds
    <3>2. QED
      BY <1>4, <2>3, <3>1
  <2>8. Beyond(m) = m /\ m <= Beyond(near) /\ Beyond(near) \in Nat
    <3>1. CASE Fits
      BY <1>4, <2>3, <2>7, <3>1 DEF Beyond
    <3>2. CASE ~Fits
      BY <1>4, <2>3, <3>2 DEF Beyond
    <3>3. QED
      BY <3>1, <3>2
  <2>9. IsSeq(stack) /\ \A e \in Elems(stack) : EntryGood(e)
    BY DEF NearGood
  <2>10. PICK F : Elems(stack) = F \cup {Top} /\ Elems(st) = F /\ IsSeq(st)
    <3>1. IsSeq(<<>>) /\ Elems(<<>>) = {}
      BY ShortLists
    <3>2. IsSeq(st) /\ \E F : Elems(stack) = F \cup {Top} /\ Elems(st) = F \cup Elems(<<>>)
      BY <2>9, <3>1, PushRight DEF Top
    <3>3. QED
      BY <3>1, <3>2
  <2> HIDE DEF st
  <2>11. ASSUME NEW p \in 0 .. N - 1
         PROVE  (\E e \in Elems(st) : p \in Places(e.node)) \/ Reach2(p) >= Beyond(m)
    <3>1. (\E e \in Elems(stack) : p \in Places(e.node)) \/ Reach2(p) >= Beyond(near)
      BY DEF NearGood
    <3>2. CASE Reach2(p) >= Beyond(near)
      BY <1>2, <2>3, <2>8, <3>2
    <3>3. CASE p \in S
      <4>1. m <= Reach2(p)
        BY <2>2, <3>3 DEF d2s
      <4>2. QED
        BY <1>2, <2>3, <2>8, <4>1
    <3>4. QED
      BY <2>10, <3>1, <3>2, <3>3
  <2>12. \A e \in Elems(st) : EntryGood(e)
    BY <2>9, <2>10
  <2>13. ~(Fits /\ m = NoLimit)
    BY <2>7
  <2>14. NearGood(st, m, {x})
    BY <2>6, <2>10, <2>11, <2>12, <2>13 DEF NearGood
  <2>15. QED
    BY <1>1, <2>1, <2>14
<1>7. QED
  BY <1>5, <1>6

\* The near child is looked at first; the far one is not lost while it may matter.
LEMMA SplitKeeps ==
    ASSUME NearReady, NearGood(stack, near, found), stack # <<>>, ~Pruned,
           NearSplit \/ NearReal
    PROVE  NearGood(stack', near', found')
<1> DEFINE n == Top.node
           off == IF Fits THEN TQuery(Dim) - Plane ELSE query.at[Dim] - 2 * Plane
           far == IF Fits THEN Abs(off) ELSE Square(off)
           reach == IF Fits THEN (IF off < 0 THEN -off <= Closest ELSE off < Closest)
                    ELSE Square(off) <= near
           nearer == IF off < 0 THEN LeftOf ELSE RightOf
           farther == IF off < 0 THEN RightOf ELSE LeftOf
           A == Entry(farther, far)
           B == Entry(nearer, 0)
           es == (IF reach THEN <<A>> ELSE <<>>) \o <<B>>
           st == Front(stack) \o es
<1>1. ~IsLeaf /\ stack' = st /\ near' = near /\ found' = found
  <2>1. CASE NearSplit
    BY <2>1 DEF NearSplit, NearFirst, Push
  <2>2. CASE NearReal
    BY <2>2 DEF NearReal, NearFirst, Push
  <2>3. QED
    BY <2>1, <2>2
<1>2. /\ farther \in 0 .. 2 * Interior /\ nearer \in 0 .. 2 * Interior
      /\ Places(n) = Places(farther) \cup Places(nearer) /\ Places(n) \subseteq 0 .. N - 1
  BY <1>1, TopRight
<1>3. \A p \in Places(n) :
         /\ p \in Places(farther) =>
              /\ far \in Nat /\ (Fits => far <= TMax) /\ FarBound(far) <= Reach2(p)
              /\ ~reach => Reach2(p) >= Beyond(near)
         /\ Fits /\ near = NoLimit /\ ~reach => ~(off < 0)
         /\ Places(RightOf) # {}
  BY <1>1, FarRight
<1>4. A.node = farther /\ A.far = far /\ B.node = nearer /\ B.far = 0
  BY DEF Entry
<1>5. TMax \in Nat /\ \A p \in 0 .. N - 1 : Reach2(p) \in Nat
  BY ReachHolds, TreeAssumption
<1>6. ~(off < 0) => nearer = RightOf
  OBVIOUS
<1>7. FarBound(0) = 0
  <2>1. Square(0) = 0
    BY DEF Square
  <2>2. QED
    BY <2>1 DEF FarBound
<1> HIDE DEF off, far, reach, nearer, farther, A, B, n, st
<1>8. EntryGood(A) /\ EntryGood(B)
  <2>1. EntryGood(A)
    BY <1>2, <1>3, <1>4 DEF EntryGood
  <2>2. EntryGood(B)
    BY <1>2, <1>4, <1>5, <1>7 DEF EntryGood
  <2>3. QED
    BY <2>1, <2>2
<1>9. IsSeq(es) /\ B \in Elems(es) /\ Elems(es) \subseteq {A, B} /\ (reach => A \in Elems(es))
  <2>1. CASE reach
    <3>1. es = <<A, B>> /\ IsSeq(<<A, B>>) /\ Elems(<<A, B>>) = {A, B}
      <4>1. es = <<A>> \o <<B>>
        BY <2>1
      <4>2. QED
        BY <4>1, ShortLists
    <3> HIDE DEF es
    <3>2. QED
      BY <3>1
  <2>2. CASE ~reach
    <3>1. es = <<B>> /\ IsSeq(<<B>>) /\ Elems(<<B>>) = {B}
      <4>1. es = <<>> \o <<B>>
        BY <2>2
      <4>2. QED
        BY <4>1, ShortLists
    <3> HIDE DEF es
    <3>2. QED
      BY <2>2, <3>1
  <2>3. QED
    BY <2>1, <2>2
<1> HIDE DEF es
<1>10. \A p \in Places(n) : (\E x \in Elems(es) : p \in Places(x.node)) \/ Reach2(p) >= Beyond(near)
  BY <1>2, <1>3, <1>4, <1>9
<1>11. ASSUME Fits, near = NoLimit, Places(n) # {} PROVE \E x \in Elems(es) : Places(x.node) # {}
  <2>1. CASE reach
    BY <1>2, <1>4, <1>9, <1>11, <2>1
  <2>2. CASE ~reach
    <3>1. nearer = RightOf /\ Places(RightOf) # {}
      BY <1>3, <1>6, <1>11, <2>2
    <3>2. QED
      BY <1>4, <1>9, <3>1
  <2>3. QED
    BY <2>1, <2>2
<1>12. \A x \in Elems(es) : EntryGood(x)
  BY <1>8, <1>9
<1>13. NearGood(st, near, found)
  BY <1>9, <1>10, <1>11, <1>12, NearReplaced DEF n, st
<1>14. QED
  BY <1>1, <1>13

\* A step of a search, when neither the tree nor the query changes.
LEMMA NearSame ==
    ASSUME UNCHANGED tree, query' = query, NearGood(stack', near', found')
    PROVE  NearGood(stack, near, found)'
<1>1. /\ N' = N /\ Interior' = Interior /\ Fits' = Fits /\ Limit' = Limit
      /\ \A n : Places(n)' = Places(n)
      /\ \A p : Reach2(p)' = Reach2(p)
  BY SearchSame, PlacesSame
<1>2. \A e : EntryGood(e)' <=> EntryGood(e)
  <2>1. \A far : FarBound(far)' = FarBound(far)
    BY <1>1 DEF FarBound
  <2>2. QED
    BY <1>1, <2>1 DEF EntryGood
<1>3. \A nr, fd : BestGood(nr, fd)' <=> BestGood(nr, fd)
  BY <1>1 DEF BestGood
<1>4. \A nr : Beyond(nr)' = Beyond(nr)
  BY <1>1 DEF Beyond
<1>5. \A st, nr, fd : NearGood(st, nr, fd)' <=> NearGood(st, nr, fd)
  <2>1. \A st : (IsSeq(st)' <=> IsSeq(st)) /\ Elems(st)' = Elems(st)
    BY DEF IsSeq, Elems
  <2>2. QED
    BY <1>1, <1>2, <1>3, <1>4, <2>1 DEF NearGood
<1>6. QED
  BY <1>5

\* A search begins at the root, without a best.
LEMMA NearStarts ==
    NearReady /\ stack = <<Entry(0, 0)>> /\ found = {} /\ near = Limit
        => NearGood(stack, near, found)
<1> SUFFICES ASSUME NearReady, stack = <<Entry(0, 0)>>, found = {}, near = Limit
             PROVE  NearGood(stack, near, found)
  OBVIOUS
<1> DEFINE e == Entry(0, 0)
<1>1. e.node = 0 /\ e.far = 0
  BY DEF Entry
<1>2. IsSeq(stack) /\ Elems(stack) = {e}
  BY ShortLists
<1>3. Places(0) = 0 .. N - 1 /\ Interior \in Nat /\ N \in Nat \ {0}
  BY DEF NearReady, Built
<1>4. TMax \in Nat /\ FarBound(0) = 0 /\ \A p \in 0 .. N - 1 : Reach2(p) \in Nat
  <2>1. Square(0) = 0
    BY DEF Square
  <2>2. QED
    BY <2>1, ReachHolds, TreeAssumption DEF FarBound
<1> HIDE DEF e
<1>5. EntryGood(e)
  BY <1>1, <1>3, <1>4 DEF EntryGood
<1>6. BestGood(near, found)
  <2>1. Limit \in Nat
    BY LimitHolds DEF NearReady
  <2>2. QED
    BY <2>1 DEF BestGood
<1>7. \A p \in 0 .. N - 1 : \E x \in Elems(stack) : p \in Places(x.node)
  BY <1>1, <1>2, <1>3
<1>8. \E x \in Elems(stack) : Places(x.node) # {}
  <2>1. 0 \in 0 .. N - 1
    BY <1>3
  <2>2. QED
    BY <1>7, <2>1
<1>9. \A x \in Elems(stack) : EntryGood(x)
  BY <1>2, <1>5
<1>10. QED
  BY <1>2, <1>6, <1>7, <1>8, <1>9 DEF NearGood

\* The same of the next state.
LEMMA NearStartsNext ==
    (NearReady /\ stack = <<Entry(0, 0)>> /\ found = {} /\ near = Limit
        => NearGood(stack, near, found))'
  BY NearStarts, PTL

\* The same of the next state.
LEMMA BuiltNext == (TreeInv /\ pc # "build" => Built)'
<1>1. TreeInv /\ pc # "build" => Built
  BY BuiltRight
<1>2. QED
  BY <1>1, PTL

\* A step of a nearest-neighbour search prunes no branch too early.
LEMMA NearKeeps ==
    ASSUME NearReady, NearGood(stack, near, found), VisitNear
    PROVE  NearGood(stack', near', found')
<1>1. stack # <<>>
  BY DEF VisitNear
<1>2. CASE NearPruned
  <2>1. stack' = Front(stack) \o <<>> /\ near' = near /\ found' = found /\ Pruned
    BY <1>2 DEF NearPruned, Push
  <2>2. IsSeq(<<>>) /\ Elems(<<>>) = {}
    BY ShortLists
  <2>3. NearGood(Front(stack) \o <<>>, near, found)
    BY <1>1, <2>1, <2>2, PrunedKeeps, NearReplaced
  <2>4. QED
    BY <2>1, <2>3
<1>3. CASE NearLeaf
  BY <1>1, <1>3, LeafKeeps DEF NearLeaf
<1>4. CASE NearSplit \/ NearReal
  BY <1>1, <1>4, SplitKeeps DEF NearSplit, NearReal
<1>5. QED
  BY <1>2, <1>3, <1>4 DEF VisitNear

\* Each step keeps what is known of the nearest-neighbour search.
LEMMA NearInvKept ==
    ASSUME SearchInv, SearchInv', NearInv, [QuadNext]_<<vars, quadvars>>
    PROVE  NearInv'
<1>1. TreeInv /\ TreeInv' /\ pts \in Clouds /\ pts' \in Clouds
  BY DEF SearchInv, BuildInv, TreeInv, TreeTypes
<1>2. CASE UNCHANGED vars
  <2>1. UNCHANGED tree /\ query' = query /\ pc' = pc /\ stack' = stack /\ found' = found /\ near' = near
    BY <1>2 DEF vars
  <2>2. (NearAsked' <=> NearAsked) /\ (SomeoneAlone' <=> SomeoneAlone) /\ (Short' <=> Short)
    BY <2>1, SearchSame, PlacesSame DEF NearAsked, Short
  <2>3. ASSUME pc' = "near", ~SomeoneAlone', Short' PROVE NearGood(stack, near, found)'
    <3>1. NearGood(stack', near', found')
      BY <2>1, <2>2, <2>3 DEF NearInv
    <3>2. QED
      BY <2>1, <3>1, NearSame
  <2>4. pc' = "near" => NearAsked'
    BY <2>1, <2>2 DEF NearInv
  <2>5. QED
    BY <2>3, <2>4 DEF NearInv
<1>3. CASE VisitNear
  <2>1. UNCHANGED tree /\ query' = query /\ pc' = pc /\ pc = "near"
    BY <1>3 DEF VisitNear
  <2>2. (NearAsked' <=> NearAsked) /\ (SomeoneAlone' <=> SomeoneAlone) /\ (Short' <=> Short)
    BY <2>1, SearchSame, PlacesSame DEF NearAsked, Short
  <2>3. Built
    BY <1>1, <2>1, BuiltRight
  <2>4. ASSUME ~SomeoneAlone', Short' PROVE NearGood(stack, near, found)'
    <3>1. NearReady /\ NearGood(stack, near, found)
      BY <1>1, <2>1, <2>2, <2>3, <2>4 DEF NearInv, NearReady
    <3>2. NearGood(stack', near', found')
      BY <1>3, <3>1, NearKeeps
    <3>3. QED
      BY <2>1, <3>2, NearSame
  <2>5. NearAsked'
    BY <2>1, <2>2 DEF NearInv
  <2>6. QED
    BY <2>4, <2>5 DEF NearInv
<1>4. CASE StartNearest
  <2>1. Ask("near")
    BY <1>4 DEF StartNearest
  <2>2. /\ query'.at \in [Dims -> Int] /\ query'.r \in Nat \cup {NoRadius} /\ pc' = "near"
        /\ stack' = <<Entry(0, 0)>> /\ found' = {}
    BY <2>1, AskedRight
  <2>3. NearAsked'
    BY <2>2 DEF NearAsked
  <2>4. near' = Limit'
    BY <1>4 DEF StartNearest, Limit
  <2>5. ASSUME ~SomeoneAlone', Short' PROVE NearGood(stack, near, found)'
    <3>1. Built'
      BY <1>1, <2>2, BuiltNext
    <3>2. NearReady'
      BY <1>1, <2>3, <2>5, <3>1 DEF NearReady
    <3>3. QED
      BY <2>2, <2>4, <3>2, NearStartsNext
  <2>6. QED
    BY <2>3, <2>5 DEF NearInv
<1>5. CASE Build \/ StartRange \/ VisitRange \/ Return \/ Resolve \/ PlaceStar
  <2>1. pc' # "near" \/ UNCHANGED vars
    <3>1. CASE Build
      BY <3>1 DEF Build
    <3>2. CASE StartRange
      BY <3>2, AskedRight DEF StartRange
    <3>3. CASE VisitRange
      BY <3>3 DEF VisitRange
    <3>4. CASE Return
      BY <3>4 DEF Return
    <3>5. CASE Resolve
      BY <3>5 DEF Resolve
    <3>6. CASE PlaceStar
      BY <3>6 DEF PlaceStar, Filled
    <3>7. QED
      BY <1>5, <3>1, <3>2, <3>3, <3>4, <3>5, <3>6
  <2>2. QED
    BY <1>2, <2>1 DEF NearInv
<1>6. CASE StartQuad \/ Skip \/ Backtrack \/ TurnAround \/ EndQuad
  <2>1. UNCHANGED vars
    BY <1>6 DEF StartQuad, Skip, Backtrack, TurnAround, EndQuad
  <2>2. QED
    BY <1>2, <2>1
<1>7. QED
  BY <1>2, <1>3, <1>4, <1>5, <1>6 DEF QuadNext, Other, Visit, Next

\* A nearest-neighbour search finds the nearest point (KdTree!NearestIsNearest).
THEOREM NearestRight == QuadSpec => []NearestIsNearest
<1>1. QuadInit => NearInv
  BY DEF QuadInit, Init, NearInv
<1>2. QuadInit => SearchInv
  BY SearchInvStarts
<1>3. SearchInv /\ [QuadNext]_<<vars, quadvars>> => SearchInv'
  BY SearchInvKept
<1>4. SearchInv /\ SearchInv' /\ NearInv /\ [QuadNext]_<<vars, quadvars>> => NearInv'
  BY NearInvKept
<1>5. SearchInv /\ NearInv => NearestIsNearest
  <2> SUFFICES ASSUME SearchInv, NearInv, pc = "near", Answered, ~SomeoneAlone, Short
               PROVE  LET best == Min({Reach2(p) : p \in 0 .. N - 1})
                      IN  /\ best < Limit => found # {}
                          /\ found # {} => best <= Limit
                          /\ \A p \in found : Reach2(p) = best /\ near = best
    BY DEF NearestIsNearest, Short
  <2> DEFINE S == {Reach2(p) : p \in 0 .. N - 1}
             best == Min(S)
  <2>1. NearReady /\ N \in Nat \ {0}
    <3>1. TreeInv /\ pts \in Clouds
      BY DEF SearchInv, BuildInv, TreeInv, TreeTypes
    <3>2. Built
      BY <3>1, BuiltRight
    <3>3. QED
      BY <3>1, <3>2 DEF NearReady, NearInv, Built
  <2>2. stack = <<>> /\ NearGood(stack, near, found)
    BY DEF NearInv, Answered
  <2>3. Elems(stack) = {}
    BY <2>2, ShortLists
  <2>4. /\ near \in Nat /\ near <= Limit /\ Limit \in Nat
        /\ found = {} => near = Limit
        /\ found # {} => \E p \in 0 .. N - 1 : found = {p} /\ Reach2(p) = near
        /\ \A p \in 0 .. N - 1 : Reach2(p) \in Nat /\ Reach2(p) >= near
    <3>1. ~(Fits /\ near = NoLimit)
      BY <2>2, <2>3 DEF NearGood
    <3>2. \A p \in 0 .. N - 1 : Reach2(p) \in Nat /\ Reach2(p) >= near
      BY <2>1, <2>2, <2>3, <3>1, ReachHolds DEF NearGood, Beyond
    <3>3. Limit \in Nat
      BY <2>1, LimitHolds DEF NearReady
    <3>4. QED
      BY <2>2, <3>2, <3>3 DEF NearGood, BestGood
  <2>5. best \in S /\ \A x \in S : best <= x
    <3>1. S \in SUBSET Nat
      BY <2>4
    <3>2. S # {}
      <4>1. 0 \in 0 .. N - 1
        BY <2>1
      <4>2. QED
        BY <4>1
    <3> HIDE DEF S
    <3>3. QED
      BY <3>1, <3>2, MinIs
  <2>6. best \in Nat /\ best >= near /\ \A p \in 0 .. N - 1 : best <= Reach2(p)
    <3> HIDE DEF best
    <3>1. QED
      BY <2>4, <2>5
  <2> HIDE DEF best, S
  <2>7. best < Limit => found # {}
    BY <2>4, <2>6
  <2>8. ASSUME NEW q \in found PROVE Reach2(q) = best /\ near = best
    <3>1. PICK p \in 0 .. N - 1 : found = {p} /\ Reach2(p) = near
      BY <2>4, <2>8
    <3>2. q = p /\ best <= near
      BY <2>6, <2>8, <3>1
    <3>3. QED
      BY <2>4, <2>6, <3>1, <3>2
  <2>9. found # {} => best <= Limit
    BY <2>4, <2>6, <2>8
  <2>10. QED
    BY <2>7, <2>8, <2>9 DEF best, S
<1>6. QED
  BY <1>1, <1>2, <1>3, <1>4, <1>5, PTL DEF QuadSpec

-----------------------------------------------------------------------------
(* The margin of the checks of try_permutations *)

\* A sum of numbers that are not negative is at least any two of them.
LEMMA TotalOfTwo ==
    ASSUME NEW n \in Nat, NEW f \in [1 .. n -> Nat], NEW i \in 1 .. n, NEW j \in 1 .. n, i < j
    PROVE  Total(f) >= f[i] + f[j]
<1>1. f \in Seq(Int) /\ Len(f) = n
  <2>1. f \in [1 .. n -> Int]
    OBVIOUS
  <2>2. QED
    BY <2>1, FunctionIsSequence
<1>2. PICK s \in [0 .. n -> Int] :
        /\ s[0] = 0
        /\ \A k \in 1 .. n : s[k] = s[k - 1] + f[k]
        /\ Total(f) = s[n]
  BY <1>1, TotalIsSum
<1> DEFINE Good(k) == /\ s[k] >= 0 /\ (k >= i => s[k] >= f[i])
                      /\ (k >= j => s[k] >= f[i] + f[j])
           Bad == {k \in 0 .. n : ~Good(k)}
<1>3. Bad = {}
  <2>1. SUFFICES ASSUME Bad # {} PROVE FALSE
    OBVIOUS
  <2>2. PICK m \in Bad : \A k \in Bad : m <= k
    <3>1. Bad \subseteq Nat
      OBVIOUS
    <3> HIDE DEF Bad
    <3>2. QED
      BY <2>1, <3>1, NatMin
  <2>3. m # 0
    BY <1>2, <2>2
  <2>4. m \in 1 .. n /\ m - 1 \in 0 .. n /\ m - 1 \notin Bad
    <3>1. m \in 0 .. n
      BY <2>2
    <3>2. m \in 1 .. n /\ m - 1 \in 0 .. n /\ m - 1 < m
      BY <2>3, <3>1
    <3>3. m - 1 \notin Bad
      BY <2>2, <3>2
    <3>4. QED
      BY <3>2, <3>3
  <2>5. Good(m - 1)
    BY <2>4
  <2>6. s[m] = s[m - 1] + f[m] /\ s[m - 1] \in Int /\ f[m] \in Nat
    BY <1>2, <2>4
  <2>7. f[i] \in Nat /\ f[j] \in Nat
    OBVIOUS
  <2>8. Good(m)
    <3>1. CASE m < i
      BY <2>4, <2>5, <2>6, <2>7, <3>1
    <3>2. CASE m = i
      BY <2>4, <2>5, <2>6, <2>7, <3>2
    <3>3. CASE i < m /\ m < j
      BY SMTT(30), <2>4, <2>5, <2>6, <2>7, <3>3
    <3>4. CASE m = j
      BY SMTT(30), <2>4, <2>5, <2>6, <2>7, <3>4
    <3>5. CASE j < m
      <4>1. m - 1 >= j /\ m > i /\ m > j
        BY <2>4, <3>5
      <4>2. s[m - 1] >= f[i] + f[j]
        BY <2>5, <4>1
      <4>3. s[m] >= f[i] + f[j]
        BY SMTT(30), <2>6, <2>7, <4>2
      <4>4. s[m - 1] >= 0 /\ s[m] >= 0
        BY <2>5, <2>6
      <4>5. s[m] >= f[i]
        BY <2>6, <2>7, <4>2, <4>3
      <4>6. QED
        BY <4>3, <4>4, <4>5
    <3>6. QED
      BY <2>4, <3>1, <3>2, <3>3, <3>4, <3>5
  <2>9. QED
    BY <2>2, <2>8
<1>4. n \in 0 .. n /\ n >= j
  OBVIOUS
<1>5. QED
  BY <1>2, <1>3, <1>4

\* When the mean of a list that ascends is at most half of u, so is that of its first
\* members; and so, within t, is that of numbers that are not more than t above them.
LEMMA MeanOfFirst ==
    ASSUME NEW n \in Nat, NEW y \in [1 .. n -> Int], \A k \in 2 .. n : y[k - 1] <= y[k],
           NEW u \in Nat, 2 * Total(y) <= u * n,
           NEW m \in 0 .. n, NEW t \in Nat, NEW x \in [1 .. m -> Int],
           \A k \in 1 .. m : x[k] <= y[k] + t
    PROVE  2 * Total(x) <= m * (u + 3 * t)
<1>1. y \in Seq(Int) /\ Len(y) = n /\ x \in Seq(Int) /\ Len(x) = m /\ m \in Nat
  <2>1. m \in Nat
    OBVIOUS
  <2>2. QED
    BY <2>1, FunctionIsSequence
<1>2. PICK s \in [0 .. n -> Int] :
        /\ s[0] = 0
        /\ \A k \in 1 .. n : s[k] = s[k - 1] + y[k]
        /\ Total(y) = s[n]
  BY <1>1, TotalIsSum
<1>3. PICK r \in [0 .. m -> Int] :
        /\ r[0] = 0
        /\ \A k \in 1 .. m : r[k] = r[k - 1] + x[k]
        /\ Total(x) = r[m]
  BY <1>1, TotalIsSum
\* The sums of the numbers exceed those of the list by at most t each.
<1>4. r[m] <= s[m] + m * t
  <2> DEFINE Close(k) == r[k] <= s[k] + k * t
             Bad == {k \in 0 .. m : ~Close(k)}
  <2>0. Close(m) => r[m] <= s[m] + m * t
    OBVIOUS
  <2>1. SUFFICES ASSUME Bad # {} PROVE FALSE
    <3>1. m \in 0 .. m
      BY <1>1
    <3> HIDE DEF Close
    <3>2. QED
      BY <2>0, <3>1
  <2>2. PICK k \in Bad : \A i \in Bad : k <= i
    <3>1. Bad \subseteq Nat
      OBVIOUS
    <3> HIDE DEF Bad
    <3>2. QED
      BY <2>1, <3>1, NatMin
  <2>3. k # 0
    BY <1>2, <1>3, <2>2
  <2>4. k \in 1 .. m /\ k \in 1 .. n /\ k - 1 \in 0 .. m /\ k - 1 \in 0 .. n /\ k - 1 \notin Bad
    <3>1. k \in 0 .. m
      BY <2>2
    <3>2. k \in 1 .. m /\ k \in 1 .. n /\ k - 1 \in 0 .. m /\ k - 1 \in 0 .. n /\ k - 1 < k
      BY <1>1, <2>3, <3>1
    <3>3. k - 1 \notin Bad
      BY <2>2, <3>2
    <3>4. QED
      BY <3>2, <3>3
  <2>5. r[k - 1] <= s[k - 1] + (k - 1) * t
    BY <2>4
  <2>6. /\ r[k] = r[k - 1] + x[k] /\ s[k] = s[k - 1] + y[k] /\ x[k] <= y[k] + t
        /\ r[k - 1] \in Int /\ s[k - 1] \in Int /\ x[k] \in Int /\ y[k] \in Int /\ k \in Int
    BY <1>2, <1>3, <2>4
  <2>7. (k - 1) * t + t = k * t
    BY <2>6
  <2>8. r[k] <= s[k] + k * t
    <3> DEFINE a == (k - 1) * t
               b == k * t
    <3>1. a + t = b /\ a \in Int /\ b \in Int /\ r[k - 1] <= s[k - 1] + a
      BY <2>5, <2>6, <2>7
    <3> DEFINE ra == r[k - 1]
               sa == s[k - 1]
               xk == x[k]
               yk == y[k]
    <3>2. /\ r[k] = ra + xk /\ s[k] = sa + yk /\ xk <= yk + t
          /\ ra \in Int /\ sa \in Int /\ xk \in Int /\ yk \in Int /\ ra <= sa + a
      BY <2>6, <3>1
    <3> HIDE DEF a, b, ra, sa, xk, yk
    <3>3. ra + xk <= sa + yk + b
      BY <3>1, <3>2
    <3>4. r[k] <= s[k] + b
      BY <3>2, <3>3
    <3>5. QED
      BY <3>4 DEF b
  <2>9. QED
    BY <2>2, <2>8
\* As soon as a sum is too large, so are all later ones.
<1>5. 2 * s[m] <= m * u
  <2> SUFFICES ASSUME 2 * s[m] > m * u PROVE FALSE
    BY <1>1, <1>2
  \* The first sum that is too large has a number that is too large.
  <2> DEFINE Over == {k \in 0 .. n : 2 * s[k] > k * u}
  <2>1. PICK f \in Over : \A i \in Over : f <= i
    <3>1. Over \subseteq Nat /\ m \in Over
      BY <1>1
    <3> HIDE DEF Over
    <3>2. QED
      BY <3>1, NatMin
  <2>2. f # 0
    BY <1>2, <2>1
  <2>3. f \in 1 .. n /\ f - 1 \in 0 .. n /\ f - 1 \notin Over /\ f <= m
    <3>1. f \in 0 .. n /\ m \in Over
      BY <1>1, <2>1
    <3>2. f \in 1 .. n /\ f - 1 \in 0 .. n /\ f - 1 < f
      BY <2>2, <3>1
    <3>3. f - 1 \notin Over
      BY <2>1, <3>2
    <3>4. QED
      BY <2>1, <3>1, <3>2, <3>3
  <2>4. s[f] = s[f - 1] + y[f] /\ s[f - 1] \in Int /\ y[f] \in Int /\ f \in Int
    BY <1>2, <2>3
  <2>5. 2 * s[f] > f * u /\ ~(2 * s[f - 1] > (f - 1) * u)
    BY <2>1, <2>3
  <2>6. 2 * y[f] > u
    <3> DEFINE a == (f - 1) * u
               b == f * u
    <3>1. a + u = b /\ a \in Int /\ b \in Int
      BY <2>4
    <3> DEFINE sa == s[f - 1]
    <3>2. 2 * s[f] > b /\ ~(2 * sa > a) /\ s[f] = sa + y[f] /\ sa \in Int /\ y[f] \in Int
      BY <2>4, <2>5
    <3>3. u \in Int
      OBVIOUS
    <3> HIDE DEF a, b, sa, Over
    <3>4. QED
      BY ONLY SMTT(30), <3>1, <3>2, <3>3
  \* And then all that come after it.
  <2> DEFINE Good(k) == 2 * s[k] > k * u /\ 2 * y[k] > u
             Bad == {k \in f .. n : ~Good(k)}
  <2>7. Bad = {}
    <3>1. SUFFICES ASSUME Bad # {} PROVE FALSE
      OBVIOUS
    <3>2. PICK k \in Bad : \A i \in Bad : k <= i
      <4>1. Bad \subseteq Nat
        BY <2>3
      <4> HIDE DEF Bad
      <4>2. QED
        BY <3>1, <4>1, NatMin
    <3>3. k # f
      BY <2>5, <2>6, <3>2
    <3>4. k \in 2 .. n /\ k \in 1 .. n /\ k - 1 \in f .. n /\ k - 1 \in 1 .. n /\ k - 1 \in 0 .. n
          /\ k - 1 \notin Bad
      <4>1. k \in f .. n
        BY <3>2
      <4>2. k \in 2 .. n /\ k \in 1 .. n /\ k - 1 \in f .. n /\ k - 1 \in 1 .. n /\ k - 1 \in 0 .. n
            /\ k - 1 < k
        BY <2>3, <3>3, <4>1
      <4>3. k - 1 \notin Bad
        BY <3>2, <4>2
      <4>4. QED
        BY <4>2, <4>3
    <3>5. Good(k - 1)
      BY <3>4
    <3>6. /\ s[k] = s[k - 1] + y[k] /\ y[k - 1] <= y[k]
          /\ s[k - 1] \in Int /\ y[k] \in Int /\ y[k - 1] \in Int /\ k \in Int
      <4>1. s[k] = s[k - 1] + y[k]
        BY <1>2, <3>4
      <4>2. y[k - 1] <= y[k]
        BY <3>4
      <4>3. s[k - 1] \in Int /\ y[k] \in Int /\ y[k - 1] \in Int /\ k \in Int
        BY <3>4
      <4>4. QED
        BY <4>1, <4>2, <4>3
    <3>7. Good(k)
      <4> DEFINE a == (k - 1) * u
                 b == k * u
      <4>1. a + u = b /\ a \in Int /\ b \in Int
        BY <3>6
      <4> DEFINE sa == s[k - 1]
                 ya == y[k - 1]
                 yk == y[k]
      <4>2. /\ 2 * sa > a /\ 2 * ya > u /\ s[k] = sa + yk /\ ya <= yk
            /\ sa \in Int /\ ya \in Int /\ yk \in Int
        BY <3>5, <3>6
      <4> HIDE DEF a, b, sa, ya, yk, Over, Bad
      <4>3. 2 * (sa + yk) > b /\ 2 * yk > u
        BY <4>1, <4>2
      <4>4. 2 * s[k] > b /\ 2 * yk > u
        BY <4>2, <4>3
      <4>5. QED
        BY <4>4 DEF b, yk
    <3>8. QED
      BY <3>2, <3>7
  <2>8. n \in f .. n
    BY <2>3
  <2>9. 2 * s[n] > n * u
    BY <2>7, <2>8
  <2>10. QED
    BY <1>2, <2>9
<1>6. QED
  <2> DEFINE a == m * u
             b == m * t
  <2>1. a \in Int /\ b \in Nat /\ m * (u + 3 * t) = a + 3 * b
    BY <1>1
  <2>2. r[m] <= s[m] + b /\ 2 * s[m] <= a
    BY <1>4, <1>5
  <2>3. m \in 0 .. n /\ m \in 0 .. m /\ r[m] \in Int /\ s[m] \in Int
    BY <1>1
  <2> HIDE DEF a, b
  <2>4. 2 * r[m] <= a + 3 * b
    BY <2>1, <2>2, <2>3
  <2>5. QED
    BY <1>3, <2>1, <2>4

\* Two differences, the squares of which add up to at most that of a tolerance, are
\* together at most one and a half times the tolerance.
LEMMA Margin ==
    ASSUME NEW a \in Int, NEW b \in Int, NEW t \in Nat, Square(a) + Square(b) <= Square(t)
    PROVE  2 * (a + b) <= 3 * t
<1>1. a * a + b * b <= t * t
  BY DEF Square
<1>2. QED
  BY <1>1

\* What a star of a code is from that of a point within the tolerance of it.
LEMMA WithinTolerance ==
    ASSUME pts \in Clouds, Built, fieldcode \in FieldCodes, NEW flip \in BOOLEAN,
           NEW turned \in BOOLEAN, NEW f \in Arrangements, NEW p \in Matches(flip, turned, f)
    PROVE  LET n == Len(fieldcode)
               x(k) == CodeOf(f[k], flip, turned)[1]
               y(k) == X(pts[perm[p]], k)
           IN  /\ \A k \in 1 .. n : x(k) \in Int /\ y(k) \in Int /\ x(k) <= y(k) + Tol
               /\ \A k \in 2 .. n : y(k - 1) <= y(k) => 2 * x(k - 1) <= 2 * x(k) + 3 * Tol
<1> DEFINE n == Len(fieldcode)
           x(k) == CodeOf(f[k], flip, turned)[1]
           y(k) == X(pts[perm[p]], k)
           q == Query(flip, turned, f)
<1>1. /\ n \in Nat \ {0} /\ 2 * n = NDim /\ DOMAIN fieldcode = 1 .. n
      /\ Dims = 1 .. NDim /\ Tol \in Nat
  BY CodesRight, FieldAssumption DEF Dims
<1>2. \A k \in 1 .. n : f[k] \in 1 .. n
  <2>1. f \in [1 .. n -> 1 .. n]
    BY <1>1 DEF Arrangements, Inner
  <2>2. QED
    BY <2>1
<1>3. q \in [Dims -> Int]
  BY <1>2, QueriesRight
<1>4. p \in 0 .. N - 1 /\ Dist2(q, p) <= Square(Tol)
  BY DEF Matches
<1>5. perm \in [0 .. N - 1 -> 1 .. N]
  BY DEF Built
<1>6. \A d \in Dims : At(p, d) \in 0 .. TMax
  BY <1>4, <1>5, DistanceHolds
<1>7. TMax \in Nat
  BY TreeAssumption
<1>8. ASSUME NEW k \in 1 .. n
      PROVE  /\ 2 * k - 1 \in Dims /\ x(k) = q[2 * k - 1] /\ y(k) = 2 * At(p, 2 * k - 1)
             /\ x(k) \in Int /\ y(k) \in Int
  <2> HIDE DEF n
  <2>1. 2 * k - 1 \in Dims /\ ((2 * k - 1) + 1) \div 2 = k /\ 2 - ((2 * k - 1) % 2) = 1
    BY <1>1
  <2>2. q[2 * k - 1] = CodeOf(f[((2 * k - 1) + 1) \div 2], flip, turned)[2 - ((2 * k - 1) % 2)]
    BY <2>1 DEF Query
  <2>3. y(k) = 2 * At(p, 2 * k - 1)
    BY DEF X, At
  <2>4. q[2 * k - 1] \in Int
    BY <1>3, <2>1
  <2>5. At(p, 2 * k - 1) \in Int
    BY <1>6, <1>7, <2>1
  <2>6. x(k) = q[2 * k - 1]
    BY <2>1, <2>2
  <2>7. QED
    BY <2>1, <2>3, <2>4, <2>5, <2>6
<1> HIDE DEF q
<1>9. ASSUME NEW k \in 1 .. n PROVE x(k) <= y(k) + Tol
  <2> DEFINE a == x(k) - y(k)
  <2>1. a \in Int /\ a = q[2 * k - 1] - 2 * At(p, 2 * k - 1) /\ 2 * k - 1 \in Dims
    BY <1>8
  <2>2. Dist2(q, p) \in Nat /\ \A d \in Dims : Square(q[d] - 2 * At(p, d)) <= Dist2(q, p)
    BY <1>3, <1>4, <1>5, DistanceHolds
  <2>3. Square(a) <= Dist2(q, p)
    BY <2>1, <2>2
  <2> HIDE DEF a
  <2>4. Square(a) \in Nat /\ Square(Tol) \in Nat /\ Square(0) = 0
    BY <1>1, <2>1, Squares DEF Square
  <2>5. Square(a) + Square(0) <= Square(Tol)
    BY <1>4, <2>2, <2>3, <2>4
  <2>6. a <= Tol
    <3>1. ~(a > Tol)
      <4>1. SUFFICES ASSUME a > Tol PROVE FALSE
        OBVIOUS
      <4>2. a \in Nat /\ Tol < a
        BY <1>1, <2>1, <4>1
      <4>3. Square(Tol) < Square(a)
        BY <1>1, <4>2, Squares
      <4>4. QED
        BY <2>4, <2>5, <4>3
    <3>2. QED
      BY <1>1, <2>1, <3>1
  <2> DEFINE xk == x(k)
             yk == y(k)
  <2>7. xk \in Int /\ yk \in Int /\ a = xk - yk
    BY <1>8 DEF a
  <2> HIDE DEF xk, yk
  <2>8. xk <= yk + Tol
    BY <1>1, <2>6, <2>7
  <2>9. QED
    BY <2>8 DEF xk, yk
<1>10. ASSUME NEW k \in 2 .. n, y(k - 1) <= y(k)
       PROVE  2 * x(k - 1) <= 2 * x(k) + 3 * Tol
  <2> DEFINE g == [d \in Dims |-> Square(q[d] - 2 * At(p, d))]
             i == 2 * (k - 1) - 1
             j == 2 * k - 1
             a == x(k - 1) - y(k - 1)
             b == x(k) - y(k)
  <2>1. k - 1 \in 1 .. n /\ k \in 1 .. n
    BY <1>1
  <2>2. /\ i \in Dims /\ x(k - 1) \in Int /\ y(k - 1) \in Int
        /\ a = q[i] - 2 * At(p, i)
    BY <1>8, <2>1
  <2>3. /\ j \in Dims /\ x(k) \in Int /\ y(k) \in Int
        /\ b = q[j] - 2 * At(p, j)
    BY <1>8, <2>1
  <2>4. g \in [1 .. NDim -> Nat] /\ Dist2(q, p) = Total(g)
    <3>1. \A d \in Dims : Square(q[d] - 2 * At(p, d)) \in Nat
      <4>1. \A d \in Dims : q[d] - 2 * At(p, d) \in Int
        BY <1>3, <1>6, <1>7
      <4>2. QED
        BY <4>1, Squares
    <3>2. QED
      BY <1>1, <3>1 DEF Dist2
  <2>5. i \in 1 .. NDim /\ j \in 1 .. NDim /\ i < j /\ NDim \in Nat
    BY <1>1, <2>1, <2>2, <2>3
  <2>6. g[i] = Square(a) /\ g[j] = Square(b)
    BY <2>2, <2>3
  <2>7. Total(g) >= g[i] + g[j] /\ Total(g) \in Nat
    <3> HIDE DEF g, i, j
    <3>1. QED
      BY <2>4, <2>5, TotalOfTwo, TotalHolds
  <2> DEFINE xi == x(k - 1)
             yi == y(k - 1)
             xj == x(k)
             yj == y(k)
             c == -b
  <2>8. /\ xi \in Int /\ yi \in Int /\ xj \in Int /\ yj \in Int /\ yi <= yj
        /\ a = xi - yi /\ b = xj - yj /\ a \in Int /\ b \in Int
    BY <1>10, <2>2, <2>3
  <2> HIDE DEF x, y, xi, yi, xj, yj, a, b, i, j, g
  <2>9. Square(c) = Square(b) /\ Square(a) \in Nat /\ Square(b) \in Nat /\ Square(Tol) \in Nat
        /\ c \in Int
    <3>1. Square(-b) = Square(b) /\ Square(a) \in Nat /\ Square(b) \in Nat
      BY <2>8, Squares
    <3>2. Square(Tol) \in Nat
      <4>1. Tol \in Int
        BY FieldAssumption
      <4>2. QED
        BY <4>1, Squares
    <3>3. -b \in Int
      BY <2>8
    <3>4. QED
      BY <3>1, <3>2, <3>3
  <2>10. Square(a) + Square(c) <= Square(Tol)
    <3> HIDE DEF c
    <3>1. QED
      BY <1>4, <2>4, <2>6, <2>7, <2>9
  <2>11. 2 * (a + c) <= 3 * Tol
    <3> HIDE DEF c
    <3>1. QED
      BY <1>1, <2>8, <2>9, <2>10, Margin
  <2>12. 2 * xi <= 2 * xj + 3 * Tol
    BY <1>1, <2>8, <2>11
  <2>13. QED
    BY <2>12 DEF xi, xj, x
<1>11. QED
  BY <1>8, <1>9, <1>10 DEF n

\* The checks skip no arrangement with a match.
LEMMA SkippedMiss ==
    ASSUME pts \in Clouds, Built, Obeys(pts), QuadTypes, phase = "perm", next \in Inner,
           OutOfOrder(next), NEW f \in Arrangements,
           \A i \in 1 .. Len(placed) : f[i] = placed[i], f[Len(placed) + 1] = next,
           NEW p \in Matches(Head(parities), flipped, f)
    PROVE  FALSE
<1> DEFINE n == Len(fieldcode)
           l == Len(placed)
           m == l + 1
           flip == Head(parities)
           x(k) == CodeOf(f[k], flip, flipped)[1]
           y(k) == X(pts[perm[p]], k)
<1>1. /\ fieldcode \in FieldCodes /\ n \in Nat \ {0} /\ 2 * n = NDim /\ DOMAIN fieldcode = 1 .. n
      /\ Row(placed, n) /\ l \in Nat /\ l < n /\ flip \in BOOLEAN /\ flipped \in BOOLEAN
      /\ Tol \in Nat /\ Unit \in Nat
  <2>1. fieldcode \in FieldCodes /\ QuadPart(fieldcode, parities, flipped, placed, next) /\ l < n
    BY DEF QuadTypes
  <2>2. n \in Nat \ {0} /\ 2 * n = NDim /\ DOMAIN fieldcode = 1 .. n
    BY <2>1, CodesRight
  <2>3. parities \in ParityLists /\ flipped \in BOOLEAN /\ Row(placed, n)
    BY <2>1 DEF QuadPart
  <2>4. flip \in BOOLEAN
    BY <2>3, ParityHead
  <2>5. l \in Nat
    BY <2>3, LenProperties DEF Row
  <2>6. QED
    BY <2>1, <2>2, <2>3, <2>4, <2>5, FieldAssumption, QueryAssumption
<1>2. /\ \A k \in 1 .. n : x(k) \in Int /\ y(k) \in Int /\ x(k) <= y(k) + Tol
      /\ \A k \in 2 .. n : y(k - 1) <= y(k) => 2 * x(k - 1) <= 2 * x(k) + 3 * Tol
  BY <1>1, WithinTolerance
<1>3. perm[p] \in DOMAIN pts
  <2>1. p \in 0 .. N - 1
    BY DEF Matches
  <2>2. perm[p] \in 1 .. N
    BY <2>1 DEF Built
  <2>3. DOMAIN pts = 1 .. N
    BY CloudAssumption, LenProperties DEF N
  <2>4. QED
    BY <2>2, <2>3
<1>4. NDim \div 2 = n
  BY <1>1
<1>5. /\ \A k \in 2 .. n : y(k - 1) <= y(k)
      /\ 2 * Total([k \in 1 .. n |-> y(k)]) <= Unit * n
  BY <1>3, <1>4 DEF Obeys
<1>6. \A s \in 1 .. m : Append(placed, next)[s] = f[s]
  <2>1. placed \in Seq(1 .. n)
    BY <1>1 DEF Row
  <2>2. next \in 1 .. n
    BY <1>1 DEF Inner
  <2>3. /\ \A i \in 1 .. l : Append(placed, next)[i] = placed[i]
        /\ Append(placed, next)[l + 1] = next
    <3> DEFINE S == 1 .. n
    <3>1. placed \in Seq(S) /\ next \in S
      BY <2>1, <2>2
    <3> HIDE DEF S
    <3>2. QED
      BY <3>1, AppendProperties
  <2>4. \A s \in 1 .. m : s \in 1 .. l \/ s = l + 1
    BY <1>1
  <2>5. QED
    BY <2>3, <2>4
\* The star before has a larger x.
<1>7. CASE placed # <<>> /\ 2 * OrigX(Last(placed)) > 2 * OrigX(next) + 3 * Tol
  <2>1. l # 0
    BY <1>1, <1>7, EmptySeq DEF Row
  <2>2. m \in 2 .. n /\ l = m - 1 /\ l \in 1 .. l
    BY <1>1, <2>1
  <2>3. OrigX(Last(placed)) = x(m - 1) /\ OrigX(next) = x(m)
    BY <2>2 DEF OrigX, Last
  <2>4. 2 * x(m - 1) <= 2 * x(m) + 3 * Tol
    <3> HIDE DEF x, y, m, n
    <3>1. QED
      BY <1>2, <1>5, <2>2
  <2>5. x(m - 1) \in Int /\ x(m) \in Int
    <3>1. m - 1 \in 1 .. n /\ m \in 1 .. n
      BY <1>1, <2>2
    <3> HIDE DEF x, y, m, n
    <3>2. QED
      BY <1>2, <3>1
  <2> DEFINE xi == x(m - 1)
             xj == x(m)
  <2>6. 2 * xi > 2 * xj + 3 * Tol /\ 2 * xi <= 2 * xj + 3 * Tol /\ xi \in Int /\ xj \in Int
    BY <1>7, <2>3, <2>4, <2>5
  <2> HIDE DEF xi, xj
  <2>7. QED
    BY <1>1, <2>6
\* The mean of x is over a half.
<1>8. CASE 2 * Total([s \in 1 .. Len(placed) + 1 |-> OrigX(Append(placed, next)[s])])
              > (Len(placed) + 1) * (Unit + 3 * Tol)
  <2> DEFINE xs == [s \in 1 .. m |-> x(s)]
             ys == [k \in 1 .. n |-> y(k)]
  <2>1. \A s \in 1 .. m : OrigX(Append(placed, next)[s]) = x(s)
    BY <1>6 DEF OrigX
  <2>2. [s \in 1 .. Len(placed) + 1 |-> OrigX(Append(placed, next)[s])] = xs
    BY <2>1
  <2>3. 2 * Total(xs) > m * (Unit + 3 * Tol)
    BY <1>8, <2>2
  <2>4. m \in 0 .. n /\ \A s \in 1 .. m : s \in 1 .. n
    BY <1>1
  <2> HIDE DEF x, y, n, m, l
  <2>5. /\ xs \in [1 .. m -> Int] /\ ys \in [1 .. n -> Int]
        /\ \A k \in 1 .. m : xs[k] <= ys[k] + Tol
    BY <1>2, <2>4
  <2>6. \A k \in 2 .. n : ys[k - 1] <= ys[k]
    <3>1. \A k \in 2 .. n : k - 1 \in 1 .. n /\ k \in 1 .. n
      BY <1>1
    <3>2. QED
      BY <1>5, <3>1
  <2>7. 2 * Total(ys) <= Unit * n
    BY <1>5
  <2> HIDE DEF xs, ys
  <2>8. 2 * Total(xs) <= m * (Unit + 3 * Tol)
    BY <1>1, <2>4, <2>5, <2>6, <2>7, MeanOfFirst
  <2>9. Total(xs) \in Int /\ m * (Unit + 3 * Tol) \in Int
    <3>1. m \in Nat
      BY <1>1, <2>4
    <3>2. xs \in Seq(Int)
      BY <2>5, <3>1, FunctionIsSequence
    <3>3. QED
      BY <1>1, <3>1, <3>2, TotalType
  <2>10. QED
    BY <2>3, <2>8, <2>9
<1>9. QED
  BY <1>7, <1>8 DEF OutOfOrder

-----------------------------------------------------------------------------
(* The order in which try_permutations tries the orders of the inner stars *)

\* With the stars of pl in the first slots, and nx the next star for the slot after
\* them, f is still to be tried.
Ahead(n, f, pl, nx) ==
    \/ \E j \in 1 .. Len(pl) : (\A i \in 1 .. j - 1 : f[i] = pl[i]) /\ f[j] > pl[j]
    \/ Len(pl) < n /\ (\A i \in 1 .. Len(pl) : f[i] = pl[i]) /\ f[Len(pl) + 1] >= nx
Same(n, f, s) == \A i \in 1 .. n : f[i] = s[i]

\* Slots up to one more, and comparisons with one more.
LEMMA OneMore ==
    ASSUME NEW l \in Nat, NEW n \in Nat, l < n
    PROVE  /\ l + 1 \in 1 .. l + 1 /\ l + 1 \in 1 .. n /\ (l + 2) - 1 = l + 1 /\ (l + 1) - 1 = l
           /\ \A i \in 1 .. (l + 2) - 1 : i \in 1 .. (l + 1) - 1 \/ i = l + 1
           /\ \A i \in 1 .. (l + 1) - 1 : i \in 1 .. (l + 2) - 1
           /\ l + 1 \in 1 .. (l + 2) - 1
           /\ l + 1 < n => l + 2 \in 1 .. n
           /\ (l + 1 < n \/ l + 1 = n) /\ ~(l + 1 < n /\ l + 1 = n)
           /\ \A j \in 1 .. l + 1 : j \in 1 .. l \/ j = l + 1
           /\ \A j \in 1 .. l : j \in 1 .. l + 1
           /\ \A j \in 1 .. l + 1 : \A i \in 1 .. j - 1 : i \in 1 .. l
OBVIOUS

\* Integers, compared.
LEMMA Compare == \A v, z \in Int : /\ v >= z + 1 <=> v > z
                                   /\ v >= z <=> v > z \/ v = z
OBVIOUS

\* At first, all are; at last, none.
LEMMA AheadAtFirst ==
    ASSUME NEW n \in Nat \ {0}, NEW f \in [1 .. n -> 1 .. n]
    PROVE  Ahead(n, f, <<>>, 1) /\ \A nx \in Nat : nx > n => ~Ahead(n, f, <<>>, nx)
<1>1. Len(<<>>) = 0 /\ 1 .. 0 = {}
  BY EmptySeq
<1>2. f[1] \in 1 .. n /\ 0 < n /\ 0 + 1 = 1
  OBVIOUS
<1>3. f[1] >= 1 /\ \A nx \in Nat : nx > n => ~(f[1] >= nx)
  BY <1>2
<1>4. QED
  BY <1>1, <1>2, <1>3 DEF Ahead

\* The next star is not tried: what begins with it is not, and the rest is as before.
LEMMA AheadSkipped ==
    ASSUME NEW n \in Nat, NEW f \in [1 .. n -> 1 .. n], NEW pl, Row(pl, n), NEW nx \in Nat
    PROVE  Ahead(n, f, pl, nx) <=>
              \/ Ahead(n, f, pl, nx + 1)
              \/ Len(pl) < n /\ Same(Len(pl), f, pl) /\ f[Len(pl) + 1] = nx
<1> DEFINE l == Len(pl)
           v == f[l + 1]
<1>1. l \in Nat
  BY LenProperties DEF Row
<1>2. l < n => (v >= nx <=> v >= nx + 1 \/ v = nx)
  <2>1. l < n => l + 1 \in 1 .. n
    BY <1>1
  <2>2. l < n => v \in Nat
    BY <2>1
  <2> HIDE DEF v
  <2>3. QED
    BY <2>2
<1>3. QED
  BY <1>2 DEF Ahead, Same

\* The next star is tried: what begins with it is ahead, or is the one to look for.
LEMMA AheadPlaced ==
    ASSUME NEW n \in Nat, NEW f \in [1 .. n -> 1 .. n], NEW pl, Row(pl, n), Len(pl) < n,
           NEW nx \in 1 .. n, nx \notin ToSet(pl)
    PROVE  LET t == Append(pl, nx)
           IN  Ahead(n, f, pl, nx) <=> Ahead(n, f, t, 1) \/ (Len(t) = n /\ Same(n, f, t))
<1> DEFINE l == Len(pl)
           t == Append(pl, nx)
<1>1. l \in Nat /\ Len(t) = l + 1 /\ t[l + 1] = nx /\ \A i \in 1 .. l : t[i] = pl[i]
  BY PlacedMore
<1>2. \A i \in 1 .. n : f[i] \in 1 .. n
  OBVIOUS
<1>3. l < n /\ n \in Nat
  OBVIOUS
<1>0. /\ l + 1 \in 1 .. l + 1 /\ l + 1 \in 1 .. n /\ (l + 2) - 1 = l + 1 /\ (l + 1) - 1 = l
      /\ \A i \in 1 .. (l + 2) - 1 : i \in 1 .. (l + 1) - 1 \/ i = l + 1
      /\ \A i \in 1 .. (l + 1) - 1 : i \in 1 .. (l + 2) - 1
      /\ l + 1 \in 1 .. (l + 2) - 1
      /\ l + 1 < n => l + 2 \in 1 .. n
      /\ (l + 1 < n \/ l + 1 = n) /\ ~(l + 1 < n /\ l + 1 = n)
      /\ \A j \in 1 .. l + 1 : j \in 1 .. l \/ j = l + 1
      /\ \A j \in 1 .. l : j \in 1 .. l + 1
      /\ \A j \in 1 .. l + 1 : \A i \in 1 .. j - 1 : i \in 1 .. l
  <2>1. l \in Nat
    BY <1>1
  <2> HIDE DEF l
  <2>2. QED
    BY <1>3, <2>1, OneMore
<1> DEFINE First(j) == \A i \in 1 .. j - 1 : f[i] = pl[i]
           FirstT(j) == \A i \in 1 .. j - 1 : f[i] = t[i]
<1>4. Ahead(n, f, pl, nx) <=> \/ \E j \in 1 .. l : First(j) /\ f[j] > pl[j]
                              \/ First(l + 1) /\ f[l + 1] >= nx
  <2>1. (l + 1) - 1 = l
    BY <1>1
  <2>2. QED
    BY <1>3, <2>1 DEF Ahead
<1>5. Ahead(n, f, t, 1) <=> \/ \E j \in 1 .. l + 1 : FirstT(j) /\ f[j] > t[j]
                            \/ l + 1 < n /\ FirstT(l + 2) /\ f[l + 2] >= 1
  <2>1. (l + 2) - 1 = l + 1 /\ (l + 1) + 1 = l + 2
    BY <1>1
  <2> HIDE DEF t
  <2>2. QED
    BY <1>1, <2>1 DEF Ahead
<1>6. \A j \in 1 .. l + 1 : First(j) <=> FirstT(j)
  <2>1. \A j \in 1 .. l + 1 : \A i \in 1 .. j - 1 : i \in 1 .. l
    BY <1>1
  <2>2. QED
    BY <1>1, <2>1
<1>7. FirstT(l + 2) <=> FirstT(l + 1) /\ f[l + 1] = nx
  <2>1. /\ \A i \in 1 .. (l + 2) - 1 : i \in 1 .. (l + 1) - 1 \/ i = l + 1
        /\ \A i \in 1 .. (l + 1) - 1 : i \in 1 .. (l + 2) - 1
        /\ l + 1 \in 1 .. (l + 2) - 1
    BY <1>0
  <2> HIDE DEF t
  <2>2. QED
    BY <1>1, <2>1
<1>8. l + 1 < n => f[l + 2] >= 1
  <2>1. l + 1 < n => l + 2 \in 1 .. n
    BY <1>0
  <2>2. QED
    BY <1>2, <2>1
<1>9. l + 1 = n => (Same(n, f, t) <=> FirstT(l + 2))
  <2>1. (l + 2) - 1 = l + 1
    BY <1>1
  <2>2. QED
    BY <2>1 DEF Same
<1> DEFINE v == f[l + 1]
<1>10. (v >= nx <=> v > nx \/ v = nx) /\ l + 1 \in 1 .. l + 1
       /\ (l + 1 < n \/ l + 1 = n) /\ ~(l + 1 < n /\ l + 1 = n)
  <2>1. v \in Int /\ nx \in Int
    BY <1>2, <1>0
  <2>2. v >= nx <=> v > nx \/ v = nx
    <3> HIDE DEF v
    <3>1. QED
      BY <2>1, Compare
  <2>3. QED
    BY <1>0, <2>2
<1>11. \A j \in 1 .. l : j \in 1 .. l + 1 /\ t[j] = pl[j]
  BY <1>1, <1>0
<1>12. \A j \in 1 .. l + 1 : j \in 1 .. l \/ j = l + 1
  BY <1>0
<1> HIDE DEF t, First, FirstT, l
<1>13. (\E j \in 1 .. l + 1 : FirstT(j) /\ f[j] > t[j]) <=>
          \/ \E j \in 1 .. l : First(j) /\ f[j] > pl[j]
          \/ First(l + 1) /\ v > nx
  BY <1>1, <1>6, <1>10, <1>11, <1>12
<1>14. (l + 1 < n /\ FirstT(l + 2) /\ f[l + 2] >= 1) \/ (l + 1 = n /\ Same(n, f, t))
         <=> First(l + 1) /\ v = nx
  BY <1>6, <1>7, <1>8, <1>9, <1>10
<1>15. Ahead(n, f, pl, nx) <=> Ahead(n, f, t, 1) \/ (l + 1 = n /\ Same(n, f, t))
  BY <1>4, <1>5, <1>10, <1>13, <1>14
<1>16. QED
  BY <1>1, <1>15 DEF t, l

\* No star is left for the slot: the star before it gives way to the next.
LEMMA AheadBack ==
    ASSUME NEW n \in Nat, NEW f \in [1 .. n -> 1 .. n], NEW pl, Row(pl, n), pl # <<>>,
           Len(pl) <= n, NEW nx \in Nat, nx > n \/ Len(pl) = n
    PROVE  Ahead(n, f, pl, nx) <=> Ahead(n, f, Front(pl), Last(pl) + 1)
<1> DEFINE l == Len(pl)
           t == Front(pl)
           z == Last(pl)
<1>1. /\ l \in Nat \ {0} /\ Len(t) = l - 1 /\ z \in 1 .. n /\ z = pl[l] /\ l <= n
      /\ \A i \in 1 .. l - 1 : t[i] = pl[i]
  BY PlacedLess DEF Last
<1> DEFINE First(j) == \A i \in 1 .. j - 1 : f[i] = pl[i]
           FirstT(j) == \A i \in 1 .. j - 1 : f[i] = t[i]
<1>2. \A i \in 1 .. n : f[i] \in 1 .. n
  OBVIOUS
<1>3. Ahead(n, f, pl, nx) <=> \E j \in 1 .. l : First(j) /\ f[j] > pl[j]
  <2>1. ~(l < n /\ f[l + 1] >= nx)
    <3>1. SUFFICES ASSUME l < n, f[l + 1] >= nx PROVE FALSE
      OBVIOUS
    <3>2. l + 1 \in 1 .. n /\ nx > n
      <4>1. l \in Nat /\ l < n /\ nx > n
        BY <1>1, <3>1
      <4> HIDE DEF l
      <4>2. QED
        BY <4>1
    <3>3. f[l + 1] \in 1 .. n
      BY <1>2, <3>2
    <3> DEFINE v == f[l + 1]
    <3>4. v \in 1 .. n /\ v >= nx /\ nx > n
      BY <3>1, <3>2, <3>3
    <3> HIDE DEF v
    <3>5. QED
      BY <3>4
  <2>2. QED
    BY <2>1 DEF Ahead
<1>4. Ahead(n, f, t, z + 1) <=> \/ \E j \in 1 .. l - 1 : FirstT(j) /\ f[j] > t[j]
                                \/ FirstT(l) /\ f[l] >= z + 1
  <2>1. (l - 1) + 1 = l /\ l - 1 < n
    BY <1>1
  <2> HIDE DEF t, z
  <2>2. QED
    BY <1>1, <2>1 DEF Ahead
<1>5. \A j \in 1 .. l : First(j) <=> FirstT(j)
  <2>1. \A j \in 1 .. l : \A i \in 1 .. j - 1 : i \in 1 .. l - 1
    BY <1>1
  <2>2. QED
    BY <1>1, <2>1
<1>6. f[l] >= z + 1 <=> f[l] > pl[l]
  <2> DEFINE v == f[l]
  <2>1. l \in 1 .. n
    BY <1>1
  <2>2. v \in 1 .. n
    BY <1>2, <2>1
  <2>3. v >= z + 1 <=> v > z
    <3>1. v \in Int /\ z \in Int
      BY <1>1, <2>2
    <3> HIDE DEF v, z
    <3>2. QED
      BY <3>1, Compare
  <2>4. QED
    BY <1>1, <2>3
<1>7. l \in 1 .. l /\ (\A j \in 1 .. l - 1 : j \in 1 .. l) /\ \A j \in 1 .. l : j \in 1 .. l - 1 \/ j = l
  <2>1. l \in Nat \ {0}
    BY <1>1
  <2> HIDE DEF l
  <2>2. QED
    BY <2>1
<1> HIDE DEF t, z, First, FirstT, l
<1>8. (\E j \in 1 .. l : First(j) /\ f[j] > pl[j]) <=>
          \/ \E j \in 1 .. l - 1 : FirstT(j) /\ f[j] > t[j]
          \/ FirstT(l) /\ f[l] >= z + 1
  BY <1>1, <1>5, <1>6, <1>7
<1>9. QED
  BY <1>3, <1>4, <1>8 DEF t, z

\* The order f is still to be searched for.
Open(f, ph, pl, nx) == \/ Ahead(Len(fieldcode), f, pl, nx)
                       \/ ph = "search" /\ Same(Len(fieldcode), f, pl)
Inside(flip, turned, f) == \A d \in Dims : Query(flip, turned, f)[d] \in 0 .. 2 * TMax

\* What was found for the quad: matches of the orders that were searched for, and all
\* of them, each once.
HitsGood(pars, turned, ph, pl, nx, hs, num) ==
    /\ IsFiniteSet(hs) /\ num = Cardinality(hs)
    /\ \A h \in hs :
         /\ h.order \in Arrangements /\ h.match \in Matches(h.flip, h.turned, h.order)
         /\ h.flip = Head(pars) \/ pars = <<TRUE>>
         /\ h.flip = Head(pars) => h.turned = turned \/ (h.turned = FALSE /\ turned = TRUE)
         /\ h.flip = Head(pars) /\ h.turned = turned => ~Open(h.order, ph, pl, nx)
    /\ ~SomeoneAlone =>
         \A f \in Arrangements : Inside(Head(pars), turned, f) =>
            \/ Open(f, ph, pl, nx)
            \/ \A p \in Matches(Head(pars), turned, f) : \E h \in hs :
                  h.flip = Head(pars) /\ h.turned = turned /\ h.order = f /\ h.match = p

\* What is known of a quad that is tried.
LEMMA QuadFacts ==
    ASSUME QuadTypes, phase \in {"perm", "search"}
    PROVE  /\ fieldcode \in FieldCodes /\ Len(fieldcode) \in Nat \ {0}
           /\ Inner = 1 .. Len(fieldcode) /\ 2 * Len(fieldcode) = NDim
           /\ parities \in ParityLists /\ Head(parities) \in BOOLEAN /\ flipped \in BOOLEAN
           /\ Row(placed, Len(fieldcode)) /\ next \in Nat \ {0}
           /\ Len(placed) \in Nat /\ Len(placed) <= Len(fieldcode)
           /\ \A f \in Arrangements : f \in [1 .. Len(fieldcode) -> 1 .. Len(fieldcode)]
<1>1. fieldcode \in FieldCodes /\ QuadPart(fieldcode, parities, flipped, placed, next)
  BY DEF QuadTypes
<1>2. /\ Len(fieldcode) \in Nat \ {0} /\ Inner = 1 .. Len(fieldcode)
      /\ 2 * Len(fieldcode) = NDim
  BY <1>1, CodesRight DEF Inner
<1>3. /\ parities \in ParityLists /\ flipped \in BOOLEAN
      /\ Row(placed, Len(fieldcode)) /\ next \in Nat \ {0}
  BY <1>1 DEF QuadPart
<1>4. Head(parities) \in BOOLEAN
  BY <1>3, ParityHead
<1>5. Len(placed) \in Nat
  BY <1>3, LenProperties DEF Row
<1>6. Len(placed) <= Len(fieldcode)
  <2>1. Len(placed) < Len(fieldcode) \/ Len(placed) = Len(fieldcode)
    BY DEF QuadTypes
  <2>2. QED
    BY <1>2, <1>5, <2>1
<1>7. \A f \in Arrangements : f \in [1 .. Len(fieldcode) -> 1 .. Len(fieldcode)]
  BY <1>2 DEF Arrangements
<1>8. QED
  BY <1>1, <1>2, <1>3, <1>4, <1>5, <1>6, <1>7

\* The search moves on: what is no longer open has no match.
LEMMA MovesOn ==
    ASSUME NEW pars, NEW turned, NEW ph, NEW pl, NEW nx, NEW hs, NEW num,
           HitsGood(pars, turned, ph, pl, nx, hs, num), NEW ph2, NEW pl2, NEW nx2,
           \A f \in Arrangements : Open(f, ph2, pl2, nx2) => Open(f, ph, pl, nx),
           \A f \in Arrangements : Open(f, ph, pl, nx) /\ ~Open(f, ph2, pl2, nx2)
              => Matches(Head(pars), turned, f) = {}
    PROVE  HitsGood(pars, turned, ph2, pl2, nx2, hs, num)
<1>1. ASSUME ~SomeoneAlone, NEW f \in Arrangements, Inside(Head(pars), turned, f)
      PROVE  \/ Open(f, ph2, pl2, nx2)
             \/ \A p \in Matches(Head(pars), turned, f) : \E h \in hs :
                  h.flip = Head(pars) /\ h.turned = turned /\ h.order = f /\ h.match = p
  BY <1>1 DEF HitsGood
<1>2. \A h \in hs : h.flip = Head(pars) /\ h.turned = turned => ~Open(h.order, ph2, pl2, nx2)
  BY DEF HitsGood
<1>3. QED
  BY <1>1, <1>2 DEF HitsGood

\* A star that is skipped.
LEMMA SkipKeeps ==
    ASSUME pts \in Clouds, Built, cxdx => Obeys(pts), QuadTypes, Skip,
           HitsGood(parities, flipped, phase, placed, next, hits, nummatches)
    PROVE  HitsGood(parities', flipped', phase', placed', next', hits', nummatches')
<1> DEFINE n == Len(fieldcode)
           l == Len(placed)
<1>1. /\ phase = "perm" /\ next \in Inner /\ phase' = phase /\ parities' = parities
      /\ flipped' = flipped /\ placed' = placed /\ hits' = hits /\ nummatches' = nummatches
      /\ next' = next + 1 /\ (next \in ToSet(placed) \/ (cxdx /\ OutOfOrder(next)))
  BY DEF Skip
<1>2. /\ n \in Nat \ {0} /\ Inner = 1 .. n /\ Row(placed, n) /\ l \in Nat
      /\ \A f \in Arrangements : f \in [1 .. n -> 1 .. n]
  BY <1>1, QuadFacts
<1>3. \A f \in Arrangements :
         Open(f, "perm", placed, next) <=>
            \/ Open(f, "perm", placed, next + 1)
            \/ l < n /\ Same(l, f, placed) /\ f[l + 1] = next
  <2>1. next \in Nat
    BY <1>1, <1>2
  <2> HIDE DEF n, l
  <2>2. QED
    BY <1>2, <2>1, AheadSkipped DEF Open, n, l
<1>4. ASSUME NEW f \in Arrangements, l < n, Same(l, f, placed), f[l + 1] = next
      PROVE  Matches(Head(parities), flipped, f) = {}
  <2>1. CASE next \in ToSet(placed)
    <3>1. PICK i \in DOMAIN placed : placed[i] = next
      BY <2>1 DEF ToSet
    <3>2. i \in 1 .. l
      BY <1>2, <3>1, LenProperties DEF Row
    <3>3. f[i] = f[l + 1]
      BY <1>4, <3>1, <3>2 DEF Same
    <3>4. i \in 1 .. n /\ l + 1 \in 1 .. n /\ i # l + 1
      <4>1. l \in Nat /\ n \in Nat /\ l < n
        BY <1>2, <1>4
      <4> HIDE DEF l, n
      <4>2. QED
        BY <3>2, <4>1
    <3>5. i = l + 1
      <4>1. IsInjective(f) /\ DOMAIN f = 1 .. n
        BY <1>2 DEF Arrangements
      <4> HIDE DEF l, n
      <4>2. QED
        BY <3>3, <3>4, <4>1 DEF IsInjective
    <3>6. QED
      BY <3>4, <3>5
  <2>2. CASE cxdx /\ OutOfOrder(next)
    <3>1. \A i \in 1 .. Len(placed) : f[i] = placed[i]
      BY <1>4 DEF Same
    <3>2. f[Len(placed) + 1] = next
      BY <1>4
    <3>3. QED
      BY <1>1, <2>2, <3>1, <3>2, SkippedMiss
  <2>3. QED
    BY <1>1, <2>1, <2>2
<1>5. HitsGood(parities, flipped, "perm", placed, next, hits, nummatches)
  BY <1>1
<1>6. HitsGood(parities, flipped, "perm", placed, next + 1, hits, nummatches)
  <2> HIDE DEF n, l
  <2>1. \A f \in Arrangements : Open(f, "perm", placed, next + 1) => Open(f, "perm", placed, next)
    BY <1>3
  <2>2. \A f \in Arrangements :
           Open(f, "perm", placed, next) /\ ~Open(f, "perm", placed, next + 1)
              => Matches(Head(parities), flipped, f) = {}
    BY <1>3, <1>4
  <2>3. QED
    BY <1>5, <2>1, <2>2, MovesOn
<1>7. QED
  BY <1>1, <1>6

\* A star that takes the slot.
LEMMA PlaceKeeps ==
    ASSUME QuadTypes, PlaceStar,
           HitsGood(parities, flipped, phase, placed, next, hits, nummatches)
    PROVE  HitsGood(parities', flipped', phase', placed', next', hits', nummatches')
<1> DEFINE n == Len(fieldcode)
           t == Append(placed, next)
<1>1. /\ phase = "perm" /\ next \in Inner /\ next \notin ToSet(placed) /\ parities' = parities
      /\ flipped' = flipped /\ placed' = t /\ hits' = hits /\ nummatches' = nummatches
      /\ next' = 1 /\ phase' = IF Len(t) = n THEN "search" ELSE "perm"
  BY DEF PlaceStar, Filled
<1>2. /\ n \in Nat \ {0} /\ Inner = 1 .. n /\ Row(placed, n) /\ Len(placed) \in Nat
      /\ Len(placed) < n
      /\ \A f \in Arrangements : f \in [1 .. n -> 1 .. n]
  BY <1>1, QuadFacts DEF QuadTypes
<1>3. \A f \in Arrangements :
         Ahead(n, f, placed, next) <=> Ahead(n, f, t, 1) \/ (Len(t) = n /\ Same(n, f, t))
  <2>1. next \in 1 .. n
    BY <1>1, <1>2
  <2> HIDE DEF n
  <2>2. QED
    BY <1>1, <1>2, <2>1, AheadPlaced
<1>4. \A f \in Arrangements : Open(f, phase, placed, next) <=> Open(f, phase', t, 1)
  <2>1. ASSUME NEW f \in Arrangements PROVE Open(f, phase, placed, next) <=> Open(f, phase', t, 1)
    <3> HIDE DEF t
    <3>1. Open(f, phase, placed, next) <=> Ahead(n, f, placed, next)
      BY <1>1 DEF Open
    <3>2. Open(f, phase', t, 1) <=> Ahead(n, f, t, 1) \/ (Len(t) = n /\ Same(n, f, t))
      BY <1>1 DEF Open
    <3>3. QED
      BY <1>3, <3>1, <3>2
  <2>2. QED
    BY <2>1
<1>5. HitsGood(parities, flipped, phase', t, 1, hits, nummatches)
  <2> DEFINE ph == phase'
  <2>1. \A f \in Arrangements : Open(f, phase, placed, next) <=> Open(f, ph, t, 1)
    BY <1>4
  <2> HIDE DEF ph, t
  <2>2. HitsGood(parities, flipped, ph, t, 1, hits, nummatches)
    BY <2>1, MovesOn
  <2>3. QED
    BY <2>2 DEF ph
<1>6. QED
  BY <1>1, <1>5

\* A slot that is given up.
LEMMA BacktrackKeeps ==
    ASSUME QuadTypes, Backtrack,
           HitsGood(parities, flipped, phase, placed, next, hits, nummatches)
    PROVE  HitsGood(parities', flipped', phase', placed', next', hits', nummatches')
<1> DEFINE n == Len(fieldcode)
           t == Front(placed)
           z == Last(placed) + 1
<1>1. /\ phase = "perm" /\ next \notin Inner /\ placed # <<>> /\ parities' = parities
      /\ flipped' = flipped /\ placed' = t /\ hits' = hits /\ nummatches' = nummatches
      /\ next' = z /\ phase' = phase
  BY DEF Backtrack
<1>2. /\ n \in Nat \ {0} /\ Inner = 1 .. n /\ Row(placed, n) /\ Len(placed) <= n
      /\ next \in Nat \ {0}
      /\ \A f \in Arrangements : f \in [1 .. n -> 1 .. n]
  BY <1>1, QuadFacts
<1>3. next > n /\ next \in Nat /\ n \in Nat
  <2> HIDE DEF n
  <2>1. QED
    BY <1>1, <1>2
<1>4. \A f \in Arrangements : Open(f, "perm", placed, next) <=> Open(f, "perm", t, z)
  <2>1. \A f \in Arrangements : Ahead(n, f, placed, next) <=> Ahead(n, f, t, z)
    <3> HIDE DEF n
    <3>1. QED
      BY <1>1, <1>2, <1>3, AheadBack
  <2>2. QED
    BY <2>1 DEF Open
<1>5. HitsGood(parities, flipped, "perm", placed, next, hits, nummatches)
  BY <1>1
<1>6. HitsGood(parities, flipped, "perm", t, z, hits, nummatches)
  <2> HIDE DEF t, z
  <2>1. QED
    BY <1>4, <1>5, MovesOn
<1>7. QED
  BY <1>1, <1>6

\* The code that is searched for.
Asking == phase = "search" =>
             query = [at |-> Query(Head(parities), flipped, placed), r |-> Tol]

\* Two functions on the slots are the same when they agree on all.
LEMMA SameIsEqual ==
    ASSUME NEW n \in Nat, NEW f \in [1 .. n -> 1 .. n], NEW g \in [1 .. n -> 1 .. n], Same(n, f, g)
    PROVE  f = g
BY DEF Same

\* An answer with the matches of the order that fills the slots.
LEMMA FoundAre ==
    ASSUME Built, QuadTypes, RangeInv, Asking, phase = "search", Answered, pc = "range"
    PROVE  /\ found \subseteq Matches(Head(parities), flipped, placed)
           /\ ~SomeoneAlone /\ Inside(Head(parities), flipped, placed)
                 => found = Matches(Head(parities), flipped, placed)
           /\ IsFiniteSet(found)
           /\ placed \in Arrangements /\ placed \in [1 .. Len(fieldcode) -> 1 .. Len(fieldcode)]
<1> DEFINE n == Len(fieldcode)
           at == Query(Head(parities), flipped, placed)
<1>1. query.at = at /\ query.r = Tol
  BY DEF Asking
<1>2. AllInRange = Matches(Head(parities), flipped, placed)
  BY <1>1 DEF AllInRange, InRange, Matches
<1>3. Fits <=> Inside(Head(parities), flipped, placed)
  BY <1>1 DEF Fits, Inside
<1>4. stack = <<>> /\ RangeGood(stack, found)
  BY DEF Answered, RangeInv
<1>5. Elems(stack) = {}
  BY <1>4, ShortLists
<1>6. found \subseteq AllInRange /\ (Fits /\ ~SomeoneAlone => found = AllInRange)
  BY <1>4, <1>5 DEF RangeGood
<1>7. IsFiniteSet(found)
  <2>1. IsFiniteSet(0 .. N - 1) /\ found \subseteq 0 .. N - 1
    BY <1>6, FS_Interval DEF Built, AllInRange
  <2>2. QED
    BY <2>1, FS_Subset
<1>8. /\ n \in Nat \ {0} /\ Inner = 1 .. n /\ Row(placed, n) /\ Len(placed) = n
  BY QuadFacts DEF QuadTypes
<1>9. placed \in [1 .. n -> 1 .. n]
  <2> DEFINE S == 1 .. n
  <2>1. placed \in Seq(S) /\ Len(placed) = n
    BY <1>8 DEF Row
  <2> HIDE DEF S, n
  <2>2. placed \in [1 .. n -> S]
    BY <2>1, LenProperties
  <2>3. QED
    BY <2>2 DEF S
<1>10. placed \in Arrangements
  <2>1. \A i, j \in 1 .. n : placed[i] = placed[j] => i = j
    BY <1>8 DEF Row, Distinct
  <2>2. DOMAIN placed = 1 .. n
    BY <1>9
  <2> HIDE DEF n
  <2>3. IsInjective(placed)
    BY <2>1, <2>2 DEF IsInjective
  <2>4. QED
    BY <1>8, <1>9, <2>3 DEF Arrangements, n
<1>11. QED
  BY <1>2, <1>3, <1>6, <1>7, <1>9, <1>10

\* The matches of an order that was searched for are counted, each once.
LEMMA ResolveKeeps ==
    ASSUME Built, QuadTypes, RangeInv, Asking, pc = "range", Resolve, ~quit_now, ~quit_now',
           HitsGood(parities, flipped, phase, placed, next, hits, nummatches)
    PROVE  HitsGood(parities', flipped', phase', placed', next', hits', nummatches')
<1> DEFINE n == Len(fieldcode)
           t == Front(placed)
           z == Last(placed) + 1
           flip == Head(parities)
           hit(p) == [flip |-> flip, turned |-> flipped, order |-> placed, match |-> p]
           new == {hit(p) : p \in found}
<1>1. /\ phase = "search" /\ Answered /\ phase' = "perm" /\ placed' = t
      /\ fieldcode' = fieldcode /\ parities' = parities /\ flipped' = flipped
  BY DEF Resolve
<1>2. hits' = hits \cup new /\ nummatches' = nummatches + Cardinality(found)
  <2>1. PICK seen \in SUBSET found :
           /\ IF quit_now THEN quit_now' /\ (seen = {} => found = {})
                          ELSE IF quit_now' THEN seen # {} ELSE seen = found
           /\ hits' = hits \cup {[flip |-> Head(parities), turned |-> flipped, order |-> placed,
                                 match |-> p] : p \in seen}
           /\ nummatches' = nummatches + Cardinality(seen)
    BY DEF Resolve
  <2>2. seen = found
    BY <2>1
  <2>3. QED
    BY <2>1, <2>2
<1>3. next' = z
  BY DEF Resolve
<1>4. /\ found \subseteq Matches(flip, flipped, placed)
      /\ ~SomeoneAlone /\ Inside(flip, flipped, placed) => found = Matches(flip, flipped, placed)
      /\ IsFiniteSet(found)
      /\ placed \in Arrangements /\ placed \in [1 .. n -> 1 .. n]
  BY <1>1, FoundAre
<1>5. /\ n \in Nat \ {0} /\ Row(placed, n) /\ Len(placed) = n /\ next \in Nat
      /\ \A f \in Arrangements : f \in [1 .. n -> 1 .. n]
  BY <1>1, QuadFacts DEF QuadTypes
<1>6. placed # <<>>
  BY <1>5, EmptySeq
<1> HIDE DEF n
<1>7. \A f \in Arrangements : Ahead(n, f, placed, next) <=> Ahead(n, f, t, z)
  <2>1. Len(placed) <= n
    BY <1>5
  <2>2. QED
    BY <1>5, <1>6, <2>1, AheadBack
<1>8. \A f \in Arrangements : Open(f, phase, placed, next)
                                <=> Open(f, "perm", t, z) \/ Same(n, f, placed)
  BY <1>1, <1>7 DEF Open, n
<1>9. ~Open(placed, "perm", t, z)
  <2>1. ~Ahead(n, placed, placed, next)
    <3>1. \A j \in 1 .. n : placed[j] \in Int
      BY <1>4, <1>5
    <3>2. \A j \in 1 .. n : ~(placed[j] > placed[j])
      BY <3>1
    <3>3. QED
      BY <1>5, <3>2 DEF Ahead
  <2>2. QED
    BY <1>4, <1>7, <2>1 DEF Open, n
<1>10. Same(n, placed, placed)
  BY DEF Same
<1>11. \A h \in new : /\ h.flip = flip /\ h.turned = flipped /\ h.order = placed
                      /\ h.match \in found
  OBVIOUS
<1> HIDE DEF t, z
\* None of them was counted before.
<1>12. hits \cap new = {}
  <2>1. ASSUME NEW h \in hits, h \in new PROVE FALSE
    <3>1. h.flip = flip /\ h.turned = flipped /\ h.order = placed
      BY <1>11, <2>1
    <3>2. ~Open(h.order, phase, placed, next)
      BY <3>1 DEF HitsGood
    <3>3. QED
      BY <1>4, <1>8, <1>10, <3>1, <3>2
  <2>2. QED
    BY <2>1
<1>13. IsFiniteSet(new) /\ Cardinality(new) = Cardinality(found)
  <2> DEFINE g == [p \in found |-> hit(p)]
  <2>1. g \in [found -> new] /\ (\A h \in new : \E p \in found : g[p] = h)
        /\ \A p, q \in found : g[p] = g[q] => p = q
    <3>1. \A p, q : hit(p) = hit(q) => p = q
      OBVIOUS
    <3>2. QED
      BY <3>1
  <2> HIDE DEF g, new
  <2>2. g \in Bijection(found, new)
    BY <2>1 DEF Bijection, Injection, Surjection, IsInjective
  <2>3. QED
    BY <1>4, <2>2, FS_Bijection DEF ExistsBijection
<1>14. IsFiniteSet(hits') /\ nummatches' = Cardinality(hits')
  <2>1. IsFiniteSet(hits) /\ nummatches = Cardinality(hits)
    BY DEF HitsGood
  <2> HIDE DEF new
  <2>2. /\ IsFiniteSet(hits \cup new)
        /\ Cardinality(hits \cup new) = Cardinality(hits) + Cardinality(new) - Cardinality(hits \cap new)
    BY <1>13, <2>1, FS_Union
  <2>3. Cardinality(hits \cap new) = 0
    BY <1>12, FS_EmptySet
  <2>4. Cardinality(hits) \in Nat /\ Cardinality(new) \in Nat
    BY <1>13, <2>1, FS_CardinalityType
  <2> DEFINE a == Cardinality(hits)
             b == Cardinality(new)
             c == Cardinality(hits \cap new)
             d == Cardinality(hits \cup new)
  <2>5. a \in Nat /\ b \in Nat /\ c = 0 /\ d = a + b - c
    BY <2>2, <2>3, <2>4
  <2> HIDE DEF a, b, c, d
  <2>6. d = a + b
    BY <2>5
  <2>7. QED
    BY <1>2, <1>13, <2>1, <2>2, <2>6 DEF a, b, d
<1> HIDE DEF flip
<1>15. ASSUME NEW h \in hits'
       PROVE  /\ h.order \in Arrangements /\ h.match \in Matches(h.flip, h.turned, h.order)
              /\ h.flip = flip \/ parities = <<TRUE>>
              /\ h.flip = flip => h.turned = flipped \/ (h.turned = FALSE /\ flipped = TRUE)
              /\ h.flip = flip /\ h.turned = flipped => ~Open(h.order, "perm", t, z)
  <2>1. CASE h \in hits
    BY <1>8, <2>1 DEF HitsGood, flip
  <2>2. CASE h \in new
    <3> HIDE DEF new
    <3>1. h.flip = flip /\ h.turned = flipped /\ h.order = placed /\ h.match \in found
      BY <1>11, <2>2
    <3>2. QED
      BY <1>4, <1>9, <3>1
  <2>3. QED
    BY <1>2, <1>15, <2>1, <2>2
<1>16. ASSUME ~SomeoneAlone, NEW f \in Arrangements, Inside(flip, flipped, f), ~Open(f, "perm", t, z),
              NEW p \in Matches(flip, flipped, f)
       PROVE  \E h \in hits' : h.flip = flip /\ h.turned = flipped /\ h.order = f /\ h.match = p
  <2>1. CASE Same(n, f, placed)
    <3>1. f = placed
      BY <1>4, <1>5, <2>1, SameIsEqual
    <3>2. p \in found
      BY <1>4, <1>16, <3>1
    <3>3. hit(p) \in hits'
      BY <1>2, <3>2
    <3>4. hit(p).flip = flip /\ hit(p).turned = flipped /\ hit(p).order = f /\ hit(p).match = p
      BY <3>1
    <3>5. QED
      BY <3>3, <3>4
  <2>2. CASE ~Same(n, f, placed)
    <3>1. ~Open(f, phase, placed, next)
      BY <1>8, <1>16, <2>2
    <3>2. \E h \in hits : h.flip = flip /\ h.turned = flipped /\ h.order = f /\ h.match = p
      BY <1>16, <3>1 DEF HitsGood, flip
    <3>3. QED
      BY <1>2, <3>2
  <2>3. QED
    BY <2>1, <2>2
<1>17. HitsGood(parities, flipped, "perm", t, z, hits', nummatches')
  <2> DEFINE hs == hits'
             num == nummatches'
  <2>1. IsFiniteSet(hs) /\ num = Cardinality(hs)
    BY <1>14
  <2>2. \A h \in hs :
              /\ h.order \in Arrangements /\ h.match \in Matches(h.flip, h.turned, h.order)
              /\ h.flip = flip \/ parities = <<TRUE>>
              /\ h.flip = flip => h.turned = flipped \/ (h.turned = FALSE /\ flipped = TRUE)
              /\ h.flip = flip /\ h.turned = flipped => ~Open(h.order, "perm", t, z)
    BY <1>15
  <2>3. ~SomeoneAlone => \A f \in Arrangements : Inside(flip, flipped, f) =>
            \/ Open(f, "perm", t, z)
            \/ \A p \in Matches(flip, flipped, f) : \E h \in hs :
                  h.flip = flip /\ h.turned = flipped /\ h.order = f /\ h.match = p
    BY <1>16
  <2> HIDE DEF hs, num
  <2>4. HitsGood(parities, flipped, "perm", t, z, hs, num)
    BY <2>1, <2>2, <2>3 DEF HitsGood, flip
  <2>5. QED
    BY <2>4 DEF hs, num
<1>18. QED
  BY <1>1, <1>3, <1>17

\* When all orders were tried in one turn, none is open; the next turn opens all.
LEMMA TurnOver ==
    ASSUME QuadTypes, phase = "perm", next \notin Inner
    PROVE  \A f \in Arrangements : ~Open(f, "perm", <<>>, next) /\ Open(f, "perm", <<>>, 1)
<1> DEFINE n == Len(fieldcode)
<1>1. /\ n \in Nat \ {0} /\ Inner = 1 .. n /\ next \in Nat \ {0}
      /\ \A f \in Arrangements : f \in [1 .. n -> 1 .. n]
  BY QuadFacts
<1>2. next \in Nat /\ next > n
  <2> HIDE DEF n
  <2>1. QED
    BY <1>1
<1>3. ASSUME NEW f \in Arrangements
      PROVE  Ahead(n, f, <<>>, 1) /\ ~Ahead(n, f, <<>>, next)
  <2> HIDE DEF n
  <2>1. QED
    BY <1>1, <1>2, AheadAtFirst
<1>4. QED
  BY <1>3 DEF Open

\* B and A, or the other parity.
LEMMA TurnKeeps ==
    ASSUME QuadTypes, TurnAround, ~quit_now, phase' = "perm",
           HitsGood(parities, flipped, phase, placed, next, hits, nummatches)
    PROVE  HitsGood(parities', flipped', phase', placed', next', hits', nummatches')
<1>1. /\ phase = "perm" /\ next \notin Inner /\ placed = <<>> /\ flipped' = (~flipped /\ ~quit_now)
      /\ parities' = (IF flipped' THEN parities ELSE Tail(parities)) /\ next' = 1
      /\ phase' = (IF parities' = <<>> THEN "tried" ELSE phase)
      /\ placed' = placed /\ hits' = hits /\ nummatches' = nummatches
  BY DEF TurnAround
<1>2. parities \in ParityLists /\ flipped \in BOOLEAN
  BY <1>1, QuadFacts
<1>3. parities' # <<>>
  BY <1>1
<1>4. \A f \in Arrangements : Open(f, "perm", <<>>, 1)
  BY <1>1, TurnOver
<1>5. IsFiniteSet(hits) /\ nummatches = Cardinality(hits)
      /\ \A h \in hits :
           /\ h.order \in Arrangements /\ h.match \in Matches(h.flip, h.turned, h.order)
           /\ h.flip = Head(parities) \/ parities = <<TRUE>>
           /\ h.flip = Head(parities) => h.turned = flipped \/ (h.turned = FALSE /\ flipped = TRUE)
  BY DEF HitsGood
<1>6. CASE flipped = FALSE
  <2>1. flipped' = TRUE /\ parities' = parities
    BY <1>1, <1>6
  <2>2. HitsGood(parities, TRUE, "perm", <<>>, 1, hits, nummatches)
    <3>1. \A h \in hits : h.flip = Head(parities) => h.turned = FALSE
      BY <1>5, <1>6
    <3>2. QED
      BY <1>4, <1>5, <3>1 DEF HitsGood
  <2>3. QED
    BY <1>1, <2>1, <2>2
<1>7. CASE flipped = TRUE
  <2>1. flipped' = FALSE /\ parities' = Tail(parities)
    BY <1>1, <1>7
  <2>2. parities = <<FALSE, TRUE>> /\ parities' = <<TRUE>>
    BY <1>2, <1>3, <2>1, ShortTails DEF ParityLists
  <2>3. Head(parities) = FALSE /\ Head(<<TRUE>>) = TRUE /\ parities # <<TRUE>>
    <3>1. Head(parities) = FALSE /\ Head(<<TRUE>>) = TRUE
      BY <2>2, ShortHeads
    <3>2. QED
      BY <3>1
  <2>4. \A h \in hits : h.flip = FALSE
    BY <1>5, <2>3
  <2>5. HitsGood(<<TRUE>>, FALSE, "perm", <<>>, 1, hits, nummatches)
    <3> DEFINE pars == <<TRUE>>
    <3>1. Head(pars) = TRUE /\ pars = <<TRUE>>
      BY <2>3
    <3> HIDE DEF pars
    <3>2. HitsGood(pars, FALSE, "perm", <<>>, 1, hits, nummatches)
      BY <1>4, <1>5, <2>4, <3>1 DEF HitsGood
    <3>3. QED
      BY <3>2 DEF pars
  <2>6. QED
    BY <1>1, <2>1, <2>2, <2>5
<1>8. QED
  BY <1>2, <1>6, <1>7

\* A new quad.
LEMMA FreshIsGood ==
    QuadTypes /\ phase = "perm" /\ placed = <<>> /\ next = 1 /\ hits = {} /\ nummatches = 0
        => HitsGood(parities, flipped, phase, placed, next, hits, nummatches)
<1> SUFFICES ASSUME QuadTypes, phase = "perm", placed = <<>>, next = 1, hits = {}, nummatches = 0
             PROVE  HitsGood(parities, flipped, phase, placed, next, hits, nummatches)
  OBVIOUS
<1> DEFINE n == Len(fieldcode)
<1>1. n \in Nat \ {0} /\ \A f \in Arrangements : f \in [1 .. n -> 1 .. n]
  BY QuadFacts
<1>2. \A f \in Arrangements : Open(f, phase, placed, next)
  <2>1. ASSUME NEW f \in Arrangements PROVE Ahead(n, f, <<>>, 1)
    <3> HIDE DEF n
    <3>1. QED
      BY <1>1, AheadAtFirst
  <2>2. QED
    BY <2>1 DEF Open
<1>3. IsFiniteSet(hits) /\ Cardinality(hits) = 0
  BY FS_EmptySet
<1>4. QED
  BY <1>2, <1>3 DEF HitsGood

\* The same of the next state.
LEMMA FreshIsGoodNext ==
    (QuadTypes /\ phase = "perm" /\ placed = <<>> /\ next = 1 /\ hits = {} /\ nummatches = 0
        => HitsGood(parities, flipped, phase, placed, next, hits, nummatches))'
  BY FreshIsGood, PTL

\* Neither the tree nor the quad changes.
LEMMA HitsSame ==
    ASSUME UNCHANGED tree, fieldcode' = fieldcode,
           HitsGood(parities', flipped', phase', placed', next', hits', nummatches')
    PROVE  HitsGood(parities, flipped, phase, placed, next, hits, nummatches)'
<1>1. N' = N /\ SomeoneAlone' = SomeoneAlone /\ \A p, d : At(p, d)' = At(p, d)
  BY PlacesSame
<1>2. Arrangements' = Arrangements
  BY DEF Arrangements, Inner
<1>3. \A a, b, f : Query(a, b, f)' = Query(a, b, f)
  BY DEF Query, CodeOf
<1>4. \A a, b, f : Matches(a, b, f)' = Matches(a, b, f)
  <2>1. \A q, p : Dist2(q, p)' = Dist2(q, p)
    BY <1>1 DEF Dist2
  <2>2. QED
    BY <1>1, <1>3, <2>1 DEF Matches
<1>5. \A a, b, f : Inside(a, b, f)' <=> Inside(a, b, f)
  BY <1>3 DEF Inside
<1>6. \A f, a, b, c : Open(f, a, b, c)' <=> Open(f, a, b, c)
  BY DEF Open, Ahead, Same
<1>7. ASSUME NEW ps, NEW fl, NEW ph, NEW pl, NEW nx, NEW hs, NEW num,
             HitsGood(ps, fl, ph, pl, nx, hs, num)
      PROVE  HitsGood(ps, fl, ph, pl, nx, hs, num)'
  <2>1. IsFiniteSet(hs) /\ num = Cardinality(hs)
    BY <1>7 DEF HitsGood
  <2>2. ASSUME NEW h \in hs
        PROVE  /\ h.order \in Arrangements' /\ h.match \in Matches(h.flip, h.turned, h.order)'
               /\ h.flip = Head(ps) \/ ps = <<TRUE>>
               /\ h.flip = Head(ps) => h.turned = fl \/ (h.turned = FALSE /\ fl = TRUE)
               /\ h.flip = Head(ps) /\ h.turned = fl => ~Open(h.order, ph, pl, nx)'
    <3>1. /\ h.order \in Arrangements /\ h.match \in Matches(h.flip, h.turned, h.order)
          /\ h.flip = Head(ps) \/ ps = <<TRUE>>
          /\ h.flip = Head(ps) => h.turned = fl \/ (h.turned = FALSE /\ fl = TRUE)
          /\ h.flip = Head(ps) /\ h.turned = fl => ~Open(h.order, ph, pl, nx)
      BY <1>7 DEF HitsGood
    <3>2. Matches(h.flip, h.turned, h.order)' = Matches(h.flip, h.turned, h.order)
      BY <1>4
    <3>3. Open(h.order, ph, pl, nx)' <=> Open(h.order, ph, pl, nx)
      BY <1>6
    <3>4. QED
      BY <1>2, <3>1, <3>2, <3>3
  <2>3. ASSUME ~SomeoneAlone', NEW f \in Arrangements', Inside(Head(ps), fl, f)',
               ~Open(f, ph, pl, nx)', NEW p \in Matches(Head(ps), fl, f)'
        PROVE  \E h \in hs : h.flip = Head(ps) /\ h.turned = fl /\ h.order = f /\ h.match = p
    <3>1. ~SomeoneAlone /\ f \in Arrangements
      BY <1>1, <1>2, <2>3
    <3>2. Inside(Head(ps), fl, f)
      BY <1>5, <2>3
    <3>3. ~Open(f, ph, pl, nx)
      BY <1>6, <2>3
    <3>4. p \in Matches(Head(ps), fl, f)
      BY <1>4, <2>3
    <3>5. QED
      BY <1>7, <3>1, <3>2, <3>3, <3>4 DEF HitsGood
  <2>4. QED
    BY <2>1, <2>2, <2>3 DEF HitsGood
<1>8. QED
  BY <1>7

-----------------------------------------------------------------------------
(* The search of a quad *)

\* What is known of the quad, between any two steps.
HitsInv ==
    /\ cxdx => Obeys(pts)
    /\ phase = "idle" => hits = {} /\ nummatches = 0 /\ quit_now = FALSE
    /\ phase \in {"perm", "search"} /\ ~quit_now =>
          HitsGood(parities, flipped, phase, placed, next, hits, nummatches)
    /\ Asking

\* The points, and what the index says of them, never change.
LEMMA CloudSame ==
    ASSUME [QuadNext]_<<vars, quadvars>>, cxdx => Obeys(pts)
    PROVE  cxdx' => Obeys(pts)'
<1>1. pts' = pts /\ cxdx' = cxdx
  <2>1. CASE UNCHANGED <<vars, quadvars>>
    BY <2>1 DEF vars, tree, quadvars
  <2>2. CASE Other
    <3>1. CASE Build
      BY <2>2, <3>1 DEF Other, quadvars, Build
    <3>2. CASE StartRange \/ VisitRange \/ StartNearest \/ VisitNear \/ Return
      BY <2>2, <3>2, SearchesLeave DEF Other, quadvars, tree
    <3>3. QED
      BY <2>2, <3>1, <3>2 DEF Other, Next
  <2>3. CASE Visit
    BY <2>3 DEF Visit, quadvars, VisitRange, tree
  <2>4. CASE StartQuad \/ Skip \/ Backtrack \/ TurnAround \/ EndQuad
    BY <2>4 DEF StartQuad, Skip, Backtrack, TurnAround, EndQuad, vars, tree
  <2>5. CASE PlaceStar
    BY <2>5 DEF PlaceStar, Filled, vars, tree
  <2>6. CASE Resolve
    BY <2>6 DEF Resolve, tree
  <2>7. QED
    BY <2>1, <2>2, <2>3, <2>4, <2>5, <2>6 DEF QuadNext
<1>2. QED
  BY <1>1 DEF Obeys, X

\* A step that leaves the quad alone.
LEMMA QuadSame ==
    ASSUME HitsInv, UNCHANGED quadvars, phase # "idle" => UNCHANGED <<tree, query>>
    PROVE  /\ phase' = "idle" => hits' = {} /\ nummatches' = 0 /\ quit_now' = FALSE
           /\ phase' \in {"perm", "search"} /\ ~quit_now' =>
                HitsGood(parities, flipped, phase, placed, next, hits, nummatches)'
           /\ Asking'
<1>1. /\ phase' = phase /\ fieldcode' = fieldcode /\ parities' = parities /\ flipped' = flipped
      /\ placed' = placed /\ next' = next /\ hits' = hits /\ nummatches' = nummatches
      /\ quit_now' = quit_now
  BY DEF quadvars
<1>2. phase' = "idle" => hits' = {} /\ nummatches' = 0 /\ quit_now' = FALSE
  BY <1>1 DEF HitsInv
<1>3. ASSUME phase' \in {"perm", "search"}, ~quit_now'
      PROVE  HitsGood(parities, flipped, phase, placed, next, hits, nummatches)'
  <2>1. HitsGood(parities', flipped', phase', placed', next', hits', nummatches')
    BY <1>1, <1>3 DEF HitsInv
  <2>2. UNCHANGED tree
    BY <1>1, <1>3
  <2>3. QED
    BY <1>1, <2>1, <2>2, HitsSame
<1>4. Asking'
  <2> SUFFICES ASSUME phase' = "search"
               PROVE  query' = [at |-> Query(Head(parities), flipped, placed)', r |-> Tol]
    BY DEF Asking
  <2>1. query' = query /\ query = [at |-> Query(Head(parities), flipped, placed), r |-> Tol]
    BY <1>1 DEF HitsInv, Asking
  <2>2. Query(Head(parities), flipped, placed)' = Query(Head(parities), flipped, placed)
    BY <1>1 DEF Query, CodeOf
  <2>3. QED
    BY <2>1, <2>2
<1>5. QED
  BY <1>2, <1>3, <1>4

\* When the search of a quad goes on, so does what is known of it.
LEMMA HitsInvKept ==
    ASSUME SearchInv, SearchInv', HitsInv, [QuadNext]_<<vars, quadvars>>
    PROVE  HitsInv'
<1>1. /\ TreeInv /\ InPhase /\ QuadTypes /\ RangeInv /\ pts \in Clouds /\ QuadTypes'
  BY DEF SearchInv, BuildInv, TreeInv, TreeTypes
<1>2. phase \in {"perm", "search"} => Built
  BY <1>1, BuiltRight DEF InPhase
<1> SUFFICES /\ phase' = "idle" => hits' = {} /\ nummatches' = 0 /\ quit_now' = FALSE
             /\ phase' \in {"perm", "search"} /\ ~quit_now' =>
                  HitsGood(parities, flipped, phase, placed, next, hits, nummatches)'
             /\ Asking'
  <2>1. cxdx' => Obeys(pts)'
    BY CloudSame DEF HitsInv
  <2>2. QED
    BY <2>1 DEF HitsInv
<1>3. CASE UNCHANGED <<vars, quadvars>>
  BY <1>3, QuadSame DEF vars
<1>4. CASE Other
  BY <1>4, QuadSame DEF Other
<1>5. CASE Visit
  BY <1>5, QuadSame DEF Visit, VisitRange
<1>6. CASE StartQuad
  <2>1. /\ phase' = "perm" /\ placed' = <<>> /\ next' = 1 /\ hits' = {} /\ nummatches' = 0
    BY <1>6 DEF StartQuad, HitsInv
  <2>2. QED
    BY <1>1, <2>1, FreshIsGoodNext DEF Asking
<1>7. CASE Skip
  <2>1. /\ phase = "perm" /\ phase' = "perm" /\ quit_now' = quit_now /\ UNCHANGED tree
        /\ fieldcode' = fieldcode
    BY <1>7 DEF Skip, vars
  <2>2. ASSUME ~quit_now PROVE HitsGood(parities, flipped, phase, placed, next, hits, nummatches)'
    <3>1. HitsGood(parities', flipped', phase', placed', next', hits', nummatches')
      BY <1>1, <1>2, <1>7, <2>1, <2>2, SkipKeeps DEF HitsInv
    <3>2. QED
      BY <2>1, <3>1, HitsSame
  <2>3. QED
    BY <2>1, <2>2 DEF Asking
<1>8. CASE PlaceStar
  <2>1. /\ phase = "perm" /\ phase' \in {"perm", "search"} /\ quit_now' = quit_now
        /\ UNCHANGED tree /\ fieldcode' = fieldcode /\ parities' = parities /\ flipped' = flipped
    BY <1>8 DEF PlaceStar, Filled, vars
  <2>2. ASSUME ~quit_now PROVE HitsGood(parities, flipped, phase, placed, next, hits, nummatches)'
    <3>1. HitsGood(parities', flipped', phase', placed', next', hits', nummatches')
      BY <1>1, <1>8, <2>1, <2>2, PlaceKeeps DEF HitsInv
    <3>2. QED
      BY <2>1, <3>1, HitsSame
  <2>3. Asking'
    <3> SUFFICES ASSUME phase' = "search"
                 PROVE  query' = [at |-> Query(Head(parities), flipped, placed)', r |-> Tol]
      BY DEF Asking
    <3>1. query' = [at |-> Query(Head(parities), flipped, placed'), r |-> Tol]
      BY <1>8, <2>1 DEF PlaceStar, Filled
    <3>2. Query(Head(parities), flipped, placed)' = Query(Head(parities), flipped, placed')
      BY <2>1 DEF Query, CodeOf
    <3>3. QED
      BY <3>1, <3>2
  <2>4. QED
    BY <2>1, <2>2, <2>3
<1>9. CASE Backtrack
  <2>1. /\ phase = "perm" /\ phase' = "perm" /\ quit_now' = quit_now /\ UNCHANGED tree
        /\ fieldcode' = fieldcode
    BY <1>9 DEF Backtrack, vars
  <2>2. ASSUME ~quit_now PROVE HitsGood(parities, flipped, phase, placed, next, hits, nummatches)'
    <3>1. HitsGood(parities', flipped', phase', placed', next', hits', nummatches')
      BY <1>1, <1>9, <2>1, <2>2, BacktrackKeeps DEF HitsInv
    <3>2. QED
      BY <2>1, <3>1, HitsSame
  <2>3. QED
    BY <2>1, <2>2 DEF Asking
<1>10. CASE Resolve
  <2>1. /\ phase = "search" /\ phase' = "perm" /\ UNCHANGED tree /\ fieldcode' = fieldcode
        /\ pc = "range" /\ (quit_now => quit_now')
    BY <1>1, <1>10 DEF Resolve, InPhase
  <2>2. ASSUME ~quit_now'
        PROVE  HitsGood(parities, flipped, phase, placed, next, hits, nummatches)'
    <3>1. HitsGood(parities, flipped, phase, placed, next, hits, nummatches) /\ Asking /\ ~quit_now
      BY <2>1, <2>2 DEF HitsInv
    <3>2. HitsGood(parities', flipped', phase', placed', next', hits', nummatches')
      BY <1>1, <1>2, <1>10, <2>1, <2>2, <3>1, ResolveKeeps
    <3>3. QED
      BY <2>1, <3>2, HitsSame
  <2>3. QED
    BY <2>1, <2>2 DEF Asking
<1>11. CASE TurnAround
  <2>1. /\ phase = "perm" /\ phase' \in {"perm", "tried"} /\ quit_now' = quit_now
        /\ UNCHANGED tree /\ fieldcode' = fieldcode
    BY <1>11 DEF TurnAround, vars
  <2>2. ASSUME ~quit_now, phase' = "perm"
        PROVE  HitsGood(parities, flipped, phase, placed, next, hits, nummatches)'
    <3>1. HitsGood(parities', flipped', phase', placed', next', hits', nummatches')
      BY <1>1, <1>11, <2>1, <2>2, TurnKeeps DEF HitsInv
    <3>2. QED
      BY <2>1, <3>1, HitsSame
  <2>3. QED
    BY <2>1, <2>2 DEF Asking
<1>12. CASE EndQuad
  BY <1>12 DEF EndQuad, Asking
<1>13. QED
  BY <1>3, <1>4, <1>5, <1>6, <1>7, <1>8, <1>9, <1>10, <1>11, <1>12 DEF QuadNext

\* What PruningLosesNoMatch asks, of an order of the inner stars.
LEMMA HitsAreMatches ==
    ASSUME QuadTypes, HitsInv, phase = "perm", next \notin Inner, placed = <<>>, ~quit_now,
           NEW f \in Arrangements
    PROVE  LET flip == Head(parities)
               got == {h.match : h \in {h \in hits : h.flip = flip /\ h.turned = flipped /\ h.order = f}}
           IN  /\ got \subseteq Matches(flip, flipped, f)
               /\ Inside(flip, flipped, f) /\ ~SomeoneAlone => got = Matches(flip, flipped, f)
<1> DEFINE flip == Head(parities)
           of == {h \in hits : h.flip = flip /\ h.turned = flipped /\ h.order = f}
           got == {h.match : h \in of}
<1>1. HitsGood(parities, flipped, "perm", <<>>, next, hits, nummatches)
  BY DEF HitsInv
<1>2. ~Open(f, "perm", <<>>, next)
  BY TurnOver
<1>3. ASSUME NEW p \in got PROVE p \in Matches(flip, flipped, f)
  <2>1. PICK h \in of : p = h.match
    BY <1>3
  <2>2. h \in hits /\ h.flip = flip /\ h.turned = flipped /\ h.order = f
    BY <2>1
  <2>3. h.match \in Matches(h.flip, h.turned, h.order)
    BY <1>1, <2>2 DEF HitsGood
  <2>4. QED
    BY <2>1, <2>2, <2>3
<1>4. ASSUME Inside(flip, flipped, f), ~SomeoneAlone, NEW p \in Matches(flip, flipped, f)
      PROVE  p \in got
  <2>1. \E h \in hits : h.flip = flip /\ h.turned = flipped /\ h.order = f /\ h.match = p
    BY <1>1, <1>2, <1>4 DEF HitsGood
  <2>2. QED
    BY <2>1
<1>5. QED
  BY <1>3, <1>4

\* The pruned permutations lose no match (QuadSearch!PruningLosesNoMatch).
THEOREM PruningRight == QuadSpec => []PruningLosesNoMatch
<1>1. QuadInit => SearchInv
  BY SearchInvStarts
<1>2. QuadInit => HitsInv
  BY DEF QuadInit, HitsInv, Asking
<1>3. SearchInv /\ [QuadNext]_<<vars, quadvars>> => SearchInv'
  BY SearchInvKept
<1>4. SearchInv /\ SearchInv' /\ HitsInv /\ [QuadNext]_<<vars, quadvars>> => HitsInv'
  BY HitsInvKept
<1>5. SearchInv /\ HitsInv => PruningLosesNoMatch
  <2> SUFFICES ASSUME SearchInv, HitsInv, phase = "perm", next \notin Inner, placed = <<>>, ~quit_now
               PROVE  PruningLosesNoMatch
    BY DEF PruningLosesNoMatch
  <2>1. nummatches = Cardinality(hits)
    BY DEF HitsInv, HitsGood
  <2>2. QuadTypes
    BY DEF SearchInv
  <2>3. QED
    BY <2>1, <2>2, HitsAreMatches DEF PruningLosesNoMatch, Inside
<1>6. QED
  BY <1>1, <1>2, <1>3, <1>4, <1>5, PTL DEF QuadSpec
=================================================================================
