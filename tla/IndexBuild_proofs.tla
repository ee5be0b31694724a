--------------------------- MODULE IndexBuild_proofs ---------------------------
(***************************************************************************)
(* Proofs about IndexBuild, and the parts of it that UniformizeCatalog and *)
(* HpQuads specify.                                                        *)
(***************************************************************************)
EXTENDS IndexBuild, Ranking_proofs

-----------------------------------------------------------------------------
(* What sequences hold *)

\* Append adds its element.
LEMMA AppendRange ==
    ASSUME NEW T, NEW s \in Seq(T), NEW x \in T
    PROVE  Append(s, x) \in Seq(T) /\ Range(Append(s, x)) = Range(s) \cup {x}
<1>1. /\ Append(s, x) \in Seq(T) /\ Len(Append(s, x)) = Len(s) + 1
      /\ \A i \in 1 .. Len(s) : Append(s, x)[i] = s[i]
      /\ Append(s, x)[Len(s) + 1] = x
  BY AppendProperties
<1>2. /\ DOMAIN s = 1 .. Len(s) /\ Len(s) \in Nat
      /\ DOMAIN Append(s, x) = 1 .. Len(s) + 1
  BY <1>1, LenProperties
<1> DEFINE a == Append(s, x)
           n == Len(s)
<1>3. \A i \in 1 .. n + 1 : i \in 1 .. n \/ i = n + 1
  BY <1>2
<1>4. 1 .. n \subseteq 1 .. n + 1 /\ n + 1 \in 1 .. n + 1
  BY <1>2
<1> HIDE DEF a, n
<1>5. QED
  BY <1>1, <1>2, <1>3, <1>4 DEF Range, a, n

\* A sequence holds its head and what its tail holds.
LEMMA TailRange ==
    ASSUME NEW T, NEW s \in Seq(T), s # << >>
    PROVE  /\ Tail(s) \in Seq(T) /\ Head(s) \in T
           /\ Range(s) = {Head(s)} \cup Range(Tail(s))
           /\ Len(s) \in Nat \ {0} /\ Len(Tail(s)) = Len(s) - 1 /\ Head(s) = s[1]
           /\ \A i \in 1 .. Len(s) - 1 : Tail(s)[i] = s[i + 1]
<1>1. /\ Tail(s) \in Seq(T) /\ Head(s) \in T /\ Head(s) = s[1]
      /\ Len(Tail(s)) = Len(s) - 1 /\ Len(s) \in Nat /\ Len(s) # 0
      /\ \A i \in 1 .. Len(Tail(s)) : Tail(s)[i] = s[i + 1]
  BY HeadTailProperties, LenProperties, EmptySeq
<1>2. DOMAIN s = 1 .. Len(s) /\ DOMAIN Tail(s) = 1 .. Len(s) - 1
  BY <1>1, LenProperties
<1> DEFINE n == Len(s)
           t == Tail(s)
<1>3. /\ \A i \in 1 .. n : i = 1 \/ (i - 1 \in 1 .. n - 1 /\ i - 1 + 1 = i)
      /\ \A i \in 1 .. n - 1 : i + 1 \in 1 .. n
      /\ 1 \in 1 .. n
  BY <1>1
<1>4. \A i \in 1 .. n : i # 1 => t[i - 1] = s[i]
  BY <1>1, <1>3
<1> HIDE DEF n, t
<1>5. Range(s) = {Head(s)} \cup Range(Tail(s))
  <2>1. Range(s) \subseteq {Head(s)} \cup Range(t)
    <3>1. ASSUME NEW i \in 1 .. n PROVE s[i] \in {Head(s)} \cup Range(t)
      <4>1. CASE i = 1
        BY <1>1, <4>1
      <4>2. CASE i # 1
        <5>1. i - 1 \in DOMAIN t /\ t[i - 1] = s[i]
          BY <1>2, <1>3, <1>4, <4>2 DEF n, t
        <5>2. QED
          BY <5>1 DEF Range
      <4>3. QED
        BY <4>1, <4>2
    <3>2. QED
      BY <3>1, <1>2 DEF Range, n
  <2>2. Range(t) \subseteq Range(s)
    BY <1>1, <1>2, <1>3 DEF Range, n, t
  <2>3. Head(s) \in Range(s)
    BY <1>1, <1>2, <1>3 DEF Range, n
  <2>4. QED
    BY <2>1, <2>2, <2>3 DEF t
<1>6. QED
  BY <1>1, <1>5

\* A concatenation holds what its parts hold.
LEMMA ConcatRange ==
    ASSUME NEW T, NEW s \in Seq(T), NEW t \in Seq(T)
    PROVE  /\ s \o t \in Seq(T) /\ Len(s \o t) = Len(s) + Len(t)
           /\ Range(s \o t) = Range(s) \cup Range(t)
<1>1. /\ s \o t \in Seq(T) /\ Len(s \o t) = Len(s) + Len(t)
      /\ \A i \in 1 .. Len(s) + Len(t) :
            (s \o t)[i] = IF i <= Len(s) THEN s[i] ELSE t[i - Len(s)]
  BY ConcatProperties
<1>2. /\ DOMAIN s = 1 .. Len(s) /\ DOMAIN t = 1 .. Len(t)
      /\ DOMAIN (s \o t) = 1 .. Len(s) + Len(t) /\ Len(s) \in Nat /\ Len(t) \in Nat
  BY <1>1, LenProperties
<1> DEFINE m == Len(s)
           n == Len(t)
           c == s \o t
<1>3. /\ \A i \in 1 .. m : i \in 1 .. m + n /\ c[i] = s[i]
      /\ \A i \in 1 .. n : m + i \in 1 .. m + n /\ c[m + i] = t[i]
  <2>1. ASSUME NEW i \in 1 .. m PROVE i \in 1 .. m + n /\ c[i] = s[i]
    BY <1>1, <1>2
  <2>2. ASSUME NEW i \in 1 .. n PROVE m + i \in 1 .. m + n /\ c[m + i] = t[i]
    <3>1. m + i \in 1 .. m + n /\ ~(m + i <= m) /\ m + i - m = i
      BY <1>2
    <3>2. QED
      BY <1>1, <3>1
  <2>3. QED
    BY <2>1, <2>2
<1>4. \A i \in 1 .. m + n : (i \in 1 .. m /\ c[i] = s[i]) \/ (i - m \in 1 .. n /\ c[i] = t[i - m])
  BY <1>1, <1>2
<1> HIDE DEF m, n, c
<1>5. Range(c) = Range(s) \cup Range(t)
  <2>1. Range(c) \subseteq Range(s) \cup Range(t)
    BY <1>2, <1>4 DEF Range, m, n, c
  <2>2. Range(s) \cup Range(t) \subseteq Range(c)
    BY <1>2, <1>3 DEF Range, m, n, c
  <2>3. QED
    BY <2>1, <2>2
<1>6. QED
  BY <1>1, <1>5 DEF c

\* What Sweeps joins, for the sweeps g, as a function of how far it has come.
Joins(N, g, s) == s = [n \in 0 .. N |-> IF n = 0 THEN << >> ELSE s[n - 1] \o g[n]]

\* The joins of any sequences exist.
LEMMA JoinsExist ==
    ASSUME NEW N \in Nat, NEW g
    PROVE  \E s : Joins(N, g, s)
<1> DEFINE Good(k, s) == s[0] = << >> /\ \A n \in 1 .. k : s[n] = s[n - 1] \o g[n]
           Function(s) == s = [n \in 0 .. N |-> s[n]]
           Bad == {k \in 0 .. N : ~ \E s : Function(s) /\ Good(k, s)}
<1>0. /\ Bad \subseteq Nat /\ Bad \subseteq 0 .. N
      /\ \A k \in 0 .. N : k \notin Bad => \E s : Function(s) /\ Good(k, s)
  <2>1. 0 .. N \subseteq Nat
    OBVIOUS
  <2> HIDE DEF Good, Function
  <2>2. QED
    BY <2>1
<1>1. Bad = {}
  <2>1. SUFFICES ASSUME Bad # {} PROVE FALSE
    OBVIOUS
  <2>2. PICK b \in Bad : \A k \in Bad : b <= k
    <3> HIDE DEF Bad
    <3>1. QED
      BY <1>0, <2>1, NatMin
  <2>3. ~ \E s : Function(s) /\ Good(b, s)
    BY <2>2
  <2>4. CASE b = 0
    <3>1. Function([n \in 0 .. N |-> << >>]) /\ Good(b, [n \in 0 .. N |-> << >>])
      BY <2>4
    <3> HIDE DEF Good, Function
    <3>2. QED
      BY <3>1, <2>3
  <2>5. CASE b # 0
    <3>1. b \in 1 .. N /\ b - 1 \in 0 .. N /\ b - 1 \notin Bad
      <4> HIDE DEF Bad
      <4>1. b \in 0 .. N
        BY <1>0
      <4>2. QED
        BY <4>1, <2>2, <2>5
    <3>2. PICK s : Function(s) /\ Good(b - 1, s)
      BY <3>1, <1>0
    <3> DEFINE t == [n \in 0 .. N |-> IF n = b THEN s[b - 1] \o g[b] ELSE s[n]]
    <3>3. Function(t)
      BY <3>1
    <3>4. \A n \in 1 .. b : t[n] = t[n - 1] \o g[n]
      <4> TAKE n \in 1 .. b
      <4>1. n \in 0 .. N /\ n - 1 \in 0 .. N /\ n - 1 # b
        BY <3>1
      <4>2. CASE n = b
        BY <4>1, <4>2
      <4>3. CASE n # b
        <5>1. n \in 1 .. b - 1 /\ t[n] = s[n] /\ t[n - 1] = s[n - 1]
          BY <4>1, <4>3, <3>1
        <5>2. QED
          BY <5>1, <3>2
      <4>4. QED
        BY <4>2, <4>3
    <3>5. t[0] = << >>
      BY <3>1, <3>2
    <3> HIDE DEF t, Function
    <3>6. QED
      BY <3>3, <3>4, <3>5, <2>3
  <2>6. QED
    BY <2>4, <2>5
<1>2. N \in 0 .. N /\ N \notin Bad
  <2> HIDE DEF Bad
  <2>1. QED
    BY <1>1
<1>3. PICK s : Function(s) /\ Good(N, s)
  BY <1>2, <1>0
<1>4. \A n \in 0 .. N : s[n] = IF n = 0 THEN << >> ELSE s[n - 1] \o g[n]
  <2>1. \A n \in 0 .. N : n = 0 \/ n \in 1 .. N
    OBVIOUS
  <2>2. s[0] = << >> /\ \A n \in 1 .. N : s[n] = s[n - 1] \o g[n] /\ n # 0
    BY <1>3
  <2>3. QED
    BY <2>1, <2>2
<1>5. s = [n \in 0 .. N |-> s[n]]
  BY <1>3
<1> HIDE DEF Function, Good
<1>6. QED
  BY <1>4, <1>5 DEF Joins

-----------------------------------------------------------------------------
(* The uniformized catalog *)

Stages == {"read", "place", "startree", "hpquads", "pass", "loosen", "writequads",
           "failed", "codetree", "unpermute-stars", "unpermute-quads", "done"}

\* The catalog's variables have their types.
CatalogTypeOK ==
    /\ at \in Skies /\ p \in Params /\ stage \in Stages
    /\ inorder \in Seq(Rows)
    /\ lists \in [Cells -> Seq(Rows)]
    /\ uniform \in Seq(Rows)

\* The numbers that the catalog is computed from, in their types.
LEMMA CatalogNumbers ==
    ASSUME CatalogTypeOK
    PROVE  /\ \A r \in Rows : at[r] \in 0 .. MaxPos /\ Cell(r) \in Cells /\ Mag[r] \in Nat
           /\ \A r, s \in Rows : Mag[r] = Mag[s] => r = s
           /\ \A r, s \in Rows : Distance(r, s) \in Nat /\ Distance(r, s) = Distance(s, r)
           /\ Cells \subseteq Nat /\ IsFiniteSet(Cells)
           /\ Rows \subseteq Nat /\ IsFiniteSet(Rows)
           /\ p.sweeps \in Nat /\ p.dedup \in 0 .. CellWidth
<1>1. at \in [Rows -> 0 .. MaxPos] /\ MaxPos \in Nat /\ CellWidth \in Nat \ {0} /\ NRows \in Nat
  BY SkyAssumption, GridAssumption DEF CatalogTypeOK
<1>2. ASSUME NEW n \in 0 .. MaxPos PROVE n \div CellWidth \in 0 .. MaxPos \div CellWidth
  BY <1>1
<1>3. \A r \in Rows : at[r] \in 0 .. MaxPos /\ Cell(r) \in Cells
  BY <1>1, <1>2 DEF Cell, Cells
<1>4. MaxPos \div CellWidth \in Nat
  BY <1>1
<1>5. Cells \subseteq Nat /\ IsFiniteSet(Cells)
  BY <1>4, FS_Interval DEF Cells
<1>6. Rows \subseteq Nat /\ IsFiniteSet(Rows)
  BY <1>1, IntervalSize DEF Rows
<1>7. /\ \A r \in Rows : Mag[r] \in Nat
      /\ \A r, s \in Rows : Mag[r] = Mag[s] => r = s
  BY RowsAssumption DEF IsInjective
<1>8. ASSUME NEW r \in Rows, NEW s \in Rows
      PROVE  Distance(r, s) \in Nat /\ Distance(r, s) = Distance(s, r)
  <2>1. at[r] \in Int /\ at[s] \in Int
    BY <1>3
  <2>2. QED
    BY <2>1 DEF Distance
<1>9. p.sweeps \in Nat /\ p.dedup \in 0 .. CellWidth
  BY DedupAssumption, OptionsAssumption DEF CatalogTypeOK
<1>10. QED
  BY <1>3, <1>5, <1>6, <1>7, <1>8, <1>9

\* Stars in cells that are no neighbours are farther apart than a cell is wide.
LEMMA FarCells ==
    ASSUME CatalogTypeOK, NEW r \in Rows, NEW s \in Rows,
           Cell(s) \notin {Cell(r) - 1, Cell(r), Cell(r) + 1}
    PROVE  Distance(r, s) > CellWidth
<1> DEFINE W == CellWidth
           c == at[r] \div W
           d == at[s] \div W
<1>1. W \in Nat \ {0} /\ at[r] \in Nat /\ at[s] \in Nat
  BY GridAssumption, CatalogNumbers
<1>2. /\ c \in Int /\ at[r] - W * c \in 0 .. W - 1
      /\ d \in Int /\ at[s] - W * d \in 0 .. W - 1
  <2>1. ASSUME NEW n \in Nat, NEW w \in Nat \ {0}
        PROVE  n \div w \in Int /\ n - w * (n \div w) \in 0 .. w - 1
    OBVIOUS
  <2>2. QED
    BY <1>1, <2>1
<1>3. c - d >= 2 \/ d - c >= 2
  BY <1>2 DEF Cell
<1>4. \A x, y \in Int : x - y >= 2 => W * x - W * y >= 2 * W
  <2>1. ASSUME NEW x \in Int, NEW y \in Int, x - y >= 2 PROVE W * x - W * y >= 2 * W
    <3>1. \A k \in Nat : W * (y + 2 + k) = W * y + 2 * W + W * k /\ W * k >= 0
      BY <1>1
    <3>2. x - y - 2 \in Nat /\ y + 2 + (x - y - 2) = x
      BY <2>1
    <3> DEFINE k == x - y - 2
    <3>3. W * x = W * y + 2 * W + W * k /\ W * k >= 0
      BY <3>1, <3>2
    <3>4. W * x \in Int /\ W * y \in Int /\ W * k \in Int
      BY <1>1, <3>2
    <3> HIDE DEF k
    <3>5. QED
      BY <3>3, <3>4, <1>1
  <2>2. QED
    BY <2>1
<1>5. W * c \in Int /\ W * d \in Int
  BY <1>1, <1>2
<1>6. W * c - W * d >= 2 * W \/ W * d - W * c >= 2 * W
  BY <1>2, <1>3, <1>4
<1>7. at[r] - at[s] > W \/ at[s] - at[r] > W
  BY <1>1, <1>2, <1>5, <1>6
<1>8. QED
  BY <1>1, <1>7 DEF Distance

\* The sort column puts rows in an order without ties.
LEMMA ByMagOrder ==
    ASSUME CatalogTypeOK, NEW S \in SUBSET Rows
    PROVE  StrictOrder(ByMag, S) /\ IsFiniteSet(S)
<1>1. \A r \in Rows : Mag[r] \in Int
  BY CatalogNumbers
<1>2. \A r, s \in Rows : r # s => Mag[r] < Mag[s] \/ Mag[s] < Mag[r]
  BY <1>1, CatalogNumbers
<1>3. \A r, s \in Rows : <<r, s>> \in ByMag <=> Mag[r] < Mag[s]
  BY DEF ByMag
<1>4. IsFiniteSet(S)
  BY CatalogNumbers, FS_Subset
<1>5. QED
  BY <1>1, <1>2, <1>3, <1>4 DEF StrictOrder

\* Sweep k holds the k-th rows of the cells.
LEMMA SweepHolds ==
    ASSUME CatalogTypeOK, NEW k \in Nat \ {0}
    PROVE  /\ Sweep(k) \in Seq(Rows)
           /\ Range(Sweep(k)) = {lists[c][k] : c \in {d \in Cells : Len(lists[d]) >= k}}
<1> DEFINE C == {c \in Cells : Len(lists[c]) >= k}
           S == {lists[c][k] : c \in C}
<1>1. \A c \in C : c \in Cells /\ lists[c][k] \in Rows
  <2> TAKE c \in C
  <2>1. lists[c] \in Seq(Rows) /\ Len(lists[c]) >= k
    BY DEF CatalogTypeOK
  <2>2. k \in 1 .. Len(lists[c])
    BY <2>1, LenProperties
  <2>3. QED
    BY <2>1, <2>2, ElementOfSeq
<1>2. C \in SUBSET Int /\ IsFiniteSet(C)
  <2>1. C \subseteq Cells
    OBVIOUS
  <2>2. Cells \subseteq Nat /\ IsFiniteSet(Cells)
    BY CatalogNumbers
  <2> HIDE DEF C
  <2>3. IsFiniteSet(C)
    <3>1. C \in SUBSET Cells
      BY <2>1
    <3>2. QED
      BY <2>2, <3>1, FS_Subset
  <2>4. QED
    BY <2>1, <2>2, <2>3
<1>3. S \in SUBSET Rows
  BY <1>1
<1>4. CASE p.sorted
  <2> DEFINE s == InOrderOf(ByMag, S)
  <2>1. StrictOrder(ByMag, S) /\ IsFiniteSet(S)
    BY <1>3, ByMagOrder
  <2> HIDE DEF S
  <2>2. /\ s \in Seq(S)
        /\ \A i \in 1 .. Len(s) : s[i] \in S
        /\ \A x \in S : \E i \in 1 .. Len(s) : s[i] = x
    BY <2>1, Sorting
  <2>3. DOMAIN s = 1 .. Len(s)
    BY <2>2, LenProperties
  <2>4. Sweep(k) = s
    BY <1>4 DEF Sweep, S
  <2> HIDE DEF s
  <2>5. Range(s) = S
    BY <2>2, <2>3 DEF Range
  <2>6. s \in Seq(Rows)
    <3>1. s \in [1 .. Len(s) -> Rows] /\ Len(s) \in Nat
      <4>1. s \in [1 .. Len(s) -> S] /\ Len(s) \in Nat
        BY <2>2, LenProperties
      <4>2. QED
        BY <4>1, <1>3
    <3>2. QED
      BY <3>1, FunctionIsSequence
  <2>7. QED
    BY <2>4, <2>5, <2>6 DEF S
<1>5. CASE ~p.sorted
  <2> DEFINE order == Increasing(C)
             n == Len(order)
             s == [i \in 1 .. n |-> lists[order[i]][k]]
  <2> HIDE DEF C
  <2>1. /\ n \in Nat /\ \A i \in 1 .. n : order[i] \in C
        /\ \A x \in C : \E i \in 1 .. n : order[i] = x
    BY <1>2, IncreasingNumbers
  <2>2. Sweep(k) = s
    BY <1>5 DEF Sweep, C
  <2> HIDE DEF order, n
  <2>3. s \in [1 .. n -> Rows]
    BY <2>1, <1>1
  <2>4. s \in Seq(Rows)
    BY <2>1, <2>3, FunctionIsSequence
  <2>5. Range(s) = S
    <3>1. DOMAIN s = 1 .. n /\ \A i \in 1 .. n : s[i] = lists[order[i]][k]
      OBVIOUS
    <3> HIDE DEF s
    <3>2. QED
      BY <2>1, <3>1 DEF Range
  <2>6. QED
    BY <2>2, <2>4, <2>5 DEF C
<1>6. QED
  BY <1>4, <1>5

\* The sweeps together hold every row of a cell up to the last sweep.
LEMMA SweepsHold ==
    ASSUME CatalogTypeOK
    PROVE  /\ Sweeps[p.sweeps] \in Seq(Rows)
           /\ Range(Sweeps[p.sweeps]) =
                 {r \in Rows : \E c \in Cells : \E k \in 1 .. p.sweeps :
                                   k <= Len(lists[c]) /\ r = lists[c][k]}
<1> DEFINE N == p.sweeps
           g == [n \in 1 .. N |-> Sweep(n)]
           Held(n) == {r \in Rows : \E c \in Cells : \E k \in 1 .. n :
                                        k <= Len(lists[c]) /\ r = lists[c][k]}
<1>1. N \in Nat
  BY CatalogNumbers
<1>2. Sweeps = CHOOSE s : Joins(N, g, s)
  <2>1. \A s : [n \in 0 .. N |-> IF n = 0 THEN << >> ELSE s[n - 1] \o Sweep(n)]
                 = [n \in 0 .. N |-> IF n = 0 THEN << >> ELSE s[n - 1] \o g[n]]
    <3>1. \A n \in 0 .. N : n = 0 \/ g[n] = Sweep(n)
      BY <1>1
    <3>2. QED
      BY <3>1
  <2>2. QED
    BY <2>1 DEF Sweeps, Joins
<1>3. Joins(N, g, Sweeps)
  BY <1>1, <1>2, JoinsExist
<1>4. \A n \in 0 .. N : Sweeps[n] = IF n = 0 THEN << >> ELSE Sweeps[n - 1] \o Sweep(n)
  <2>1. \A n \in 0 .. N : n # 0 => g[n] = Sweep(n)
    BY <1>1
  <2> HIDE DEF g
  <2>2. \A n \in 0 .. N : Sweeps[n] = IF n = 0 THEN << >> ELSE Sweeps[n - 1] \o g[n]
    BY <1>3 DEF Joins
  <2>3. QED
    BY <2>1, <2>2
<1> DEFINE Good(n) == Sweeps[n] \in Seq(Rows) /\ Range(Sweeps[n]) = Held(n)
           Bad == {n \in 0 .. N : ~Good(n)}
<1>5. Bad = {}
  <2>1. SUFFICES ASSUME Bad # {} PROVE FALSE
    OBVIOUS
  <2>2. PICK b \in Bad : \A k \in Bad : b <= k
    <3>1. Bad \subseteq Nat
      <4>1. 0 .. N \subseteq Nat
        BY <1>1
      <4> HIDE DEF Good
      <4>2. QED
        BY <4>1
    <3> HIDE DEF Bad
    <3>2. QED
      BY <2>1, <3>1, NatMin
  <2>3. b \in 0 .. N /\ ~Good(b) /\ (b # 0 => Good(b - 1))
    <3>1. b \in 0 .. N /\ ~Good(b)
      BY <2>2
    <3>2. \A n \in 0 .. N : n \notin Bad => Good(n)
      OBVIOUS
    <3> HIDE DEF Good, Bad
    <3>3. b # 0 => b - 1 \in 0 .. N /\ b - 1 \notin Bad
      BY <1>1, <2>2, <3>1
    <3>4. QED
      BY <3>1, <3>2, <3>3
  <2>4. b # 0
    <3>1. ASSUME b = 0 PROVE FALSE
      <4>1. Sweeps[b] = << >> /\ Held(b) = {}
        BY <3>1, <1>4, <2>3
      <4>2. << >> \in Seq(Rows) /\ Range(<< >>) = {}
        BY DEF Range
      <4>3. QED
        BY <4>1, <4>2, <2>3
    <3>2. QED
      BY <3>1
  <2>5. b \in 1 .. N /\ b \in Nat \ {0} /\ Sweeps[b] = Sweeps[b - 1] \o Sweep(b)
    <3>1. b \in 0 .. N
      BY <2>3
    <3>2. b \in 1 .. N /\ b \in Nat \ {0}
      BY <1>1, <3>1, <2>4
    <3>3. Sweeps[b] = Sweeps[b - 1] \o Sweep(b)
      BY <1>4, <3>1, <2>4
    <3>4. QED
      BY <3>2, <3>3
  <2>6. /\ Sweep(b) \in Seq(Rows)
        /\ Range(Sweep(b)) = {lists[c][b] : c \in {d \in Cells : Len(lists[d]) >= b}}
    BY <2>5, SweepHolds
  <2>7. Sweeps[b - 1] \in Seq(Rows) /\ Range(Sweeps[b - 1]) = Held(b - 1)
    BY <2>3, <2>4
  <2>8. /\ Sweeps[b] \in Seq(Rows)
        /\ Range(Sweeps[b]) = Range(Sweeps[b - 1]) \cup Range(Sweep(b))
    BY <2>5, <2>6, <2>7, ConcatRange
  <2>9. Held(b) = Held(b - 1) \cup Range(Sweep(b))
    <3>1. \A k \in 1 .. b : k \in 1 .. b - 1 \/ k = b
      BY <2>5
    <3>2. 1 .. b - 1 \subseteq 1 .. b /\ b \in 1 .. b
      BY <2>5
    <3>3. \A c \in Cells : Len(lists[c]) \in Nat
      BY LenProperties DEF CatalogTypeOK
    <3>4. \A c \in Cells : b <= Len(lists[c]) <=> Len(lists[c]) >= b
      BY <2>5, <3>3
    <3>5. Range(Sweep(b)) \subseteq Rows
      BY <2>6, ElementOfSeq, LenProperties DEF Range
    <3>6. Range(Sweep(b)) = {r \in Rows : \E c \in Cells : b <= Len(lists[c]) /\ r = lists[c][b]}
      BY <2>6, <3>4, <3>5
    <3>7. QED
      BY <3>1, <3>2, <3>6
  <2>10. QED
    BY <2>3, <2>7, <2>8, <2>9
<1>6. N \in 0 .. N /\ N \notin Bad
  <2> HIDE DEF Bad
  <2>1. QED
    BY <1>1, <1>5
<1>7. Good(N)
  BY <1>6
<1>8. QED
  BY <1>7

\* A cell's list holds rows of that cell, brightest first, and no more than there
\* are sweeps.
CellsHoldTheirRows == \A c \in Cells : \A r \in Range(lists[c]) : Cell(r) = c
BrightestFirst ==
    \A c \in Cells : \A i, j \in DOMAIN lists[c] :
        i < j => Brighter(lists[c][i], lists[c][j])
ListsFit == p.sweeps # 0 => \A c \in Cells : Len(lists[c]) <= p.sweeps

\* No two rows in the lists are close, though only neighbours are compared.
ListsApart ==
    p.dedup > 0 =>
        \A c, d \in Cells : \A r \in Range(lists[c]), s \in Range(lists[d]) :
            r # s => Distance(r, s) > p.dedup

\* The rows still to come are in order, and all in the lists are before them.
DimmerToCome ==
    stage \in {"read", "place"} =>
        /\ \A m, n \in DOMAIN inorder : m < n => Brighter(inorder[m], inorder[n])
        /\ \A c \in Cells : \A r \in Range(lists[c]) : \A n \in DOMAIN inorder :
               Brighter(r, inorder[n])

\* Nothing has been placed before the catalog is read.
NothingRead == stage = "read" => inorder = << >> /\ \A c \in Cells : lists[c] = << >>

\* Why row r was left out: its cell was full, or a row placed before is too close.
CellFull(r) ==
    /\ p.sweeps # 0 /\ Len(lists[Cell(r)]) >= p.sweeps
    /\ \A s \in Range(lists[Cell(r)]) : Brighter(s, r)
TooClose(r) ==
    /\ p.dedup > 0
    /\ \E c \in Cells : \E s \in Range(lists[c]) : Brighter(s, r) /\ Distance(r, s) <= p.dedup

\* Every row that belongs into the catalog is still to come, is in the list of its
\* cell, or was left out for a reason.
Wanted(r) == AboveCut(r) /\ (AllSky \/ ~Outside(Cell(r)))
Accounted ==
    stage = "place" =>
        \A r \in Rows : Wanted(r) =>
            r \in Range(inorder) \/ r \in Range(lists[Cell(r)]) \/ CellFull(r) \/ TooClose(r)

CatalogInv ==
    /\ CellsHoldTheirRows /\ BrightestFirst /\ ListsFit /\ ListsApart
    /\ DimmerToCome /\ NothingRead /\ Accounted
    /\ NoCloseStars /\ KeepsBrightest

\* The brightness order has no ties and no cycles.
LEMMA BrighterOrder ==
    ASSUME CatalogTypeOK
    PROVE  /\ \A r, s, t \in Rows : Brighter(r, s) /\ Brighter(s, t) => Brighter(r, t)
           /\ \A r \in Rows : ~Brighter(r, r)
<1>1. \A r \in Rows : Mag[r] \in Int /\ r \in Int
  BY CatalogNumbers
<1>2. QED
  BY <1>1 DEF Brighter

\* Everything holds before the first step.
LEMMA CatalogInit_Inv == CatalogInit => CatalogTypeOK /\ CatalogInv
<1> SUFFICES ASSUME CatalogInit PROVE CatalogTypeOK /\ CatalogInv
  OBVIOUS
<1>1. NRows \in Nat /\ \A q \in Params : q.shared \in BOOLEAN
  BY GridAssumption, OptionsAssumption
<1>2. \A n \in DOMAIN << >> : FALSE
  OBVIOUS
<1>3. << >> \in Seq(Rows) /\ Range(<< >>) = {} /\ Len(<< >>) = 0
  BY DEF Range
<1>4. [i \in Rows |-> i] \in Seq(Rows)
  BY <1>1, FunctionIsSequence DEF Rows
<1>5. CatalogTypeOK
  BY <1>1, <1>3, <1>4 DEF CatalogInit, CatalogTypeOK, Stages
<1>6. \A c \in Cells : lists[c] = << >>
  BY DEF CatalogInit
<1>7. inorder = << >>
  BY DEF CatalogInit
<1>8. CellsHoldTheirRows /\ BrightestFirst /\ ListsApart
  BY <1>2, <1>3, <1>6 DEF CellsHoldTheirRows, BrightestFirst, ListsApart
<1>9. ListsFit
  <2>1. p.sweeps \in Nat
    BY <1>5, CatalogNumbers
  <2>2. QED
    BY <2>1, <1>3, <1>6 DEF ListsFit
<1>10. DimmerToCome /\ NothingRead
  BY <1>2, <1>6, <1>7 DEF DimmerToCome, NothingRead
<1>11. Accounted
  BY DEF CatalogInit, Accounted
<1>12. NoCloseStars /\ KeepsBrightest
  BY <1>5 DEF CatalogInit, NoCloseStars, KeepsBrightest, Uniformized, CatalogTypeOK
<1>13. QED
  BY <1>5, <1>8, <1>9, <1>10, <1>11, <1>12 DEF CatalogInv

\* Reading puts every wanted row in order.
LEMMA ReadCatalog_Inv ==
    CatalogTypeOK /\ CatalogInv /\ ReadCatalog => CatalogTypeOK' /\ CatalogInv'
<1> SUFFICES ASSUME CatalogTypeOK, CatalogInv, ReadCatalog
             PROVE  CatalogTypeOK' /\ CatalogInv'
  OBVIOUS
<1>1. /\ stage = "read" /\ stage' = "place"
      /\ at' = at /\ p' = p /\ lists' = lists /\ uniform' = uniform
      /\ \A c \in Cells : lists[c] = << >>
  BY DEF ReadCatalog, CatalogInv, NothingRead
<1>2. /\ inorder' \in Seq(Rows)
      /\ \A r \in Rows : AboveCut(r) => r \in Range(inorder')
      /\ \A m, n \in DOMAIN inorder' : m < n => Brighter(inorder'[m], inorder'[n])
  <2>1. CASE p.sorted
    <3> DEFINE S == {r \in Rows : Mag[r] > p.brightcut}
               s == InOrderOf(ByMag, S)
    <3>1. StrictOrder(ByMag, S) /\ IsFiniteSet(S)
      BY ByMagOrder
    <3>2. S \subseteq Rows /\ \A r \in Rows : AboveCut(r) => r \in S
      BY <2>1 DEF AboveCut
    <3> HIDE DEF S
    <3>3. /\ s \in Seq(S)
          /\ \A i \in 1 .. Len(s) : s[i] \in S
          /\ \A x \in S : \E i \in 1 .. Len(s) : s[i] = x
          /\ \A i, j \in 1 .. Len(s) : i < j <=> <<s[i], s[j]>> \in ByMag
      BY <3>1, Sorting
    <3>4. DOMAIN s = 1 .. Len(s) /\ Len(s) \in Nat
      BY <3>3, LenProperties
    <3>5. inorder' = s
      BY <2>1 DEF ReadCatalog, S
    <3> HIDE DEF s
    <3>6. s \in Seq(Rows)
      <4>1. s \in [1 .. Len(s) -> Rows]
        <5>1. s \in [1 .. Len(s) -> S]
          BY <3>3, LenProperties
        <5>2. QED
          BY <5>1, <3>2
      <4>2. QED
        BY <3>4, <4>1, FunctionIsSequence
    <3>7. \A m, n \in DOMAIN s : m < n => Brighter(s[m], s[n])
      BY <2>1, <3>3, <3>4 DEF ByMag, Brighter
    <3>8. \A r \in S : r \in Range(s)
      BY <3>3, <3>4 DEF Range
    <3>9. QED
      BY <3>2, <3>5, <3>6, <3>7, <3>8
  <2>2. CASE ~p.sorted
    <3>1. inorder' = [i \in Rows |-> i]
      BY <2>2 DEF ReadCatalog
    <3>2. [i \in Rows |-> i] \in Seq(Rows)
      BY GridAssumption, FunctionIsSequence DEF Rows
    <3>3. \A r \in Rows : r \in Range([i \in Rows |-> i])
      BY DEF Range
    <3>4. QED
      BY <2>2, <3>1, <3>2, <3>3 DEF Brighter
  <2>3. QED
    BY <2>1, <2>2
<1>3. CatalogTypeOK'
  BY <1>1, <1>2 DEF CatalogTypeOK, Stages
<1>4. Range(<< >>) = {} /\ \A n \in DOMAIN << >> : FALSE
  BY DEF Range
<1>5. CellsHoldTheirRows' /\ BrightestFirst' /\ ListsApart'
  BY <1>1, <1>4 DEF CellsHoldTheirRows, BrightestFirst, ListsApart
<1>6. ListsFit'
  BY <1>1 DEF ListsFit, CatalogInv
<1>7. DimmerToCome'
  <2>1. \A r, s : Brighter(r, s)' <=> Brighter(r, s)
    BY <1>1 DEF Brighter
  <2>2. \A c \in Cells : Range(lists'[c]) = {}
    BY <1>1, <1>4
  <2>3. QED
    BY <1>2, <2>1, <2>2 DEF DimmerToCome
<1>8. NothingRead'
  BY <1>1 DEF NothingRead
<1>9. Accounted'
  <2>1. \A r : AboveCut(r)' <=> AboveCut(r)
    BY <1>1 DEF AboveCut
  <2>2. QED
    BY <1>2, <2>1 DEF Accounted, Wanted
<1>10. NoCloseStars' /\ KeepsBrightest'
  BY <1>1 DEF NoCloseStars, KeepsBrightest, Uniformized
<1>11. QED
  BY <1>3, <1>5, <1>6, <1>7, <1>8, <1>9, <1>10 DEF CatalogInv

\* Placing a row keeps the lists in order and apart, and leaves it out for a reason.
LEMMA Place_Inv ==
    CatalogTypeOK /\ CatalogInv /\ Place => CatalogTypeOK' /\ CatalogInv'
<1> SUFFICES ASSUME CatalogTypeOK, CatalogInv, Place
             PROVE  CatalogTypeOK' /\ CatalogInv'
  OBVIOUS
<1> DEFINE r == Head(inorder)
           home == Cell(r)
           keep == /\ InBounds(home)
                   /\ p.sweeps = 0 \/ Len(lists[home]) < p.sweeps
                   /\ ~(p.dedup > 0 /\ IsDuplicate(r))
<1>1. /\ stage = "place" /\ inorder # << >> /\ inorder' = Tail(inorder)
      /\ lists' = IF keep THEN [lists EXCEPT ![home] = Append(@, r)] ELSE lists
      /\ at' = at /\ p' = p /\ stage' = stage /\ uniform' = uniform
  BY DEF Place
<1>2. inorder \in Seq(Rows)
  BY DEF CatalogTypeOK
<1>3. /\ inorder' \in Seq(Rows) /\ r \in Rows
      /\ Range(inorder) = {r} \cup Range(inorder')
      /\ Len(inorder) \in Nat \ {0} /\ Len(inorder') = Len(inorder) - 1 /\ r = inorder[1]
      /\ \A i \in 1 .. Len(inorder) - 1 : inorder'[i] = inorder[i + 1]
  BY <1>1, <1>2, TailRange
<1>4. home \in Cells /\ lists[home] \in Seq(Rows)
  BY <1>3, CatalogNumbers DEF CatalogTypeOK
<1>5. /\ Append(lists[home], r) \in Seq(Rows)
      /\ Range(Append(lists[home], r)) = Range(lists[home]) \cup {r}
      /\ Len(Append(lists[home], r)) = Len(lists[home]) + 1
      /\ \A i \in 1 .. Len(lists[home]) : Append(lists[home], r)[i] = lists[home][i]
      /\ Append(lists[home], r)[Len(lists[home]) + 1] = r
  BY <1>3, <1>4, AppendRange, AppendProperties
<1> HIDE DEF keep, r
<1>6. /\ \A c \in Cells : c # home \/ ~keep => lists'[c] = lists[c]
      /\ keep => lists'[home] = Append(lists[home], r)
  BY <1>1, <1>4 DEF CatalogTypeOK
<1>7. \A c \in Cells : /\ Range(lists[c]) \subseteq Range(lists'[c])
                       /\ Range(lists'[c]) \subseteq Range(lists[c]) \cup {r}
                       /\ r \in Range(lists'[c]) /\ r \notin Range(lists[c]) => keep /\ c = home
  BY <1>5, <1>6
<1>8. CatalogTypeOK'
  <2>1. lists' \in [Cells -> Seq(Rows)]
    BY <1>1, <1>4, <1>5 DEF CatalogTypeOK
  <2>2. QED
    BY <1>1, <1>3, <2>1 DEF CatalogTypeOK
<1>9. /\ \A x, y : Brighter(x, y)' <=> Brighter(x, y)
      /\ \A x, y : Distance(x, y)' = Distance(x, y)
      /\ \A x : Cell(x)' = Cell(x)
  BY <1>1 DEF Brighter, Distance, Cell
<1>10. \A c \in Cells : \A s \in Range(lists[c]) : s \in Rows /\ Brighter(s, r)
  <2>1. 1 \in DOMAIN inorder
    BY <1>2, <1>3, LenProperties
  <2>2. ASSUME NEW c \in Cells, NEW s \in Range(lists[c]) PROVE s \in Rows
    <3>1. lists[c] \in Seq(Rows)
      BY DEF CatalogTypeOK
    <3>2. QED
      BY <3>1, ElementOfSeq, LenProperties DEF Range
  <2>3. QED
    BY <1>1, <1>3, <2>1, <2>2 DEF CatalogInv, DimmerToCome
<1>11. CellsHoldTheirRows'
  <2>1. \A c \in Cells : \A s \in Range(lists'[c]) : Cell(s) = c
    BY <1>7 DEF CatalogInv, CellsHoldTheirRows
  <2>2. QED
    BY <1>9, <2>1 DEF CellsHoldTheirRows
<1>12. BrightestFirst'
  <2>1. ASSUME NEW c \in Cells, NEW i \in DOMAIN lists'[c], NEW j \in DOMAIN lists'[c], i < j
        PROVE  Brighter(lists'[c][i], lists'[c][j])
    <3>1. CASE lists'[c] = lists[c]
      BY <2>1, <3>1 DEF CatalogInv, BrightestFirst
    <3>2. CASE lists'[c] # lists[c]
      <4> DEFINE s == lists[home]
                 t == Append(lists[home], r)
      <4>1. c = home /\ lists'[c] = t
        BY <3>2, <1>6
      <4>2. /\ DOMAIN s = 1 .. Len(s) /\ Len(s) \in Nat /\ DOMAIN t = 1 .. Len(s) + 1
            /\ \A k \in 1 .. Len(s) : t[k] = s[k]
            /\ t[Len(s) + 1] = r
        BY <1>4, <1>5, LenProperties
      <4>3. i \in DOMAIN t /\ j \in DOMAIN t
        BY <4>1
      <4> HIDE DEF s, t
      <4>4. i \in 1 .. Len(s) /\ t[i] = s[i] /\ s[i] \in Range(s)
        BY <4>2, <4>3, <2>1 DEF Range
      <4>5. CASE j \in 1 .. Len(s)
        BY <4>1, <4>2, <4>4, <4>5, <2>1, <1>4 DEF CatalogInv, BrightestFirst, s
      <4>6. CASE j = Len(s) + 1
        BY <4>1, <4>2, <4>4, <4>6, <1>4, <1>10 DEF s
      <4>7. QED
        BY <4>2, <4>3, <4>5, <4>6
    <3>3. QED
      BY <3>1, <3>2
  <2>2. QED
    BY <1>9, <2>1 DEF BrightestFirst
<1>13. ListsFit'
  <2>1. p.sweeps \in Nat /\ \A c \in Cells : Len(lists[c]) \in Nat
    BY CatalogNumbers, LenProperties DEF CatalogTypeOK
  <2>2. ASSUME p.sweeps # 0, NEW c \in Cells PROVE Len(lists'[c]) <= p.sweeps
    <3>1. CASE keep /\ c = home
      BY <3>1, <2>1, <2>2, <1>5, <1>6 DEF keep
    <3>2. CASE ~(keep /\ c = home)
      BY <3>2, <2>2, <1>6 DEF CatalogInv, ListsFit
    <3>3. QED
      BY <3>1, <3>2
  <2>3. QED
    BY <1>1, <2>2 DEF ListsFit
<1>14. ListsApart'
  <2>1. ASSUME p.dedup > 0, keep, NEW d \in Cells, NEW s \in Range(lists[d]), s # r
        PROVE  Distance(r, s) > p.dedup /\ Distance(s, r) > p.dedup
    <3>1. s \in Rows /\ Cell(s) = d
      BY <1>10 DEF CatalogInv, CellsHoldTheirRows
    <3>2. CASE d \in {home - 1, home, home + 1}
      <4>1. ~(Distance(r, s) <= p.dedup)
        BY <2>1, <3>2 DEF keep, IsDuplicate
      <4>2. QED
        BY <4>1, <3>1, <1>3, CatalogNumbers
    <3>3. CASE d \notin {home - 1, home, home + 1}
      <4>1. Distance(r, s) > CellWidth
        BY <3>1, <3>3, <1>3, FarCells
      <4>2. p.dedup \in 0 .. CellWidth /\ CellWidth \in Nat
        BY CatalogNumbers, GridAssumption
      <4>3. Distance(r, s) \in Nat /\ Distance(r, s) = Distance(s, r)
        BY <3>1, <1>3, CatalogNumbers
      <4>4. QED
        BY <4>1, <4>2, <4>3
    <3>4. QED
      BY <3>2, <3>3
  <2>2. ASSUME p.dedup > 0, NEW c \in Cells, NEW d \in Cells,
               NEW x \in Range(lists'[c]), NEW y \in Range(lists'[d]), x # y
        PROVE  Distance(x, y) > p.dedup
    <3>1. CASE x \in Range(lists[c]) /\ y \in Range(lists[d])
      BY <3>1, <2>2 DEF CatalogInv, ListsApart
    <3>2. CASE x \notin Range(lists[c])
      <4>1. x = r /\ keep /\ y \in Range(lists[d])
        BY <3>2, <2>2, <1>7
      <4>2. QED
        BY <4>1, <2>1, <2>2
    <3>3. CASE y \notin Range(lists[d])
      <4>1. y = r /\ keep /\ x \in Range(lists[c])
        BY <3>3, <2>2, <1>7
      <4>2. QED
        BY <4>1, <2>1, <2>2
    <3>4. QED
      BY <3>1, <3>2, <3>3
  <2>3. QED
    BY <1>1, <1>9, <2>2 DEF ListsApart
<1>15. DimmerToCome'
  <2>1. \A n \in DOMAIN inorder' : n + 1 \in DOMAIN inorder /\ inorder'[n] = inorder[n + 1]
                                   /\ 1 < n + 1 /\ n \in Nat
    <3>1. DOMAIN inorder = 1 .. Len(inorder) /\ DOMAIN inorder' = 1 .. Len(inorder) - 1
      BY <1>2, <1>3, LenProperties
    <3>2. QED
      BY <1>3, <3>1
  <2>2. 1 \in DOMAIN inorder
    BY <1>2, <1>3, LenProperties
  <2>3. \A m, n \in DOMAIN inorder : m < n => Brighter(inorder[m], inorder[n])
    BY <1>1 DEF CatalogInv, DimmerToCome
  <2>4. \A m, n \in DOMAIN inorder' : m < n => Brighter(inorder'[m], inorder'[n])
    <3>1. TAKE m, n \in DOMAIN inorder'
    <3>2. HAVE m < n
    <3>3. m + 1 < n + 1
      BY <2>1, <3>2
    <3>4. QED
      BY <2>1, <2>3, <3>3
  <2>5. \A n \in DOMAIN inorder' : Brighter(r, inorder'[n])
    BY <2>1, <2>2, <2>3, <1>3
  <2>6. \A c \in Cells : \A s \in Range(lists[c]) : \A n \in DOMAIN inorder : Brighter(s, inorder[n])
    BY <1>1 DEF CatalogInv, DimmerToCome
  <2>7. \A c \in Cells : \A s \in Range(lists'[c]) : \A n \in DOMAIN inorder' :
            Brighter(s, inorder'[n])
    BY <2>1, <2>5, <2>6, <1>7
  <2>8. QED
    BY <1>9, <2>4, <2>7 DEF DimmerToCome
<1>16. NothingRead'
  BY <1>1 DEF NothingRead
<1>17. Accounted'
  <2>1. \A x : Wanted(x)' <=> Wanted(x)
    BY <1>1, <1>9 DEF Wanted, AboveCut, AllSky, Outside
  <2>2. ASSUME NEW x \in Rows, Wanted(x)
        PROVE  \/ x \in Range(inorder') \/ x \in Range(lists'[Cell(x)])
               \/ CellFull(x)' \/ TooClose(x)'
    <3>0. Cell(x) \in Cells
      BY CatalogNumbers
    <3>1. CASE x \in Range(inorder) /\ x # r
      BY <3>1, <1>3
    <3>2. CASE x \in Range(lists[Cell(x)])
      BY <3>0, <3>2, <1>7
    <3>3. CASE x = r
      <4>1. InBounds(home)
        BY <2>2, <3>3 DEF Wanted, InBounds
      <4>2. CASE keep
        BY <3>3, <4>2, <1>5, <1>6
      <4>3. CASE ~keep /\ p.dedup > 0 /\ IsDuplicate(r)
        <5>1. PICK c \in Cells : \E s \in Range(lists[c]) : Distance(r, s) <= p.dedup
          BY <4>3 DEF IsDuplicate
        <5>2. PICK s \in Range(lists[c]) : Distance(r, s) <= p.dedup
          BY <5>1
        <5>3. s \in Range(lists'[c]) /\ Brighter(s, r)
          BY <5>2, <1>7, <1>10
        <5>4. TooClose(x)'
          BY <3>3, <4>3, <5>2, <5>3, <1>1, <1>9 DEF TooClose
        <5>5. QED
          BY <5>4
      <4>4. CASE ~keep /\ ~(p.dedup > 0 /\ IsDuplicate(r))
        <5>1. p.sweeps # 0 /\ ~(Len(lists[home]) < p.sweeps)
          BY <4>1, <4>4 DEF keep
        <5>2. p.sweeps \in Nat /\ Len(lists[home]) \in Nat
          BY CatalogNumbers, <1>4, LenProperties
        <5>3. lists'[home] = lists[home] /\ \A s \in Range(lists[home]) : Brighter(s, r)
          BY <4>4, <1>4, <1>6, <1>10
        <5>4. CellFull(x)'
          BY <3>3, <5>1, <5>2, <5>3, <1>1, <1>9 DEF CellFull
        <5>5. QED
          BY <5>4
      <4>5. QED
        BY <4>2, <4>3, <4>4
    <3>4. CASE CellFull(x)
      <4>1. p.sweeps # 0 /\ Len(lists[Cell(x)]) >= p.sweeps
        BY <3>4 DEF CellFull
      <4>2. p.sweeps \in Nat /\ Len(lists[Cell(x)]) \in Nat
        BY <3>0, CatalogNumbers, LenProperties DEF CatalogTypeOK
      <4>3. lists'[Cell(x)] = lists[Cell(x)]
        <5>1. CASE keep /\ Cell(x) = home
          BY <5>1, <4>1, <4>2 DEF keep
        <5>2. QED
          BY <3>0, <5>1, <1>6
      <4>4. CellFull(x)'
        BY <3>4, <4>3, <1>1, <1>9 DEF CellFull
      <4>5. QED
        BY <4>4
    <3>5. CASE TooClose(x)
      <4>1. TooClose(x)'
        BY <3>5, <1>1, <1>7, <1>9 DEF TooClose
      <4>2. QED
        BY <4>1
    <3>6. QED
      BY <2>2, <3>1, <3>2, <3>3, <3>4, <3>5, <1>1 DEF CatalogInv, Accounted
  <2>3. QED
    BY <1>9, <2>1, <2>2 DEF Accounted
<1>18. NoCloseStars' /\ KeepsBrightest'
  BY <1>1 DEF NoCloseStars, KeepsBrightest, Uniformized
<1>19. QED
  BY <1>8, <1>11, <1>12, <1>13, <1>14, <1>15, <1>16, <1>17, <1>18 DEF CatalogInv

\* What a brightest-first list holds is as many rows as it is long.
LEMMA ListSize ==
    ASSUME CatalogTypeOK, BrightestFirst, NEW c \in Cells, NEW S,
           IsFiniteSet(S), Range(lists[c]) \subseteq S
    PROVE  Cardinality(S) >= Len(lists[c])
<1> DEFINE s == lists[c]
           n == Len(s)
<1>1. s \in Seq(Rows) /\ n \in Nat /\ DOMAIN s = 1 .. n
  BY LenProperties DEF CatalogTypeOK
<1>2. \A i, j \in 1 .. n : i < j => s[i] # s[j]
  BY <1>1, ElementOfSeq, BrighterOrder DEF BrightestFirst
<1>3. s \in Injection(1 .. n, S)
  <2>1. s \in [1 .. n -> S]
    <3>1. s = [i \in 1 .. n |-> s[i]] /\ \A i \in 1 .. n : s[i] \in S
      BY <1>1 DEF Range
    <3> HIDE DEF s, n
    <3>2. QED
      BY <3>1
  <2>2. \A i, j \in 1 .. n : s[i] = s[j] => i = j
    BY <1>1, <1>2
  <2> HIDE DEF s, n
  <2>3. QED
    BY <2>1, <2>2 DEF Injection, IsInjective
<1>4. IsFiniteSet(1 .. n) /\ Cardinality(1 .. n) = n
  BY <1>1, IntervalSize
<1>5. Cardinality(1 .. n) <= Cardinality(S)
  <2> HIDE DEF s, n
  <2>1. QED
    BY <1>3, FS_Injection
<1>6. QED
  BY <1>4, <1>5, <1>1, FS_CardinalityType

\* The written catalog holds what the lists hold, if there are sweeps.
LEMMA WriteSweeps_Inv ==
    CatalogTypeOK /\ CatalogInv /\ WriteSweeps => CatalogTypeOK' /\ CatalogInv'
<1> SUFFICES ASSUME CatalogTypeOK, CatalogInv, WriteSweeps
             PROVE  CatalogTypeOK' /\ CatalogInv'
  OBVIOUS
<1>1. /\ stage = "place" /\ inorder = << >> /\ uniform' = Sweeps[p.sweeps] /\ stage' = "startree"
      /\ at' = at /\ p' = p /\ inorder' = inorder /\ lists' = lists
  BY DEF WriteSweeps
<1>2. /\ uniform' \in Seq(Rows)
      /\ Range(uniform') = {r \in Rows : \E c \in Cells : \E k \in 1 .. p.sweeps :
                                             k <= Len(lists[c]) /\ r = lists[c][k]}
  BY <1>1, SweepsHold
<1>3. /\ \A x, y : Brighter(x, y)' <=> Brighter(x, y)
      /\ \A x, y : Distance(x, y)' = Distance(x, y)
      /\ \A x : Cell(x)' = Cell(x)
      /\ \A x : Wanted(x)' <=> Wanted(x)
      /\ \A x : (AboveCut(x) /\ (AllSky \/ ~Outside(Cell(x))))' <=> Wanted(x)
  BY <1>1 DEF Brighter, Distance, Cell, Wanted, AboveCut, AllSky, Outside
<1>4. CatalogTypeOK'
  BY <1>1, <1>2 DEF CatalogTypeOK, Stages
<1>5. CellsHoldTheirRows' /\ BrightestFirst' /\ ListsFit' /\ ListsApart'
  BY <1>1, <1>3
     DEF CatalogInv, CellsHoldTheirRows, BrightestFirst, ListsFit, ListsApart
<1>6. DimmerToCome' /\ NothingRead' /\ Accounted'
  BY <1>1 DEF DimmerToCome, NothingRead, Accounted
<1>7. \A c \in Cells : lists[c] \in Seq(Rows) /\ DOMAIN lists[c] = 1 .. Len(lists[c])
                       /\ Len(lists[c]) \in Nat
  BY LenProperties DEF CatalogTypeOK
<1>8. \A r \in Range(uniform') : r \in Rows /\ \E c \in Cells : r \in Range(lists[c])
  <2> TAKE r \in Range(uniform')
  <2>1. PICK c \in Cells : \E k \in 1 .. p.sweeps : k <= Len(lists[c]) /\ r = lists[c][k]
    BY <1>2
  <2>2. PICK k \in 1 .. p.sweeps : k <= Len(lists[c]) /\ r = lists[c][k]
    BY <2>1
  <2>3. k \in DOMAIN lists[c]
    BY <2>2, <1>7
  <2>4. QED
    BY <1>2, <2>2, <2>3 DEF Range
<1>9. NoCloseStars'
  <2>1. ASSUME p.dedup > 0, NEW r \in Range(uniform'), NEW s \in Range(uniform'), r # s
        PROVE  Distance(r, s) > p.dedup
    BY <2>1, <1>8 DEF CatalogInv, ListsApart
  <2>2. QED
    BY <1>1, <1>3, <2>1 DEF NoCloseStars
<1>10. ASSUME p.sweeps # 0, NEW c \in Cells
       PROVE  Range(lists[c]) \subseteq Range(uniform')
  <2>1. Len(lists[c]) <= p.sweeps /\ p.sweeps \in Nat
    BY <1>10, CatalogNumbers DEF CatalogInv, ListsFit
  <2>2. \A k \in 1 .. Len(lists[c]) : k \in 1 .. p.sweeps /\ k <= Len(lists[c]) /\ lists[c][k] \in Rows
    BY <1>7, <2>1, ElementOfSeq
  <2>3. QED
    BY <1>2, <1>7, <2>2 DEF Range
<1>11. KeepsBrightest'
  <2>1. ASSUME NEW r \in Rows \ Range(uniform'), Wanted(r),
               NEW brighter, brighter = {s \in Range(uniform') : Brighter(s, r)}
        PROVE  \/ Cardinality({s \in brighter : Cell(s) = Cell(r)}) >= p.sweeps
               \/ p.dedup > 0 /\ \E s \in brighter : Distance(r, s) <= p.dedup
    <3> DEFINE S == {s \in brighter : Cell(s) = Cell(r)}
    <3>1. IsFiniteSet(S) /\ Cardinality(S) \in Nat /\ p.sweeps \in Nat
      <4>1. S \in SUBSET Rows
        BY <2>1, <1>8
      <4> HIDE DEF S
      <4>2. QED
        BY <4>1, CatalogNumbers, FS_Subset, FS_CardinalityType
    <3>2. CASE p.sweeps = 0
      BY <3>1, <3>2
    <3>3. CASE p.sweeps # 0
      <4>0. Cell(r) \in Cells /\ r \in Rows
        BY CatalogNumbers
      <4>1. CellFull(r) \/ TooClose(r)
        <5>1. r \notin Range(inorder)
          BY <1>1 DEF Range
        <5>2. r \notin Range(lists[Cell(r)])
          BY <3>3, <4>0, <1>10
        <5>3. QED
          BY <5>1, <5>2, <4>0, <2>1, <1>1 DEF CatalogInv, Accounted
      <4>2. CASE CellFull(r)
        <5>1. Range(lists[Cell(r)]) \subseteq S
          BY <2>1, <3>3, <4>0, <4>2, <1>10 DEF CellFull, CatalogInv, CellsHoldTheirRows
        <5> HIDE DEF S
        <5>2. Cardinality(S) >= Len(lists[Cell(r)])
          BY <5>1, <3>1, <4>0, ListSize DEF CatalogInv
        <5>3. Len(lists[Cell(r)]) >= p.sweeps
          BY <4>2 DEF CellFull
        <5>4. Cardinality(S) >= p.sweeps
          BY <5>2, <5>3, <3>1, <4>0, <1>7
        <5>5. QED
          BY <5>4 DEF S
      <4>3. CASE TooClose(r)
        <5>1. PICK c \in Cells : \E s \in Range(lists[c]) : Brighter(s, r) /\ Distance(r, s) <= p.dedup
          BY <4>3 DEF TooClose
        <5>2. PICK s \in Range(lists[c]) : Brighter(s, r) /\ Distance(r, s) <= p.dedup
          BY <5>1
        <5>3. s \in brighter
          BY <2>1, <3>3, <5>2, <1>10
        <5>4. QED
          BY <4>3, <5>2, <5>3 DEF TooClose
      <4>4. QED
        BY <4>1, <4>2, <4>3
    <3>4. QED
      BY <3>2, <3>3
  <2>2. \A r : {s \in Range(uniform') : Brighter(s, r)'} = {s \in Range(uniform') : Brighter(s, r)}
    BY <1>3
  <2>3. \A r, B : {s \in B : Cell(s)' = Cell(r)'} = {s \in B : Cell(s) = Cell(r)}
    BY <1>3
  <2>4. QED
    BY <1>1, <1>3, <2>1, <2>2, <2>3 DEF KeepsBrightest
<1>12. QED
  BY <1>4, <1>5, <1>6, <1>9, <1>11 DEF CatalogInv

\* The steps after it leave the catalog alone.
LEMMA CatalogStays ==
    ASSUME CatalogTypeOK, CatalogInv,
           at' = at, p' = p, inorder' = inorder, lists' = lists, uniform' = uniform,
           \/ stage' = stage
           \/ stage \notin {"read", "place"} /\ stage' \in Stages \ {"read", "place"}
    PROVE  CatalogTypeOK' /\ CatalogInv'
<1>1. CatalogTypeOK'
  BY DEF CatalogTypeOK
<1>2. /\ \A x, y : Brighter(x, y)' <=> Brighter(x, y)
      /\ \A x, y : Distance(x, y)' = Distance(x, y)
      /\ \A x : Cell(x)' = Cell(x)
      /\ \A x : AboveCut(x)' <=> AboveCut(x)
      /\ \A x : (AllSky \/ ~Outside(x))' <=> (AllSky \/ ~Outside(x))
  BY DEF Brighter, Distance, Cell, AboveCut, AllSky, Outside
<1>3. /\ stage' = "read" => stage = "read"
      /\ stage' = "place" => stage = "place"
      /\ Uniformized' <=> Uniformized
  BY DEF Uniformized
<1>4. CellsHoldTheirRows' /\ BrightestFirst' /\ ListsFit' /\ ListsApart'
  BY <1>2 DEF CatalogInv, CellsHoldTheirRows, BrightestFirst, ListsFit, ListsApart
<1>5. DimmerToCome' /\ NothingRead'
  BY <1>2, <1>3 DEF CatalogInv, DimmerToCome, NothingRead
<1>6. Accounted'
  <2>1. \A x : Wanted(x)' <=> Wanted(x)
    BY <1>2 DEF Wanted
  <2>2. \A x : (CellFull(x)' <=> CellFull(x)) /\ (TooClose(x)' <=> TooClose(x))
    BY <1>2 DEF CellFull, TooClose
  <2>3. QED
    BY <1>2, <1>3, <2>1, <2>2 DEF CatalogInv, Accounted
<1>7. NoCloseStars'
  BY <1>2, <1>3 DEF CatalogInv, NoCloseStars
<1>8. KeepsBrightest'
  <2>1. \A r : {s \in Range(uniform) : Brighter(s, r)'} = {s \in Range(uniform) : Brighter(s, r)}
    BY <1>2
  <2>2. \A r, B : {s \in B : Cell(s)' = Cell(r)'} = {s \in B : Cell(s) = Cell(r)}
    BY <1>2
  <2>3. QED
    BY <1>2, <1>3, <2>1, <2>2 DEF CatalogInv, KeepsBrightest
<1>9. QED
  BY <1>1, <1>4, <1>5, <1>6, <1>7, <1>8 DEF CatalogInv

-----------------------------------------------------------------------------
(* Sorting quads *)

\* compare_quads orders the quads of one size without ties.
LEMMA LexOrder ==
    ASSUME NEW d \in Nat, NEW T \in SUBSET Int
    PROVE  /\ \A q \in [1 .. d -> T] : ~LexLess(q, q)
           /\ \A q, r, t \in [1 .. d -> T] : LexLess(q, r) /\ LexLess(r, t) => LexLess(q, t)
           /\ \A q, r \in [1 .. d -> T] : q # r => LexLess(q, r) \/ LexLess(r, q)
<1>1. ASSUME NEW q \in [1 .. d -> T] PROVE ~LexLess(q, q)
  <2>1. DOMAIN q = 1 .. d /\ \A i \in 1 .. d : q[i] \in Int
    OBVIOUS
  <2>2. \A i \in 1 .. d : ~(q[i] < q[i])
    BY <2>1
  <2>3. QED
    BY <2>1, <2>2 DEF LexLess
<1>2. ASSUME NEW q \in [1 .. d -> T], NEW r \in [1 .. d -> T], NEW t \in [1 .. d -> T],
             LexLess(q, r), LexLess(r, t)
      PROVE  LexLess(q, t)
  <2>1. PICK i \in 1 .. d : q[i] < r[i] /\ \A j \in 1 .. i - 1 : q[j] = r[j]
    BY <1>2 DEF LexLess
  <2>2. PICK k \in 1 .. d : r[k] < t[k] /\ \A j \in 1 .. k - 1 : r[j] = t[j]
    BY <1>2 DEF LexLess
  <2>3. \A j \in 1 .. d : q[j] \in Int /\ r[j] \in Int /\ t[j] \in Int
    OBVIOUS
  <2>4. CASE i <= k
    <3>1. i < k => i \in 1 .. k - 1
      BY <2>4
    <3>2. q[i] < t[i]
      BY <2>1, <2>2, <2>3, <2>4, <3>1
    <3>3. \A j \in 1 .. i - 1 : j \in 1 .. k - 1
      BY <2>4
    <3>4. \A j \in 1 .. i - 1 : q[j] = t[j]
      BY <2>1, <2>2, <3>3
    <3>5. QED
      BY <3>2, <3>4 DEF LexLess
  <2>5. CASE k < i
    <3>1. k \in 1 .. i - 1
      BY <2>5
    <3>2. q[k] < t[k]
      BY <2>1, <2>2, <3>1
    <3>3. \A j \in 1 .. k - 1 : j \in 1 .. i - 1
      BY <2>5
    <3>4. \A j \in 1 .. k - 1 : q[j] = t[j]
      BY <2>1, <2>2, <3>3
    <3>5. QED
      BY <3>2, <3>4 DEF LexLess
  <2>6. QED
    BY <2>4, <2>5
<1>3. ASSUME NEW q \in [1 .. d -> T], NEW r \in [1 .. d -> T], q # r
      PROVE  LexLess(q, r) \/ LexLess(r, q)
  <2> DEFINE D == {i \in 1 .. d : q[i] # r[i]}
  <2>1. D # {}
    BY <1>3
  <2>2. PICK m \in D : \A i \in D : m <= i
    <3>1. D \subseteq Nat
      OBVIOUS
    <3> HIDE DEF D
    <3>2. QED
      BY <2>1, <3>1, NatMin
  <2>3. m \in 1 .. d /\ q[m] \in Int /\ r[m] \in Int /\ q[m] # r[m]
    BY <2>2
  <2>4. \A j \in 1 .. m - 1 : q[j] = r[j]
    <3> TAKE j \in 1 .. m - 1
    <3>1. j \in 1 .. d /\ ~(m <= j)
      BY <2>3
    <3>2. QED
      BY <2>2, <3>1
  <2> HIDE DEF D
  <2>5. QED
    BY <2>3, <2>4 DEF LexLess
<1>4. QED
  BY <1>1, <1>2, <1>3

\* A finite set of quads has a first one.
LEMMA FirstQuad ==
    ASSUME NEW d \in Nat, NEW T \in SUBSET Int,
           NEW Q \in SUBSET [1 .. d -> T], IsFiniteSet(Q), Q # {}
    PROVE  First(Q) \in Q
<1> DEFINE O == {e \in Q \X Q : LexLess(e[1], e[2])}
           s == InOrderOf(O, Q)
<1>1. StrictOrder(O, Q)
  <2>1. /\ \A q \in Q : ~LexLess(q, q)
        /\ \A q, r, t \in Q : LexLess(q, r) /\ LexLess(r, t) => LexLess(q, t)
        /\ \A q, r \in Q : q # r => LexLess(q, r) \/ LexLess(r, q)
    BY LexOrder
  <2>2. \A q, r \in Q : <<q, r>> \in O <=> LexLess(q, r)
    OBVIOUS
  <2> HIDE DEF O
  <2>3. QED
    BY <2>1, <2>2 DEF StrictOrder
<1>2. \A q, r : <<q, r>> \in O => LexLess(q, r)
  OBVIOUS
<1> HIDE DEF O
<1>3. /\ s \in Seq(Q)
      /\ \A i \in 1 .. Len(s) : s[i] \in Q
      /\ \A x \in Q : \E i \in 1 .. Len(s) : s[i] = x
      /\ \A i, j \in 1 .. Len(s) : i < j <=> <<s[i], s[j]>> \in O
  <2>1. IsFiniteSet(Q) /\ StrictOrder(O, Q)
    BY <1>1
  <2>2. LET z == InOrderOf(O, Q) IN
        /\ z \in Seq(Q)
        /\ Len(z) = Cardinality(Q)
        /\ \A i \in 1 .. Len(z) : z[i] \in Q /\ Rank(O, Q, z[i]) = i - 1
        /\ \A x \in Q : \E i \in 1 .. Len(z) : z[i] = x
        /\ \A i, j \in 1 .. Len(z) : i < j <=> <<z[i], z[j]>> \in O
        /\ \A i, j \in 1 .. Len(z) : z[i] = z[j] => i = j
    BY ONLY <2>1, Sorting
  <2>3. QED
    BY <2>2
<1> HIDE DEF s
<1>4. 1 \in 1 .. Len(s) /\ Len(s) \in Nat
  BY <1>3, LenProperties
<1>5. \A r \in Q \ {s[1]} : LexLess(s[1], r)
  <2> TAKE r \in Q \ {s[1]}
  <2>1. PICK i \in 1 .. Len(s) : s[i] = r
    BY <1>3
  <2>2. 1 < i
    BY <2>1
  <2>3. QED
    BY <1>2, <1>3, <1>4, <2>1, <2>2
<1>6. \E q \in Q : \A r \in Q \ {q} : LexLess(q, r)
  BY <1>3, <1>4, <1>5
<1>7. QED
  BY <1>6 DEF First

\* Merging only puts quads in another order.
LEMMA MergeOrder ==
    ASSUME NEW d \in Nat, NEW T \in SUBSET Int, NEW all \in Seq([1 .. d -> T])
    PROVE  LET order == InOrderOf(QuadOrder(all), DOMAIN all) IN
           /\ DOMAIN order = DOMAIN all
           /\ order \in Bijection(DOMAIN all, DOMAIN all)
<1> DEFINE D == DOMAIN all
           O == QuadOrder(all)
           order == InOrderOf(O, D)
<1>1. D = 1 .. Len(all) /\ Len(all) \in Nat /\ IsFiniteSet(D) /\ D \subseteq Int
      /\ Cardinality(D) = Len(all)
  BY LenProperties, IntervalSize
<1>2. \A k \in D : all[k] \in [1 .. d -> T]
  BY <1>1, ElementOfSeq
<1>3. StrictOrder(O, D)
  <2>1. \A k, l \in D : <<k, l>> \in O <=> LexLess(all[k], all[l]) \/ (all[k] = all[l] /\ k < l)
    BY DEF QuadOrder
  <2> DEFINE L(k, l) == LexLess(all[k], all[l])
  <2>2. /\ \A k, l \in D : all[k] = all[l] => ~L(k, l)
        /\ \A k, l, m \in D : L(k, l) /\ L(l, m) => L(k, m)
        /\ \A k, l \in D : all[k] # all[l] => L(k, l) \/ L(l, k)
        /\ \A k, l, m \in D : (all[k] = all[l] /\ L(l, m)) \/ (L(k, l) /\ all[l] = all[m]) => L(k, m)
    BY <1>2, LexOrder
  <2>3. \A k, l \in D : <<k, l>> \in O <=> L(k, l) \/ (all[k] = all[l] /\ k < l)
    BY <2>1
  <2> HIDE DEF L, O, D
  <2>4. /\ \A k, l, m \in D : k < l /\ l < m => k < m
        /\ \A k, l \in D : k # l => k < l \/ l < k
        /\ \A k \in D : ~(k < k)
    BY <1>1
  <2>5. \A k \in D : <<k, k>> \notin O
    BY <2>2, <2>3, <2>4
  <2>6. \A k, l, m \in D : <<k, l>> \in O /\ <<l, m>> \in O => <<k, m>> \in O
    BY <2>2, <2>3, <2>4
  <2>7. \A k, l \in D : k # l => <<k, l>> \in O \/ <<l, k>> \in O
    BY <2>2, <2>3, <2>4
  <2>8. QED
    BY <2>5, <2>6, <2>7 DEF StrictOrder
<1> HIDE DEF O, D
<1>4. /\ order \in Seq(D) /\ Len(order) = Cardinality(D)
      /\ \A i \in 1 .. Len(order) : order[i] \in D
      /\ \A x \in D : \E i \in 1 .. Len(order) : order[i] = x
      /\ \A i, j \in 1 .. Len(order) : order[i] = order[j] => i = j
  <2>1. IsFiniteSet(D) /\ StrictOrder(O, D)
    BY <1>1, <1>3
  <2>2. QED
    BY <2>1, Sorting
<1> HIDE DEF order
<1>5. DOMAIN order = D /\ order \in [D -> D]
  <2>1. DOMAIN order = 1 .. Len(order) /\ order \in [1 .. Len(order) -> D]
    BY <1>4, LenProperties
  <2>2. 1 .. Len(order) = D
    BY <1>1, <1>4
  <2>3. QED
    BY <2>1, <2>2
<1>6. order \in Bijection(D, D)
  BY <1>1, <1>4, <1>5 DEF Bijection, Injection, Surjection, IsInjective
<1>7. QED
  BY <1>5, <1>6 DEF D, O, order

\* The uses of star i in the quads of a list.
UsesIn(all, i) == {k \in DOMAIN all : i \in Range(all[k])}

\* What MergeQuads makes of the list of all quads.
Merged(all) ==
    LET order == InOrderOf(QuadOrder(all), DOMAIN all)
    IN  [n \in DOMAIN order |-> all[order[n]]]

\* Two lists have the same quads, and use each star equally often.
SameQuads(merged, all) ==
    /\ Len(merged) = Len(all) /\ Range(merged) = Range(all)
    /\ IsInjective(all) => IsInjective(merged)
    /\ \A i : Cardinality(UsesIn(merged, i)) = Cardinality(UsesIn(all, i))

\* Merging neither loses nor makes up a quad, and the uses of the stars stay.
LEMMA Merging ==
    ASSUME NEW d \in Nat, NEW T \in SUBSET Int, NEW all \in Seq([1 .. d -> T]),
           NEW merged, merged = Merged(all)
    PROVE  merged \in Seq([1 .. d -> T]) /\ SameQuads(merged, all)
<1> DEFINE D == DOMAIN all
           order == InOrderOf(QuadOrder(all), D)
<1>1. D = 1 .. Len(all) /\ Len(all) \in Nat
  BY LenProperties
<1>2. DOMAIN order = D /\ order \in Bijection(D, D)
  BY MergeOrder
<1>3. merged = [n \in D |-> all[order[n]]]
  BY <1>2 DEF Merged
<1>a. D = DOMAIN all
  OBVIOUS
<1> HIDE DEF D, order
<1>4. /\ \A n \in D : order[n] \in D /\ merged[n] = all[order[n]]
      /\ \A m, n \in D : order[m] = order[n] => m = n
      /\ \A x \in D : \E n \in D : order[n] = x
      /\ DOMAIN merged = D
  BY <1>2, <1>3 DEF Bijection, Injection, Surjection, IsInjective
<1>5. merged \in Seq([1 .. d -> T]) /\ Len(merged) = Len(all)
  <2>1. \A k \in D : all[k] \in [1 .. d -> T]
    BY <1>1, ElementOfSeq
  <2>2. merged \in [1 .. Len(all) -> [1 .. d -> T]]
    <3>1. \A n \in D : all[order[n]] \in [1 .. d -> T]
      BY <1>4, <2>1
    <3>2. QED
      BY <1>1, <1>3, <3>1
  <2> DEFINE Q == [1 .. d -> T]
  <2>3. merged \in [1 .. Len(all) -> Q]
    BY <2>2
  <2> HIDE DEF Q
  <2>4. merged \in Seq(Q) /\ Len(merged) = Len(all)
    BY <1>1, <2>3, FunctionIsSequence
  <2>5. QED
    BY <2>4 DEF Q
<1>6. Range(merged) = Range(all)
  <2>1. \A n \in D : merged[n] \in Range(all)
    <3>1. \A n \in D : order[n] \in DOMAIN all
      BY <1>4, <1>a
    <3>2. \A n \in D : all[order[n]] \in {all[k] : k \in DOMAIN all}
      BY <3>1
    <3>3. QED
      BY <1>4, <3>2 DEF Range
  <2>2. \A x \in D : all[x] \in Range(merged)
    <3>1. ASSUME NEW x \in D PROVE all[x] \in Range(merged)
      <4>1. PICK n \in D : order[n] = x
        BY <1>4
      <4>2. merged[n] = all[x] /\ n \in DOMAIN merged
        BY <1>4, <4>1
      <4>3. QED
        BY <4>2 DEF Range
    <3>2. QED
      BY <3>1
  <2>3. Range(merged) \subseteq Range(all)
    BY <1>4, <2>1 DEF Range
  <2>4. Range(all) \subseteq Range(merged)
    BY <1>a, <2>2 DEF Range
  <2>5. QED
    BY <2>3, <2>4
<1>7. IsInjective(all) => IsInjective(merged)
  <2>1. SUFFICES ASSUME \A k, l \in D : all[k] = all[l] => k = l,
                        NEW m \in D, NEW n \in D, merged[m] = merged[n]
                 PROVE  m = n
    BY <1>a, <1>4 DEF IsInjective
  <2>2. order[m] = order[n]
    <3>1. order[m] \in D /\ order[n] \in D /\ all[order[m]] = all[order[n]]
      BY <1>4, <2>1
    <3>2. QED
      BY <2>1, <3>1
  <2>3. QED
    BY <1>4, <2>2
<1>8. ASSUME NEW i PROVE Cardinality(UsesIn(merged, i)) = Cardinality(UsesIn(all, i))
  <2> DEFINE A == UsesIn(all, i)
             M == UsesIn(merged, i)
             f == [k \in M |-> order[k]]
  <2>1. A \subseteq D /\ M \subseteq D /\ \A k \in D : k \in M <=> order[k] \in A
    BY <1>4 DEF UsesIn, D
  <2> HIDE DEF A, M
  <2>2. f \in [M -> A]
    BY <2>1
  <2>3. \A k \in M : f[k] = order[k] /\ k \in D
    BY <2>1
  <2> HIDE DEF f
  <2>4. \A k, l \in M : f[k] = f[l] => k = l
    BY <1>4, <2>3
  <2>5. \A x \in A : \E k \in M : f[k] = x
    BY <1>4, <2>1, <2>3
  <2>6. f \in Bijection(M, A)
    BY <2>2, <2>4, <2>5 DEF Bijection, Injection, Surjection, IsInjective
  <2>7. IsFiniteSet(D)
    BY <1>1, IntervalSize
  <2>8. IsFiniteSet(M)
    BY <2>1, <2>7, FS_Subset
  <2>9. Cardinality(M) = Cardinality(A)
    <3>1. ExistsBijection(M, A)
      BY <2>6 DEF ExistsBijection
    <3>2. QED
      BY <2>8, <3>1, FS_Bijection
  <2>10. QED
    BY <2>9 DEF A, M
<1>9. QED
  BY <1>5, <1>6, <1>7, <1>8 DEF SameQuads

-----------------------------------------------------------------------------
(* The quads of a healpix *)

\* A shared star tree is there from the start, with the rows as its stars.
SharedCatalog == p.shared => stage \notin {"read", "place"} /\ uniform = [i \in Rows |-> i]

\* Stars may be used: they are in reach of the healpix and below the limit.
Free(i) == R = 0 \/ nuses[i] < R
FreeNear(hp) == {i \in Near(hp) : Free(i)}

\* Stars and their positions, in their types.
LEMMA StarNumbers ==
    ASSUME CatalogTypeOK
    PROVE  /\ Stars = 1 .. Len(uniform) /\ Len(uniform) \in Nat
           /\ Stars \subseteq Nat /\ IsFiniteSet(Stars)
           /\ \A i \in Stars : uniform[i] \in Rows /\ Pos(i) \in 0 .. MaxPos
           /\ p.dimquads \in 3 .. 5 /\ p.Nreuse \in 0 .. 255 /\ p.Nloosen \in Nat
           /\ HpWidth \in Nat \ {0} /\ QHi \in Nat
<1>1. Stars = 1 .. Len(uniform) /\ Len(uniform) \in Nat
  BY LenProperties DEF CatalogTypeOK, Stars
<1>2. Stars \subseteq Nat /\ IsFiniteSet(Stars)
  BY <1>1, IntervalSize
<1>3. \A i \in Stars : uniform[i] \in Rows
  BY <1>1, ElementOfSeq DEF CatalogTypeOK
<1>4. \A i \in Stars : Pos(i) \in 0 .. MaxPos
  BY <1>3, CatalogNumbers DEF Pos
<1>5. p.dimquads \in 3 .. 5 /\ p.Nreuse \in 0 .. 255 /\ p.Nloosen \in Nat
  BY QuadOptionsAssumption DEF CatalogTypeOK
<1>6. QED
  BY <1>1, <1>2, <1>3, <1>4, <1>5, HpAssumption

\* The stars are tried in an order without ties.
LEMMA StarOrder ==
    ASSUME CatalogTypeOK, SharedCatalog, NEW S \in SUBSET Stars
    PROVE  /\ StrictOrder(Precedence, S) /\ IsFiniteSet(S)
           /\ \A i, j \in S : <<i, j>> \in Precedence <=> Precedes(i, j)
<1>1. \A i, j \in Stars : <<i, j>> \in Precedence <=> Precedes(i, j)
  BY DEF Precedence
<1>2. IsFiniteSet(S)
  BY StarNumbers, FS_Subset
<1>3. CASE p.shared
  <2>1. \A i \in Stars : uniform[i] = i /\ Mag[i] \in Int /\ i \in Rows
    BY <1>3, StarNumbers, CatalogNumbers DEF SharedCatalog
  <2>2. \A i, j \in Stars : i # j => Mag[i] # Mag[j]
    BY <2>1, CatalogNumbers
  <2>3. \A i, j \in Stars : Precedes(i, j) <=> Mag[i] < Mag[j]
    BY <1>3, <2>1 DEF Precedes
  <2>4. StrictOrder(Precedence, S)
    BY <1>1, <2>1, <2>2, <2>3 DEF StrictOrder
  <2>5. QED
    BY <1>1, <1>2, <2>4
<1>4. CASE ~p.shared
  <2>1. \A i, j \in Stars : Precedes(i, j) <=> i < j
    BY <1>4 DEF Precedes
  <2>2. \A i \in Stars : i \in Int
    BY StarNumbers
  <2>3. StrictOrder(Precedence, S)
    BY <1>1, <2>1, <2>2 DEF StrictOrder
  <2>4. QED
    BY <1>1, <1>2, <2>3
<1>5. QED
  BY <1>3, <1>4

\* find_stars returns all free stars in order, or none if they are too few.
LEMMA StarsFound ==
    ASSUME CatalogTypeOK, SharedCatalog, NEW hp
    PROVE  LET s == FindStars(hp) IN
           /\ s \in Seq(Stars) /\ Len(s) \in Nat /\ DOMAIN s = 1 .. Len(s)
           /\ \A k \in 1 .. Len(s) : s[k] \in FreeNear(hp)
           /\ \A k, l \in 1 .. Len(s) : k < l <=> Precedes(s[k], s[l])
           /\ \A k, l \in 1 .. Len(s) : s[k] = s[l] => k = l
           /\ IsFiniteSet(FreeNear(hp)) /\ Cardinality(FreeNear(hp)) \in Nat
           /\ Cardinality(FreeNear(hp)) >= p.dimquads =>
                 \A i \in FreeNear(hp) : \E k \in 1 .. Len(s) : s[k] = i
<1> DEFINE F == FreeNear(hp)
           s == FindStars(hp)
           z == InOrderOf(Precedence, F)
<1>1. F \in SUBSET Stars
  BY DEF FreeNear, Near
<1>2. s = IF Cardinality(F) < p.dimquads THEN << >> ELSE z
  BY DEF FindStars, FreeNear, Free
<1> HIDE DEF F
<1>3. /\ StrictOrder(Precedence, F) /\ IsFiniteSet(F)
      /\ \A i, j \in F : <<i, j>> \in Precedence <=> Precedes(i, j)
  BY <1>1, StarOrder
<1>4. Cardinality(F) \in Nat /\ p.dimquads \in Int
  BY <1>3, FS_CardinalityType, StarNumbers
<1>5. /\ z \in Seq(F)
      /\ \A i \in 1 .. Len(z) : z[i] \in F
      /\ \A x \in F : \E i \in 1 .. Len(z) : z[i] = x
      /\ \A i, j \in 1 .. Len(z) : i < j <=> <<z[i], z[j]>> \in Precedence
      /\ \A i, j \in 1 .. Len(z) : z[i] = z[j] => i = j
  BY <1>3, Sorting
<1> HIDE DEF z
<1>6. z \in Seq(Stars) /\ Len(z) \in Nat /\ DOMAIN z = 1 .. Len(z)
  <2>1. z \in [1 .. Len(z) -> F] /\ Len(z) \in Nat
    BY <1>5, LenProperties
  <2>2. z \in [1 .. Len(z) -> Stars]
    BY <2>1, <1>1
  <2>3. QED
    BY <2>1, <2>2, FunctionIsSequence
<1>7. CASE Cardinality(F) < p.dimquads
  <2>1. s = << >>
    BY <1>2, <1>7
  <2>2. << >> \in Seq(Stars) /\ Len(<< >>) = 0 /\ DOMAIN << >> = 1 .. 0 /\ \A k \in 1 .. 0 : FALSE
    OBVIOUS
  <2>3. ~(Cardinality(F) >= p.dimquads)
    BY <1>4, <1>7
  <2> HIDE DEF s
  <2>4. QED
    BY <1>3, <1>4, <2>1, <2>2, <2>3 DEF s, F
<1>8. CASE ~(Cardinality(F) < p.dimquads)
  <2>1. s = z
    BY <1>2, <1>8
  <2>2. \A i, j \in 1 .. Len(z) : i < j <=> Precedes(z[i], z[j])
    BY <1>3, <1>5
  <2> HIDE DEF s
  <2>3. QED
    BY <1>3, <1>4, <1>5, <1>6, <2>1, <2>2 DEF s, F
<1>9. QED
  BY <1>7, <1>8

\* One of three numbers lies between the others.
LEMMA InBetween ==
    ASSUME NEW a \in Int, NEW b \in Int, NEW x \in Int, (x - a) * (x - b) <= 0
    PROVE  (a <= x /\ x <= b) \/ (b <= x /\ x <= a)
<1>1. ASSUME NEW u \in Int, NEW v \in Int, u > 0, v > 0 PROVE u * v > 0
  BY <1>1
<1>2. ASSUME NEW u \in Int, NEW v \in Int, u < 0, v < 0 PROVE u * v > 0
  BY <1>2
<1>3. ASSUME NEW u \in Int, NEW v \in Int, u * v <= 0
      PROVE  (u >= 0 /\ v <= 0) \/ (u <= 0 /\ v >= 0)
  <2> DEFINE n == u * v
  <2>1. n \in Int /\ (u > 0 /\ v > 0 => n > 0) /\ (u < 0 /\ v < 0 => n > 0) /\ n <= 0
    BY <1>1, <1>2, <1>3
  <2> HIDE DEF n
  <2>2. QED
    BY ONLY <2>1, u \in Int, v \in Int
<1>4. x - a \in Int /\ x - b \in Int
  OBVIOUS
<1>5. (x - a >= 0 /\ x - b <= 0) \/ (x - a <= 0 /\ x - b >= 0)
  BY <1>3, <1>4
<1>6. QED
  BY ONLY <1>5, a \in Int, b \in Int, x \in Int

\* A quad's stars are in reach of the healpix of its midpoint.
LEMMA QuadInReach ==
    ASSUME CatalogTypeOK, NEW hp \in Int, NEW q \in Possible(hp), NEW k \in 1 .. p.dimquads
    PROVE  q[k] \in Near(hp)
<1> DEFINE d == p.dimquads
           W == HpWidth
           a == Pos(q[1])
           b == Pos(q[2])
           x == Pos(q[k])
<1>1. /\ d \in 3 .. 5 /\ W \in Nat \ {0} /\ QHi \in Nat
      /\ q \in [1 .. d -> Stars] /\ 1 \in 1 .. d /\ 2 \in 1 .. d
  BY StarNumbers DEF Possible
<1>2. a \in Nat /\ b \in Nat /\ x \in Nat /\ q[k] \in Stars
  <2>1. q[1] \in Stars /\ q[2] \in Stars /\ q[k] \in Stars
    BY <1>1
  <2>2. \A i \in Stars : Pos(i) \in Nat
    BY StarNumbers
  <2>3. QED
    BY <2>1, <2>2
<1>3. /\ AB(q[1], q[2]) \in QLo .. QHi
      /\ (a + b) \div (2 * W) = hp
  BY <1>1 DEF Possible, Pair, ScaleOk, MidHp
<1>4. a - b <= QHi /\ b - a <= QHi
  <2>1. AB(q[1], q[2]) = IF a - b < 0 THEN -(a - b) ELSE a - b
    BY DEF AB, Distance, Pos
  <2>2. QED
    BY <1>1, <1>2, <1>3, <2>1, HpAssumption
<1>5. (a <= x /\ x <= b) \/ (b <= x /\ x <= a)
  <2>1. CASE k \in {1, 2}
    <3>1. x = a \/ x = b
      BY <2>1
    <3> HIDE DEF a, b, x
    <3>2. QED
      BY <1>2, <3>1
  <2>2. CASE k \notin {1, 2}
    <3>1. k \in 3 .. d
      BY <2>2, <1>1
    <3>2. (x - a) * (x - b) <= 0
      BY <3>1 DEF Possible, Between
    <3> HIDE DEF a, b, x
    <3>3. QED
      BY <1>2, <3>2, InBetween
  <2>3. QED
    BY <2>1, <2>2
<1> HIDE DEF a, b, x, W
<1>6. a + b - (2 * hp + 1) * W \in -W .. W
  <2>1. \A n \in Nat, w \in Nat \ {0} : n - w * (n \div w) \in 0 .. w - 1
    OBVIOUS
  <2>2. 2 * W \in Nat \ {0} /\ a + b \in Nat
    BY <1>1, <1>2
  <2>3. (a + b) - (2 * W) * hp \in 0 .. 2 * W - 1
    BY <1>3, <2>1, <2>2
  <2>4. (2 * hp + 1) * W = (2 * W) * hp + W /\ (2 * W) * hp \in Int
    BY <1>1
  <2> DEFINE m == (2 * W) * hp
  <2>5. (a + b) - m \in 0 .. 2 * W - 1 /\ (2 * hp + 1) * W = m + W /\ m \in Int
    BY <2>3, <2>4
  <2> HIDE DEF m
  <2>6. QED
    BY <1>1, <1>2, <2>5
<1>7. 2 * x - (2 * hp + 1) * W \in -(W + QHi) .. W + QHi
  <2> DEFINE m == (2 * hp + 1) * W
  <2>1. m \in Int /\ a + b - m \in -W .. W
    BY <1>1, <1>6
  <2>2. 2 * x - (a + b) \in -QHi .. QHi
    BY <1>1, <1>2, <1>4, <1>5
  <2> HIDE DEF m
  <2>3. 2 * x - m \in -(W + QHi) .. W + QHi
    BY <1>1, <1>2, <2>1, <2>2
  <2>4. QED
    BY <2>3 DEF m
<1>8. (3 * W) \div 2 >= W /\ (3 * W) \div 2 \in Int
  BY <1>1
<1>9. 2 * x - (2 * hp + 1) * W \in -((3 * W) \div 2 + QHi) .. (3 * W) \div 2 + QHi
  <2> DEFINE m == 2 * x - (2 * hp + 1) * W
             h == (3 * W) \div 2
  <2>1. m \in Int /\ m \in -(W + QHi) .. W + QHi /\ h >= W /\ h \in Int
    BY <1>1, <1>2, <1>7, <1>8
  <2> HIDE DEF m, h
  <2>2. m \in -(h + QHi) .. h + QHi
    BY <1>1, <2>1
  <2>3. QED
    BY <2>2 DEF m, h
<1>10. QED
  BY <1>2, <1>9 DEF Near, x, W

\* Places in the star list s that make a quad of the healpix.
Arrangements(s, hp) ==
    {q \in [1 .. p.dimquads -> 1 .. Len(s)] :
        /\ q[1] < q[2] /\ Pair(s, q[1], q[2], hp)
        /\ \A k \in 3 .. p.dimquads :
               q[k] # q[1] /\ q[k] # q[2] /\ Between(s[q[k]], s[q[1]], s[q[2]])
        /\ \A k \in 3 .. p.dimquads - 1 : q[k] < q[k + 1]}

\* A choice of inner places, put behind a diagonal.
Joint(ab, c) == ab \o c

\* Its first two places are the diagonal, the others the inner ones.
LEMMA Joined ==
    ASSUME NEW m \in Nat, NEW d \in Nat, d = m + 2, NEW T, NEW ab \in Seq(T), Len(ab) = 2,
           NEW c \in [1 .. m -> T]
    PROVE  LET q == Joint(ab, c) IN
           /\ q \in [1 .. d -> T] /\ q[1] = ab[1] /\ q[2] = ab[2]
           /\ \A k \in 3 .. d : k - 2 \in 1 .. m /\ q[k] = c[k - 2]
<1> DEFINE q == Joint(ab, c)
<1>1. c \in Seq(T) /\ Len(c) = m
  BY FunctionIsSequence
<1>2. /\ q \in Seq(T) /\ Len(q) = 2 + m
      /\ \A i \in 1 .. 2 + m : q[i] = IF i <= 2 THEN ab[i] ELSE c[i - 2]
  <2> DEFINE e == ab \o c
  <2>1. /\ e \in Seq(T) /\ Len(e) = Len(ab) + Len(c)
        /\ \A i \in 1 .. Len(ab) + Len(c) : e[i] = IF i <= Len(ab) THEN ab[i] ELSE c[i - Len(ab)]
    BY <1>1, ConcatProperties
  <2>2. q = e
    BY DEF Joint
  <2> HIDE DEF e, q
  <2>3. QED
    BY <1>1, <2>1, <2>2
<1> HIDE DEF q
<1>3. 2 + m = d
  OBVIOUS
<1>4. q \in [1 .. d -> T]
  BY <1>2, <1>3, LenProperties
<1>5. q[1] = ab[1] /\ q[2] = ab[2]
  <2>1. 1 \in 1 .. d /\ 2 \in 1 .. d /\ 1 <= 2 /\ 2 <= 2
    OBVIOUS
  <2>2. QED
    BY <2>1, <1>2, <1>3
<1>6. \A k \in 3 .. d : k - 2 \in 1 .. m /\ q[k] = c[k - 2]
  <2>1. \A k \in 3 .. d : k \in 1 .. d /\ ~(k <= 2) /\ k - 2 \in 1 .. m
    OBVIOUS
  <2>2. QED
    BY <2>1, <1>2, <1>3
<1>7. QED
  BY <1>4, <1>5, <1>6 DEF q

\* What is made of a diagonal and a choice of inner places is an arrangement.
LEMMA DiagonalArranges ==
    ASSUME p.dimquads \in 3 .. 5, NEW s, Len(s) \in Nat, NEW hp,
           NEW n \in 1 .. Len(s), NEW a \in 1 .. n, NEW b \in 1 .. n, a < b,
           Pair(s, a, b, hp), NEW c \in Interiors(Inbox(s, a, b, n))
    PROVE  <<a, b>> \o c \in Arrangements(s, hp)
<1> DEFINE d == p.dimquads
           N == Len(s)
           q == <<a, b>> \o c
<1>1. /\ c \in [1 .. d - 2 -> Inbox(s, a, b, n)]
      /\ \A i \in 1 .. d - 3 : c[i] < c[i + 1]
  BY DEF Interiors
<1>2. \A i \in Inbox(s, a, b, n) : i \in 1 .. n /\ i # a /\ i # b /\ Between(s[i], s[a], s[b])
  BY DEF Inbox
<1>3. c \in [1 .. d - 2 -> 1 .. N] /\ a \in 1 .. N /\ b \in 1 .. N
  <2>1. 1 .. n \subseteq 1 .. N
    OBVIOUS
  <2>2. \A i \in 1 .. d - 2 : c[i] \in 1 .. N
    BY <1>1, <1>2, <2>1
  <2> HIDE DEF N
  <2>3. QED
    BY <1>1, <2>1, <2>2
<1>4. /\ q \in [1 .. d -> 1 .. N] /\ q[1] = a /\ q[2] = b
      /\ \A k \in 3 .. d : k - 2 \in 1 .. d - 2 /\ q[k] = c[k - 2]
  <2> DEFINE T == 1 .. N
             ab == <<a, b>>
             m == d - 2
  <2>1. /\ m \in Nat /\ d \in Nat /\ d = m + 2 /\ c \in [1 .. m -> T]
        /\ ab \in Seq(T) /\ Len(ab) = 2 /\ ab[1] = a /\ ab[2] = b
    BY <1>3
  <2>2. q = Joint(ab, c)
    BY DEF Joint
  <2> HIDE DEF d, T, ab, q, m
  <2>3. LET z == Joint(ab, c) IN
        /\ z \in [1 .. d -> T] /\ z[1] = ab[1] /\ z[2] = ab[2]
        /\ \A k \in 3 .. d : k - 2 \in 1 .. m /\ z[k] = c[k - 2]
    BY <2>1, Joined
  <2>4. QED
    BY <2>1, <2>2, <2>3 DEF T, m
<1> HIDE DEF q
<1>5. \A k \in 3 .. d : q[k] # q[1] /\ q[k] # q[2] /\ Between(s[q[k]], s[q[1]], s[q[2]])
  BY <1>1, <1>2, <1>4
<1>6. \A k \in 3 .. d - 1 : q[k] < q[k + 1]
  <2>1. \A k \in 3 .. d - 1 : k \in 3 .. d /\ k + 1 \in 3 .. d /\ k - 2 \in 1 .. d - 3
                              /\ (k + 1) - 2 = (k - 2) + 1
    OBVIOUS
  <2> HIDE DEF d
  <2>2. QED
    BY <1>1, <1>4, <2>1
<1>7. QED
  BY <1>4, <1>5, <1>6 DEF Arrangements, q

\* The builder tries arrangements only,
LEMMA TriesArrangements ==
    ASSUME p.dimquads \in 3 .. 5, NEW s, Len(s) \in Nat, NEW hp, NEW n \in 1 .. Len(s)
    PROVE  OnDiagonal(s, n, hp) \cup Inside(s, n, hp) \subseteq Arrangements(s, hp)
<1>1. ASSUME NEW q \in OnDiagonal(s, n, hp) PROVE q \in Arrangements(s, hp)
  <2>1. PICK a \in 1 .. n - 1 :
            Pair(s, a, n, hp) /\ \E c \in Interiors(Inbox(s, a, n, n)) : q = <<a, n>> \o c
    BY DEF OnDiagonal
  <2>2. PICK c \in Interiors(Inbox(s, a, n, n)) : q = <<a, n>> \o c
    BY <2>1
  <2>3. a \in 1 .. n /\ n \in 1 .. n /\ a < n
    OBVIOUS
  <2>4. QED
    BY <2>1, <2>2, <2>3, DiagonalArranges
<1>2. ASSUME NEW q \in Inside(s, n, hp) PROVE q \in Arrangements(s, hp)
  <2>1. PICK ab \in (1 .. n - 1) \X (1 .. n - 1) :
            /\ ab[1] < ab[2] /\ Pair(s, ab[1], ab[2], hp)
            /\ \E c \in Interiors(Inbox(s, ab[1], ab[2], n)) : q = ab \o c
    BY DEF Inside
  <2>2. PICK c \in Interiors(Inbox(s, ab[1], ab[2], n)) : q = ab \o c
    BY <2>1
  <2>3. ab[1] \in 1 .. n /\ ab[2] \in 1 .. n /\ ab = <<ab[1], ab[2]>>
    BY <2>1
  <2>4. QED
    BY <2>1, <2>2, <2>3, DiagonalArranges
<1>3. QED
  BY <1>1, <1>2

\* and it tries them all: each when its last star comes in.
LEMMA TriesAll ==
    ASSUME p.dimquads \in 3 .. 5, NEW s, Len(s) \in Nat, NEW hp, NEW q \in Arrangements(s, hp)
    PROVE  \E n \in 1 .. Len(s) : /\ q \in OnDiagonal(s, n, hp) \cup Inside(s, n, hp)
                                  /\ \E k \in 1 .. p.dimquads : q[k] = n
<1> DEFINE d == p.dimquads
           N == Len(s)
           a == q[1]
           b == q[2]
           c == [i \in 1 .. d - 2 |-> q[i + 2]]
<1>1. /\ q \in [1 .. d -> 1 .. N] /\ a < b /\ Pair(s, a, b, hp)
      /\ \A k \in 3 .. d : q[k] # a /\ q[k] # b /\ Between(s[q[k]], s[a], s[b])
      /\ \A k \in 3 .. d - 1 : q[k] < q[k + 1]
  BY DEF Arrangements
<1>2. /\ a \in 1 .. N /\ b \in 1 .. N
      /\ \A k \in 3 .. d : k \in 1 .. d /\ q[k] \in 1 .. N
      /\ d \in 3 .. d
  <2>1. 1 \in 1 .. d /\ 2 \in 1 .. d /\ d \in 3 .. d /\ \A k \in 3 .. d : k \in 1 .. d
    OBVIOUS
  <2>2. \A k \in 1 .. d : q[k] \in 1 .. N
    BY <1>1
  <2> HIDE DEF d, N
  <2>3. QED
    BY <2>1, <2>2
<1>3. \A k \in 3 .. d : q[k] <= q[d]
  <2>1. q[3] \in Int /\ (d > 3 => q[4] \in Int) /\ (d > 4 => q[5] \in Int)
    BY <1>2
  <2>2. (d > 3 => q[3] < q[4]) /\ (d > 4 => q[4] < q[5])
    <3>1. (d > 3 => 3 \in 3 .. d - 1 /\ 3 + 1 = 4) /\ (d > 4 => 4 \in 3 .. d - 1 /\ 4 + 1 = 5)
      OBVIOUS
    <3>2. QED
      BY <1>1, <3>1
  <2>3. CASE d = 3
    BY <2>1, <2>3
  <2>4. CASE d = 4
    <3>1. \A k \in 3 .. 4 : k = 3 \/ k = 4
      OBVIOUS
    <3>2. QED
      BY <2>1, <2>2, <2>4, <3>1
  <2>5. CASE d = 5
    <3>1. \A k \in 3 .. 5 : k = 3 \/ k = 4 \/ k = 5
      OBVIOUS
    <3>2. QED
      BY <2>1, <2>2, <2>5, <3>1
  <2>6. d = 3 \/ d = 4 \/ d = 5
    OBVIOUS
  <2>7. QED
    BY <2>3, <2>4, <2>5, <2>6
<1>4. ASSUME NEW n \in 1 .. N, a \in 1 .. n, b \in 1 .. n, q[d] \in 1 .. n
      PROVE  c \in Interiors(Inbox(s, a, b, n)) /\ q = <<a, b>> \o c
  <2>1. \A k \in 3 .. d : q[k] \in Inbox(s, a, b, n)
    <3>1. \A k \in 3 .. d : q[k] \in 1 .. n
      BY <1>2, <1>3, <1>4
    <3>2. QED
      BY <1>1, <3>1 DEF Inbox
  <2>2. \A i \in 1 .. d - 2 : i + 2 \in 3 .. d /\ c[i] = q[i + 2]
    OBVIOUS
  <2>3. \A i \in 1 .. d - 3 : i \in 1 .. d - 2 /\ i + 1 \in 1 .. d - 2 /\ i + 2 \in 3 .. d - 1
                              /\ (i + 1) + 2 = (i + 2) + 1
    OBVIOUS
  <2>4. c \in [1 .. d - 2 -> Inbox(s, a, b, n)]
    BY <2>1, <2>2
  <2>5. \A i \in 1 .. d - 3 : c[i] < c[i + 1]
    <3>1. TAKE i \in 1 .. d - 3
    <3>2. c[i] = q[i + 2] /\ c[i + 1] = q[(i + 1) + 2] /\ q[i + 2] < q[(i + 2) + 1]
      BY <1>1, <2>2, <2>3
    <3>3. QED
      BY <2>3, <3>2
  <2>6. c \in Interiors(Inbox(s, a, b, n))
    BY <2>4, <2>5 DEF Interiors
  <2>7. c \in [1 .. d - 2 -> 1 .. N]
    BY <2>2, <1>2
  <2>8. /\ <<a, b>> \o c \in [1 .. d -> 1 .. N]
        /\ (<<a, b>> \o c)[1] = a /\ (<<a, b>> \o c)[2] = b
        /\ \A k \in 3 .. d : k - 2 \in 1 .. d - 2 /\ (<<a, b>> \o c)[k] = c[k - 2]
    <3> DEFINE T == 1 .. N
               ab == <<a, b>>
               m == d - 2
    <3>1. /\ m \in Nat /\ d \in Nat /\ d = m + 2 /\ c \in [1 .. m -> T]
          /\ ab \in Seq(T) /\ Len(ab) = 2 /\ ab[1] = a /\ ab[2] = b
      BY <1>2, <2>7
    <3> DEFINE z == <<a, b>> \o c
    <3>2. z = Joint(ab, c)
      BY DEF Joint
    <3> HIDE DEF c, d, a, b, T, ab, z, m
    <3>3. LET j == Joint(ab, c) IN
          /\ j \in [1 .. d -> T] /\ j[1] = ab[1] /\ j[2] = ab[2]
          /\ \A k \in 3 .. d : k - 2 \in 1 .. m /\ j[k] = c[k - 2]
      BY <3>1, Joined
    <3>4. QED
      BY <3>1, <3>2, <3>3 DEF T, z, m
  <2>9. \A k \in 1 .. d : (<<a, b>> \o c)[k] = q[k]
    <3>1. \A k \in 1 .. d : k = 1 \/ k = 2 \/ (k \in 3 .. d /\ (k - 2) + 2 = k)
      OBVIOUS
    <3>2. \A k \in 3 .. d : c[k - 2] = q[(k - 2) + 2]
      BY <2>2, <2>8
    <3> DEFINE z == <<a, b>> \o c
    <3>3. z[1] = q[1] /\ z[2] = q[2] /\ \A k \in 3 .. d : z[k] = c[k - 2]
      BY <2>8
    <3> HIDE DEF z, c, d
    <3>4. \A k \in 1 .. d : z[k] = q[k]
      BY <3>1, <3>2, <3>3
    <3>5. QED
      BY <3>4 DEF z
  <2> DEFINE z == <<a, b>> \o c
  <2>10. z \in [1 .. d -> 1 .. N] /\ \A k \in 1 .. d : z[k] = q[k]
    BY <2>8, <2>9
  <2> HIDE DEF z
  <2>11. z = q
    BY <1>1, <2>10
  <2>12. QED
    BY <2>6, <2>11 DEF z
<1>5. CASE q[d] < b
  <2>1. b \in 1 .. N /\ a \in 1 .. b - 1 /\ a \in 1 .. b /\ b \in 1 .. b /\ q[d] \in 1 .. b
    BY <1>1, <1>2, <1>5
  <2>2. c \in Interiors(Inbox(s, a, b, b)) /\ q = <<a, b>> \o c
    BY <1>4, <2>1
  <2> HIDE DEF a, b, c
  <2>3. q \in OnDiagonal(s, b, hp)
    <3>1. a \in {x \in 1 .. b - 1 : Pair(s, x, b, hp)}
      BY <1>1, <2>1
    <3>2. q \in {<<a, b>> \o e : e \in Interiors(Inbox(s, a, b, b))}
      BY <2>2
    <3>3. QED
      BY <3>1, <3>2 DEF OnDiagonal
  <2>4. 2 \in 1 .. d /\ q[2] = b
    BY DEF b
  <2>5. QED
    BY <2>1, <2>3, <2>4
<1>6. CASE b < q[d]
  <2> DEFINE n == q[d]
  <2>1. /\ n \in 1 .. N /\ a \in 1 .. n - 1 /\ b \in 1 .. n - 1
        /\ a \in 1 .. n /\ b \in 1 .. n /\ n \in 1 .. n
    BY <1>1, <1>2, <1>6
  <2>2. c \in Interiors(Inbox(s, a, b, n)) /\ q = <<a, b>> \o c
    BY <1>4, <2>1
  <2>3. Between(s[n], s[a], s[b])
    BY <1>1, <1>2
  <2> HIDE DEF a, b, c, n
  <2> DEFINE ab == <<a, b>>
  <2>4. ab \in (1 .. n - 1) \X (1 .. n - 1) /\ ab[1] = a /\ ab[2] = b
    BY <2>1
  <2> HIDE DEF ab
  <2>5. q = ab \o c
    BY <2>2 DEF ab
  <2>6. q \in Inside(s, n, hp)
    <3>1. ab[1] < ab[2] /\ Pair(s, ab[1], ab[2], hp) /\ Between(s[n], s[ab[1]], s[ab[2]])
      BY <1>1, <2>3, <2>4
    <3>2. q \in {ab \o e : e \in Interiors(Inbox(s, ab[1], ab[2], n))}
      BY <2>2, <2>4, <2>5
    <3>3. QED
      BY <2>4, <3>1, <3>2 DEF Inside
  <2>7. d \in 1 .. d /\ q[d] = n
    BY DEF n
  <2>8. QED
    BY <2>1, <2>6, <2>7
<1>7. QED
  <2>1. q[d] # b /\ q[d] \in Int /\ b \in Int
    BY <1>1, <1>2
  <2>2. QED
    BY <1>5, <1>6, <2>1

\* There are finitely many choices of d places.
LEMMA FinitelyMany ==
    ASSUME NEW d \in Nat, NEW n \in Nat
    PROVE  IsFiniteSet([1 .. d -> 1 .. n])
<1> DEFINE F == [1 .. d -> 1 .. n]
           G == SUBSET ((1 .. d) \X (1 .. n))
           graph == [f \in F |-> {<<k, f[k]>> : k \in 1 .. d}]
<1>1. IsFiniteSet(1 .. d) /\ IsFiniteSet(1 .. n)
  BY IntervalSize
<1>2. IsFiniteSet(G)
  <2>1. IsFiniteSet((1 .. d) \X (1 .. n))
    BY <1>1, FS_Product
  <2>2. QED
    BY <2>1, FS_SUBSET
<1>3. ASSUME NEW f \in F PROVE graph[f] \in G
  OBVIOUS
<1>4. ASSUME NEW f \in F, NEW g \in F, graph[f] = graph[g] PROVE f = g
  <2>1. \A k \in 1 .. d : <<k, f[k]>> \in graph[g]
    BY <1>4
  <2>2. \A k \in 1 .. d : f[k] = g[k]
    BY <2>1
  <2>3. QED
    BY <2>2
<1>5. graph \in [F -> G]
  <2>1. graph = [f \in F |-> graph[f]]
    OBVIOUS
  <2> HIDE DEF graph, F, G
  <2>2. QED
    BY <1>3, <2>1
<1> HIDE DEF graph, F, G
<1>6. graph \in Injection(F, G)
  BY <1>4, <1>5 DEF Injection, IsInjective
<1>7. IsFiniteSet(F)
  BY <1>2, <1>6, FS_Injection
<1>8. QED
  BY <1>7 DEF F

\* An arrangement is a possible quad of free stars,
LEMMA ArrangementIsPossible ==
    ASSUME CatalogTypeOK, SharedCatalog, NEW hp \in Int,
           NEW q \in Arrangements(FindStars(hp), hp)
    PROVE  /\ Ids(FindStars(hp), q) \in Possible(hp)
           /\ \A k \in 1 .. p.dimquads : Free(Ids(FindStars(hp), q)[k])
<1> DEFINE d == p.dimquads
           s == FindStars(hp)
           N == Len(s)
           ids == Ids(s, q)
<1>1. /\ N \in Nat
      /\ \A k \in 1 .. N : s[k] \in FreeNear(hp)
      /\ \A k, l \in 1 .. N : k < l <=> Precedes(s[k], s[l])
      /\ \A k, l \in 1 .. N : s[k] = s[l] => k = l
  BY StarsFound
<1>2. /\ q \in [1 .. d -> 1 .. N] /\ q[1] < q[2] /\ Pair(s, q[1], q[2], hp)
      /\ \A k \in 3 .. d : q[k] # q[1] /\ q[k] # q[2] /\ Between(s[q[k]], s[q[1]], s[q[2]])
      /\ \A k \in 3 .. d - 1 : q[k] < q[k + 1]
  BY DEF Arrangements
<1>3. /\ d \in 3 .. 5 /\ 1 \in 1 .. d /\ 2 \in 1 .. d
      /\ \A k \in 3 .. d : k \in 1 .. d
      /\ \A k \in 3 .. d - 1 : k \in 1 .. d /\ k + 1 \in 1 .. d
  BY StarNumbers
<1> HIDE DEF s, N, d
<1>4. \A k \in 1 .. d : q[k] \in 1 .. N /\ ids[k] = s[q[k]]
  BY <1>2 DEF Ids
<1>5. ids = [k \in 1 .. d |-> s[q[k]]]
  BY <1>2 DEF Ids
<1> HIDE DEF ids
<1>6. \A k \in 1 .. d : ids[k] \in Stars /\ Free(ids[k])
  BY <1>1, <1>4 DEF FreeNear, Near
<1>7. ids \in [1 .. d -> Stars]
  <2>1. \A k \in 1 .. d : s[q[k]] \in Stars
    BY <1>4, <1>6
  <2>2. QED
    BY <1>5, <2>1
<1>8. \A k, l \in 1 .. d : q[k] = q[l] => k = l
  <2>1. (d > 3 => q[3] < q[4]) /\ (d > 4 => q[4] < q[5])
    <3>1. (d > 3 => 3 \in 3 .. d - 1 /\ 3 + 1 = 4) /\ (d > 4 => 4 \in 3 .. d - 1 /\ 4 + 1 = 5)
      BY <1>3
    <3>2. QED
      BY <1>2, <3>1
  <2>2. q[1] \in Int /\ q[2] \in Int /\ \A k \in 3 .. d : q[k] \in Int
    BY <1>3, <1>4
  <2>3. \A k, l \in 3 .. d : k < l => q[k] < q[l]
    <3>1. CASE d = 3
      BY <3>1
    <3>2. CASE d = 4
      <4>1. \A k, l \in 3 .. 4 : k < l => k = 3 /\ l = 4
        OBVIOUS
      <4>2. QED
        BY <2>1, <3>2, <4>1
    <3>3. CASE d = 5
      <4>1. \A k, l \in 3 .. 5 : k < l => (k = 3 /\ l = 4) \/ (k = 3 /\ l = 5) \/ (k = 4 /\ l = 5)
        OBVIOUS
      <4>2. q[3] \in Int /\ q[4] \in Int /\ q[5] \in Int /\ q[3] < q[4] /\ q[4] < q[5]
        BY <2>1, <2>2, <3>3
      <4>3. QED
        BY <3>3, <4>1, <4>2
    <3>4. QED
      BY <1>3, <3>1, <3>2, <3>3
  <2>4. \A k, l \in 3 .. d : q[k] = q[l] => k = l
    <3>1. \A k, l \in 3 .. d : k < l \/ l < k \/ k = l
      OBVIOUS
    <3>2. \A k, l \in 3 .. d : q[k] < q[l] => q[k] # q[l]
      BY <2>2
    <3>3. QED
      BY <2>3, <3>1, <3>2
  <2>5. \A k \in 1 .. d : k = 1 \/ k = 2 \/ k \in 3 .. d
    BY <1>3
  <2>6. q[1] # q[2]
    BY <1>2, <2>2
  <2>7. QED
    BY <1>2, <2>4, <2>5, <2>6
<1>9. IsInjective(ids)
  BY <1>1, <1>4, <1>7, <1>8 DEF IsInjective
<1>10. Pair([i \in Stars |-> i], ids[1], ids[2], hp)
  BY <1>2, <1>3, <1>4, <1>6 DEF Pair
<1>11. Precedes(ids[1], ids[2])
  BY <1>1, <1>2, <1>3, <1>4
<1>12. \A k \in 3 .. d : Between(ids[k], ids[1], ids[2])
  BY <1>2, <1>3, <1>4
<1>13. \A k \in 3 .. d - 1 : Precedes(ids[k], ids[k + 1])
  BY <1>1, <1>2, <1>3, <1>4
<1>14. QED
  BY <1>6, <1>7, <1>9, <1>10, <1>11, <1>12, <1>13 DEF Possible, d, s, ids

\* and a possible quad of free stars is an arrangement.
LEMMA PossibleIsArranged ==
    ASSUME CatalogTypeOK, SharedCatalog, NEW hp \in Int, NEW q \in Possible(hp),
           \A k \in 1 .. p.dimquads : Free(q[k])
    PROVE  \E r \in Arrangements(FindStars(hp), hp) : Ids(FindStars(hp), r) = q
<1> DEFINE d == p.dimquads
           s == FindStars(hp)
           N == Len(s)
           r == [k \in 1 .. d |-> CHOOSE j \in 1 .. N : s[j] = q[k]]
<1>1. /\ N \in Nat
      /\ \A k \in 1 .. N : s[k] \in FreeNear(hp)
      /\ \A k, l \in 1 .. N : k < l <=> Precedes(s[k], s[l])
      /\ \A k, l \in 1 .. N : s[k] = s[l] => k = l
      /\ IsFiniteSet(FreeNear(hp)) /\ Cardinality(FreeNear(hp)) \in Nat
      /\ Cardinality(FreeNear(hp)) >= p.dimquads =>
            \A i \in FreeNear(hp) : \E k \in 1 .. N : s[k] = i
  BY StarsFound
<1>2. /\ q \in [1 .. d -> Stars] /\ IsInjective(q)
      /\ Pair([i \in Stars |-> i], q[1], q[2], hp) /\ Precedes(q[1], q[2])
      /\ \A k \in 3 .. d : Between(q[k], q[1], q[2])
      /\ \A k \in 3 .. d - 1 : Precedes(q[k], q[k + 1])
  BY DEF Possible
<1>3. /\ d \in 3 .. 5 /\ d \in Nat /\ 1 \in 1 .. d /\ 2 \in 1 .. d
      /\ \A k \in 3 .. d : k \in 1 .. d /\ k # 1 /\ k # 2
      /\ \A k \in 3 .. d - 1 : k \in 1 .. d /\ k + 1 \in 1 .. d
  BY StarNumbers
<1>4. \A k \in 1 .. d : q[k] \in FreeNear(hp)
  BY QuadInReach DEF FreeNear
<1> HIDE DEF s, N, d
<1>5. Cardinality(FreeNear(hp)) >= d
  <2> DEFINE F == FreeNear(hp)
  <2>1. q \in [1 .. d -> F]
    BY <1>2, <1>4
  <2>2. q \in Injection(1 .. d, F)
    BY <2>1, <1>2 DEF Injection, IsInjective
  <2>3. IsFiniteSet(1 .. d) /\ Cardinality(1 .. d) = d
    BY <1>3, IntervalSize
  <2> HIDE DEF F
  <2>4. IsFiniteSet(F) /\ Cardinality(F) \in Nat
    BY <1>1 DEF F
  <2>5. Cardinality(1 .. d) <= Cardinality(F)
    BY <2>2, <2>4, FS_Injection
  <2>6. QED
    BY <1>3, <2>3, <2>4, <2>5 DEF F
<1>6. \A k \in 1 .. d : \E j \in 1 .. N : s[j] = q[k]
  BY <1>1, <1>4, <1>5 DEF d
<1>7. \A k \in 1 .. d : r[k] \in 1 .. N /\ s[r[k]] = q[k]
  BY <1>6
<1>8. r \in [1 .. d -> 1 .. N]
  BY <1>6
<1> HIDE DEF r
<1>9. r[1] < r[2] /\ \A k \in 3 .. d - 1 : r[k] < r[k + 1]
  <2>1. ASSUME NEW k \in 1 .. d, NEW l \in 1 .. d, Precedes(q[k], q[l])
        PROVE  r[k] < r[l]
    <3>1. /\ r[k] \in 1 .. N /\ r[l] \in 1 .. N
          /\ Precedes(s[r[k]], s[r[l]])
      BY <1>7, <2>1
    <3>2. QED
      BY <1>1, <3>1
  <2>2. QED
    BY <1>2, <1>3, <2>1
<1>10. Pair(s, r[1], r[2], hp)
  <2>1. q[1] \in Stars /\ q[2] \in Stars /\ s[r[1]] = q[1] /\ s[r[2]] = q[2]
    BY <1>2, <1>3, <1>7
  <2>2. QED
    BY <1>2, <2>1 DEF Pair
<1>11. \A k \in 3 .. d : Between(s[r[k]], s[r[1]], s[r[2]])
  BY <1>2, <1>3, <1>7
<1>12. \A k \in 3 .. d : r[k] # r[1] /\ r[k] # r[2]
  <2>1. \A k \in 3 .. d : q[k] # q[1] /\ q[k] # q[2]
    BY <1>2, <1>3 DEF IsInjective
  <2>2. QED
    BY <1>3, <1>7, <2>1
<1>13. r \in Arrangements(s, hp)
  BY <1>8, <1>9, <1>10, <1>11, <1>12 DEF Arrangements, N, d
<1>14. Ids(s, r) = q
  <2>1. Ids(s, r) = [k \in 1 .. d |-> s[r[k]]]
    BY <1>8 DEF Ids
  <2>2. q = [k \in 1 .. d |-> q[k]]
    BY <1>2
  <2>3. QED
    BY <1>7, <2>1, <2>2
<1>15. QED
  BY <1>13, <1>14 DEF s

\* The arrangements that are tried when star n comes in, but not those of quads of
\* earlier passes.
TriedNew(s, n, hp) ==
    {q \in OnDiagonal(s, n, hp) \cup Inside(s, n, hp) : IsNew(Ids(s, q))}

\* The quad made in a healpix is one of the first that are tried and new.
LEMMA QuadComes ==
    ASSUME CatalogTypeOK, SharedCatalog, NEW hp \in Int,
           NEW quad \in CreateQuad(FindStars(hp), hp)
    PROVE  LET s == FindStars(hp) IN
           \E n \in 1 .. Len(s) :
               /\ \E q \in TriedNew(s, n, hp) : quad = Ids(s, q)
               /\ \A k \in 1 .. Len(s) : TriedNew(s, k, hp) # {} => n <= k
<1> DEFINE s == FindStars(hp)
           d == p.dimquads
           N == Len(s)
           Fresh(Q) == {q \in Q : IsNew(Ids(s, q))}
           Made(n) == IF Fresh(OnDiagonal(s, n, hp)) /= {} THEN Fresh(OnDiagonal(s, n, hp))
                      ELSE Fresh(Inside(s, n, hp))
           points == {n \in DOMAIN s : Made(n) /= {}}
           least == Min(points)
<1>1. d \in 3 .. 5 /\ N \in Nat /\ DOMAIN s = 1 .. N
  BY StarNumbers, StarsFound
<1>2. points # {} /\ quad = Ids(s, First(Made(least)))
  BY DEF CreateQuad
<1>3. points \subseteq Nat
  BY <1>1
<1>4. least \in points /\ \A k \in points : least <= k
  <2> HIDE DEF points
  <2>1. \E n \in points : \A k \in points : n <= k
    BY <1>2, <1>3, NatMin
  <2>2. QED
    BY <2>1 DEF Min
<1>4a. \A k \in 1 .. N : TriedNew(s, k, hp) # {} => least <= k
  <2>1. \A k \in 1 .. N : TriedNew(s, k, hp) # {} => k \in points
    BY <1>1 DEF TriedNew
  <2>2. QED
    BY <1>4, <2>1
<1>5. least \in 1 .. N /\ Made(least) # {}
  BY <1>1, <1>4
<1> HIDE DEF least, points
<1>6. Made(least) \subseteq {q \in Arrangements(s, hp) : IsNew(Ids(s, q))}
  <2>1. OnDiagonal(s, least, hp) \cup Inside(s, least, hp) \subseteq Arrangements(s, hp)
    <3> HIDE DEF s
    <3>1. QED
      BY <1>1, <1>5, TriesArrangements DEF N, d
  <2>2. QED
    BY <2>1
<1> DEFINE M == Made(least)
<1>7. First(M) \in M
  <2>1. M \subseteq [1 .. d -> 1 .. N]
    <3>1. Arrangements(s, hp) \subseteq [1 .. d -> 1 .. N]
      BY DEF Arrangements
    <3> HIDE DEF M, s
    <3>2. QED
      BY <1>6, <3>1 DEF M
  <2>2. IsFiniteSet([1 .. d -> 1 .. N])
    <3>1. d \in Nat /\ N \in Nat
      BY <1>1
    <3> HIDE DEF d, N
    <3>2. QED
      BY <3>1, FinitelyMany
  <2>3. M # {}
    BY <1>5
  <2> DEFINE T == 1 .. N
             Z == [1 .. d -> T]
  <2>4. M \in SUBSET Z /\ IsFiniteSet(Z) /\ T \in SUBSET Int /\ d \in Nat
    BY <1>1, <2>1, <2>2
  <2> HIDE DEF M, T
  <2>5. IsFiniteSet(M)
    <3> HIDE DEF Z
    <3>1. QED
      BY <2>4, FS_Subset
  <2>6. QED
    BY <2>3, <2>4, <2>5, FirstQuad
<1>8. First(M) \in TriedNew(s, least, hp)
  <2>1. M \subseteq TriedNew(s, least, hp)
    BY DEF TriedNew
  <2> HIDE DEF M, s
  <2>2. QED
    BY <1>7, <2>1
<1>9. quad = Ids(s, First(M))
  BY <1>2
<1> HIDE DEF M
<1>10. QED
  BY <1>4a, <1>5, <1>8, <1>9

\* It is a possible and new one of free stars.
LEMMA QuadMade ==
    ASSUME CatalogTypeOK, SharedCatalog, NEW hp \in Int,
           NEW quad \in CreateQuad(FindStars(hp), hp)
    PROVE  /\ quad \in Possible(hp) /\ quad \notin Range(bigquadlist)
           /\ \A k \in 1 .. p.dimquads : Free(quad[k])
<1> DEFINE s == FindStars(hp)
<1>1. PICK n \in 1 .. Len(s) : \E q \in TriedNew(s, n, hp) : quad = Ids(s, q)
  BY QuadComes
<1>2. PICK q \in TriedNew(s, n, hp) : quad = Ids(s, q)
  BY <1>1
<1>3. q \in Arrangements(s, hp) /\ IsNew(Ids(s, q))
  <2>1. Len(s) \in Nat /\ p.dimquads \in 3 .. 5
    BY StarNumbers, StarsFound
  <2> HIDE DEF s
  <2>2. QED
    BY <1>2, <2>1, TriesArrangements DEF TriedNew
<1>4. quad \in Possible(hp) /\ \A k \in 1 .. p.dimquads : Free(quad[k])
  BY <1>2, <1>3, ArrangementIsPossible
<1>5. quad \notin Range(bigquadlist)
  BY <1>2, <1>3 DEF IsNew
<1>6. QED
  BY <1>4, <1>5

\* When none is made, every possible quad of free stars was made before.
LEMMA NoneMade ==
    ASSUME CatalogTypeOK, SharedCatalog, NEW hp \in Int,
           CreateQuad(FindStars(hp), hp) = {},
           NEW q \in Possible(hp), \A k \in 1 .. p.dimquads : Free(q[k])
    PROVE  q \in Range(bigquadlist)
<1> DEFINE s == FindStars(hp)
           d == p.dimquads
           N == Len(s)
           Fresh(Q) == {x \in Q : IsNew(Ids(s, x))}
           Made(n) == IF Fresh(OnDiagonal(s, n, hp)) /= {} THEN Fresh(OnDiagonal(s, n, hp))
                      ELSE Fresh(Inside(s, n, hp))
           points == {n \in DOMAIN s : Made(n) /= {}}
<1>1. d \in 3 .. 5 /\ N \in Nat /\ DOMAIN s = 1 .. N
  BY StarNumbers, StarsFound
<1>2. points = {}
  <2>1. CreateQuad(s, hp) = IF points = {} THEN {} ELSE {Ids(s, First(Made(Min(points))))}
    BY DEF CreateQuad
  <2> HIDE DEF points
  <2>2. QED
    BY <2>1
<1>3. PICK r \in Arrangements(s, hp) : Ids(s, r) = q
  BY PossibleIsArranged
<1>4. PICK n \in 1 .. N : r \in OnDiagonal(s, n, hp) \cup Inside(s, n, hp)
  <2> HIDE DEF s
  <2>1. QED
    BY <1>1, <1>3, TriesAll DEF N, d
<1>5. Made(n) = {}
  BY <1>1, <1>2
<1>6. r \notin Fresh(OnDiagonal(s, n, hp)) /\ r \notin Fresh(Inside(s, n, hp))
  <2> HIDE DEF Fresh
  <2>1. QED
    BY <1>5
<1>7. ~IsNew(Ids(s, r))
  <2> HIDE DEF s
  <2>1. QED
    BY <1>4, <1>6
<1>8. QED
  BY <1>3, <1>7 DEF IsNew

-----------------------------------------------------------------------------
(* What the builder of quads keeps *)

QuadStages == Stages \ {"read", "place", "startree", "hpquads"}
QuadsOfStars == [1 .. p.dimquads -> Stars]

\* The builder's variables have their types.
QuadsTypeOK ==
    /\ hptotry \in Seq(Hps) /\ todo \in Seq(Hps) /\ retryhps \in Seq(Hps)
    /\ pass \in Nat /\ R \in Nat
    /\ quadlist \in Seq(QuadsOfStars) /\ bigquadlist \in Seq(QuadsOfStars)
    /\ stage \in QuadStages => nuses \in [Stars -> 0 .. 255]

\* All the variables that the catalog and the quads are kept in have their types.
TypeOK == CatalogTypeOK /\ QuadsTypeOK

\* No quad is made, and no limit set, before hpquads starts.
NoQuadsYet ==
    stage \notin QuadStages =>
        /\ todo = << >> /\ retryhps = << >> /\ quadlist = << >> /\ bigquadlist = << >>
        /\ R = 0

\* The limit in force: that of the options, loosened by one a pass.  Without a
\* limit no healpix is put on the retry list.
LimitInForce ==
    /\ R = 0 => retryhps = << >>
    /\ stage = "pass" => R = p.Nreuse
    /\ stage = "loosen" => R # 0 /\ R <= p.Nloosen

\* The healpixes of a pass are different ones, and a quad of this pass has its
\* midpoint in one that was visited.
VisitedOnce ==
    /\ IsInjective(hptotry)
    /\ stage = "pass" =>
           /\ IsInjective(todo)
           /\ \A k \in DOMAIN quadlist :
                  MidHp(quadlist[k][1], quadlist[k][2]) \notin Range(todo)

Surroundings == SharedCatalog /\ NoQuadsYet /\ LimitInForce /\ VisitedOnce

\* The stars of every quad are different ones.
DifferentStars == \A k \in DOMAIN Quads : IsInjective(Quads[k])

\* While there is a limit, the counter of a star is right: it never overflows.
UsesCounted == R # 0 => \A i \in Stars : nuses[i] = Uses(i) /\ Uses(i) <= R

\* Some star of quad q has been used n times.
UsedUp(q, n) == \E k \in 1 .. p.dimquads : nuses[q[k]] >= n

\* Every quad that a healpix on the retry list could still get has a star at the
\* limit; in a loosening pass the quads made so far do,
RetriesUsedUp ==
    \A hp \in Range(retryhps) : \A q \in Possible(hp) \ Range(Quads) : UsedUp(q, R)
LoosenUsesUp ==
    stage = "loosen" => \A k \in DOMAIN quadlist : UsedUp(quadlist[k], R)

\* and what its healpixes could get has one at the limit before.
TodoUsedUp ==
    stage = "loosen" =>
        \A hp \in Range(todo) : \A q \in Possible(hp) \ Range(Quads) : UsedUp(q, R - 1)

QuadsInv ==
    /\ R <= 255 /\ DifferentStars /\ UsesCounted
    /\ RetriesUsedUp /\ LoosenUsesUp /\ TodoUsedUp
    /\ IsInjective(Quads)

\* The quads so far are those of the passes before and those of this pass.
LEMMA QuadNumbers ==
    ASSUME TypeOK
    PROVE  /\ Quads \in Seq(QuadsOfStars)
           /\ DOMAIN Quads = 1 .. Len(Quads) /\ Len(Quads) \in Nat
           /\ Range(Quads) = Range(bigquadlist) \cup Range(quadlist)
           /\ \A k \in DOMAIN Quads : Quads[k] \in QuadsOfStars
           /\ \A k \in DOMAIN quadlist : quadlist[k] \in QuadsOfStars
           /\ \A i : Uses(i) = Cardinality(UsesIn(Quads, i)) /\ Uses(i) \in Nat
           /\ p.dimquads \in Nat /\ Stars \in SUBSET Int
<1>1. bigquadlist \in Seq(QuadsOfStars) /\ quadlist \in Seq(QuadsOfStars)
  BY DEF TypeOK, QuadsTypeOK
<1>2. /\ Quads \in Seq(QuadsOfStars)
      /\ Range(Quads) = Range(bigquadlist) \cup Range(quadlist)
  <2> DEFINE T == QuadsOfStars
  <2>1. bigquadlist \in Seq(T) /\ quadlist \in Seq(T)
    BY <1>1
  <2> HIDE DEF T
  <2>2. /\ bigquadlist \o quadlist \in Seq(T)
        /\ Range(bigquadlist \o quadlist) = Range(bigquadlist) \cup Range(quadlist)
    BY <2>1, ConcatRange
  <2>3. QED
    BY <2>2 DEF Quads, T
<1>3. DOMAIN Quads = 1 .. Len(Quads) /\ Len(Quads) \in Nat
  BY <1>2, LenProperties
<1>4. /\ \A k \in DOMAIN Quads : Quads[k] \in QuadsOfStars
      /\ \A k \in DOMAIN quadlist : quadlist[k] \in QuadsOfStars
  BY <1>1, <1>2, ElementOfSeq, LenProperties
<1>5. ASSUME NEW i PROVE Uses(i) = Cardinality(UsesIn(Quads, i)) /\ Uses(i) \in Nat
  <2>1. UsesIn(Quads, i) \subseteq 1 .. Len(Quads)
    BY <1>3 DEF UsesIn
  <2>2. IsFiniteSet(1 .. Len(Quads))
    BY <1>3, IntervalSize
  <2>3. Cardinality(UsesIn(Quads, i)) \in Nat
    BY <2>1, <2>2, FS_Subset, FS_CardinalityType
  <2>4. QED
    BY <2>3 DEF Uses, UsesIn
<1>6. p.dimquads \in Nat /\ Stars \in SUBSET Int
  BY StarNumbers DEF TypeOK
<1>7. QED
  BY <1>2, <1>3, <1>4, <1>5, <1>6

\* What is said of stars and healpixes stays while the catalog does.
LEMMA StarsStay ==
    ASSUME at' = at, p' = p, uniform' = uniform
    PROVE  /\ Stars' = Stars /\ QuadsOfStars' = QuadsOfStars
           /\ \A a, b : MidHp(a, b)' = MidHp(a, b)
           /\ \A hp : Possible(hp)' = Possible(hp)
<1>1. Stars' = Stars /\ \A i : Pos(i)' = Pos(i)
  BY DEF Stars, Pos
<1>2. QuadsOfStars' = QuadsOfStars
  BY <1>1 DEF QuadsOfStars
<1>3. \A a, b : MidHp(a, b)' = MidHp(a, b)
  BY <1>1 DEF MidHp
<1>4. \A hp : Possible(hp)' = Possible(hp)
  <2>1. \A i, a, b : Between(i, a, b)' <=> Between(i, a, b)
    BY <1>1 DEF Between
  <2>2. \A i, j : Precedes(i, j)' <=> Precedes(i, j)
    BY DEF Precedes
  <2>3. \A s, a, b, hp : Pair(s, a, b, hp)' <=> Pair(s, a, b, hp)
    <3>1. \A a, b : AB(a, b)' = AB(a, b)
      BY DEF AB, Distance
    <3>2. QED
      BY <1>3, <3>1 DEF Pair, ScaleOk
  <2>4. QED
    BY <1>1, <2>1, <2>2, <2>3 DEF Possible
<1>5. QED
  BY <1>1, <1>2, <1>3, <1>4

\* Nothing about quads changes before hpquads starts.
LEMMA EarlySteps ==
    ASSUME TypeOK, Surroundings, UNCHANGED quadvars,
           stage \notin QuadStages, stage' \notin QuadStages
    PROVE  QuadsTypeOK' /\ NoQuadsYet' /\ LimitInForce' /\ VisitedOnce' /\ QuadsInv'
<1>1. /\ todo' = << >> /\ retryhps' = << >> /\ quadlist' = << >> /\ bigquadlist' = << >>
      /\ R' = 0 /\ hptotry' = hptotry /\ pass' = pass /\ nuses' = nuses
  BY DEF Surroundings, NoQuadsYet, quadvars
<1>2. << >> \in Seq(QuadsOfStars') /\ << >> \in Seq(Hps) /\ Range(<< >>) = {} /\ DOMAIN << >> = {}
  BY DEF Range
<1>3. Quads' = << >>
  BY <1>1 DEF Quads
<1>4. QuadsTypeOK'
  BY <1>1, <1>2 DEF TypeOK, QuadsTypeOK
<1>5. stage' # "pass" /\ stage' # "loosen"
  BY DEF QuadStages, Stages
<1>6. NoQuadsYet' /\ LimitInForce'
  BY <1>1, <1>5 DEF NoQuadsYet, LimitInForce
<1>7. VisitedOnce'
  BY <1>1, <1>5 DEF VisitedOnce, Surroundings
<1>8. QuadsInv'
  <2>1. DifferentStars' /\ IsInjective(Quads')
    BY <1>2, <1>3 DEF DifferentStars, IsInjective
  <2>2. UsesCounted' /\ RetriesUsedUp' /\ LoosenUsesUp' /\ TodoUsedUp'
    BY <1>1, <1>2, <1>5 DEF UsesCounted, RetriesUsedUp, LoosenUsesUp, TodoUsedUp
  <2>3. R' <= 255
    BY <1>1
  <2>4. QED
    BY <2>1, <2>2, <2>3 DEF QuadsInv
<1>9. QED
  BY <1>4, <1>6, <1>7, <1>8

\* Nothing about quads changes after hpquads has ended, or when no step is taken.
LEMMA LateSteps ==
    ASSUME TypeOK, Surroundings, UNCHANGED <<at, p, uniform, quadvars>>,
           \/ stage' = stage
           \/ stage \in QuadStages /\ stage' \in QuadStages \ {"pass", "loosen"}
    PROVE  QuadsTypeOK' /\ Surroundings' /\ (QuadsInv => QuadsInv')
<1>1. /\ todo' = todo /\ retryhps' = retryhps /\ quadlist' = quadlist
      /\ bigquadlist' = bigquadlist /\ R' = R /\ hptotry' = hptotry /\ pass' = pass
      /\ nuses' = nuses /\ at' = at /\ p' = p /\ uniform' = uniform
  BY DEF quadvars
<1>2. /\ Stars' = Stars /\ QuadsOfStars' = QuadsOfStars /\ Quads' = Quads
      /\ \A a, b : MidHp(a, b)' = MidHp(a, b)
      /\ \A hp : Possible(hp)' = Possible(hp)
  BY <1>1, StarsStay DEF Quads
<1>3. /\ stage' \in {"read", "place"} => stage \in {"read", "place"}
      /\ stage' \in QuadStages <=> stage \in QuadStages
      /\ stage' = "pass" => stage = "pass"
      /\ stage' = "loosen" => stage = "loosen"
  BY DEF QuadStages
<1>4. QuadsTypeOK'
  BY <1>1, <1>2, <1>3 DEF TypeOK, QuadsTypeOK
<1>5. SharedCatalog' /\ NoQuadsYet' /\ LimitInForce'
  BY <1>1, <1>3 DEF Surroundings, SharedCatalog, NoQuadsYet, LimitInForce
<1>6. VisitedOnce'
  BY <1>1, <1>2, <1>3 DEF Surroundings, VisitedOnce
<1>7. ASSUME QuadsInv PROVE QuadsInv'
  <2>1. \A q, n : UsedUp(q, n)' <=> UsedUp(q, n)
    BY <1>1 DEF UsedUp
  <2>2. DifferentStars' /\ IsInjective(Quads')
    BY <1>2, <1>7 DEF QuadsInv, DifferentStars
  <2>3. UsesCounted'
    BY <1>1, <1>2, <1>7 DEF QuadsInv, UsesCounted, Uses
  <2>4. RetriesUsedUp'
    BY <1>1, <1>2, <1>7, <2>1 DEF QuadsInv, RetriesUsedUp
  <2>5. LoosenUsesUp'
    BY <1>1, <1>3, <1>7, <2>1 DEF QuadsInv, LoosenUsesUp
  <2>6. TodoUsedUp'
    BY <1>1, <1>2, <1>3, <1>7, <2>1 DEF QuadsInv, TodoUsedUp
  <2>7. QED
    BY <1>1, <1>7, <2>2, <2>3, <2>4, <2>5, <2>6 DEF QuadsInv
<1>8. QED
  BY <1>4, <1>5, <1>6, <1>7 DEF Surroundings

\* hpquads starts with every healpix once and no star used.
LEMMA StartQuads_Inv ==
    ASSUME TypeOK, Surroundings, StartQuads, UNCHANGED <<at, p, uniform>>
    PROVE  QuadsTypeOK' /\ Surroundings' /\ (QuadsInv => QuadsInv')
<1>1. /\ stage = "hpquads" /\ stage' = "pass" /\ stage \notin QuadStages /\ "pass" \in QuadStages
      /\ todo' = hptotry' /\ pass' = 1 /\ R' = p.Nreuse /\ nuses' = [i \in Stars |-> 0]
      /\ hptotry' = Increasing(HealpixesToTry)
      /\ retryhps' = << >> /\ quadlist' = << >> /\ bigquadlist' = << >>
      /\ at' = at /\ p' = p /\ uniform' = uniform
  BY DEF StartQuads, QuadStages, Stages, Surroundings, NoQuadsYet
<1>2. << >> \in Seq(QuadsOfStars') /\ << >> \in Seq(Hps) /\ Range(<< >>) = {} /\ DOMAIN << >> = {}
  BY DEF Range
<1>3. Quads' = << >>
  BY <1>1 DEF Quads
<1>4. MaxPos \div HpWidth \in Nat /\ Hps \subseteq Int /\ IsFiniteSet(Hps)
  <2>1. MaxPos \in Nat /\ HpWidth \in Nat \ {0}
    BY GridAssumption, HpAssumption
  <2>2. MaxPos \div HpWidth \in Nat
    BY <2>1
  <2>3. QED
    BY <2>2, FS_Interval DEF Hps
<1>5. HealpixesToTry \subseteq Hps
  <2>1. \A n \in 0 .. MaxPos, w \in Nat \ {0} : n \div w \in 0 .. MaxPos \div w
    BY GridAssumption
  <2>2. \A i \in Stars : Pos(i) \div HpWidth \in Hps
    BY <2>1, StarNumbers DEF Hps, TypeOK
  <2>3. QED
    BY <2>2 DEF HealpixesToTry
<1>6. HealpixesToTry \in SUBSET Int /\ IsFiniteSet(HealpixesToTry)
  BY <1>4, <1>5, FS_Subset
<1> DEFINE h == Increasing(HealpixesToTry)
<1>7. /\ h \in Seq(HealpixesToTry) /\ Len(h) \in Nat
      /\ \A i, j \in 1 .. Len(h) : h[i] = h[j] => i = j
  BY <1>6, IncreasingNumbers
<1> HIDE DEF h
<1>8. DOMAIN h = 1 .. Len(h) /\ h \in Seq(Hps) /\ IsInjective(h)
  <2>1. DOMAIN h = 1 .. Len(h) /\ h \in [1 .. Len(h) -> HealpixesToTry]
    BY <1>7, LenProperties
  <2>2. h \in [1 .. Len(h) -> Hps]
    BY <2>1, <1>5
  <2>3. h \in Seq(Hps)
    BY <1>7, <2>2, FunctionIsSequence
  <2>4. QED
    BY <1>7, <2>1, <2>3 DEF IsInjective
<1>9. hptotry' = h
  BY <1>1 DEF h
<1>10. Stars' = Stars
  BY <1>1 DEF Stars
<1>11a. R' \in Nat /\ R' <= 255
  <2>1. CatalogTypeOK
    BY DEF TypeOK
  <2>2. p.Nreuse \in 0 .. 255
    BY <2>1, StarNumbers
  <2>3. R' \in 0 .. 255
    BY <1>1, <2>2
  <2>4. QED
    BY <2>3
<1>11. QuadsTypeOK'
  <2>2. nuses' \in [Stars' -> 0 .. 255]
    BY <1>1, <1>10
  <2>3. QED
    BY <1>1, <1>2, <1>8, <1>9, <1>11a, <2>2 DEF QuadsTypeOK
<1>12. SharedCatalog' /\ NoQuadsYet' /\ LimitInForce'
  BY <1>1 DEF Surroundings, SharedCatalog, NoQuadsYet, LimitInForce
<1>13. VisitedOnce'
  BY <1>1, <1>2, <1>8, <1>9 DEF VisitedOnce
<1>14. QuadsInv'
  <2>1. DifferentStars' /\ IsInjective(Quads')
    BY <1>2, <1>3 DEF DifferentStars, IsInjective
  <2>2. UsesCounted'
    <3>1. ASSUME NEW i \in Stars' PROVE nuses'[i] = Uses(i)' /\ Uses(i)' <= R'
      <4>1. nuses'[i] = 0
        BY <1>1, <1>10
      <4>2. Uses(i)' = Cardinality({})
        BY <1>2, <1>3 DEF Uses
      <4>3. QED
        BY <1>11a, <4>1, <4>2, FS_EmptySet
    <3>2. QED
      BY <3>1 DEF UsesCounted
  <2>3. RetriesUsedUp' /\ LoosenUsesUp' /\ TodoUsedUp'
    BY <1>1, <1>2 DEF RetriesUsedUp, LoosenUsesUp, TodoUsedUp
  <2>4. QED
    BY <1>11a, <2>1, <2>2, <2>3 DEF QuadsInv
<1>15. QED
  BY <1>11, <1>12, <1>13, <1>14 DEF Surroundings


\* At the end of a pass its quads are put in order with those before.
LEMMA MergeKeeps ==
    ASSUME TypeOK, MergeQuads, at' = at, p' = p, uniform' = uniform
    PROVE  /\ bigquadlist' \in Seq(QuadsOfStars') /\ quadlist' = << >>
           /\ Range(Quads') = Range(Quads)
           /\ IsInjective(Quads) => IsInjective(Quads')
           /\ DifferentStars => DifferentStars'
           /\ \A i : Uses(i)' = Uses(i)
<1> DEFINE T == Stars
           d == p.dimquads
           Q == [1 .. d -> T]
           all == Quads
<1>1. all \in Seq(Q) /\ d \in Nat /\ T \in SUBSET Int /\ DOMAIN all = 1 .. Len(all)
  BY QuadNumbers DEF QuadsOfStars
<1>2. bigquadlist' = Merged(all)
  BY DEF MergeQuads, Quads, Merged
<1>3. quadlist' = << >>
  BY DEF MergeQuads
<1> DEFINE m == bigquadlist'
<1>4. m = Merged(all)
  BY <1>2
<1>a. all = Quads /\ Q = QuadsOfStars
  BY DEF QuadsOfStars
<1> HIDE DEF all, d, T, m
<1>5. m \in Seq(Q) /\ SameQuads(m, all)
  BY <1>1, <1>4, Merging
<1> HIDE DEF Q
<1>6. Quads' = m
  <2>1. m \o << >> = m
    BY <1>5, ConcatEmptySeq
  <2>2. QED
    BY <1>3, <2>1 DEF Quads, m
<1>7. QuadsOfStars' = QuadsOfStars
  BY StarsStay
<1>8. ASSUME NEW i PROVE Uses(i)' = Uses(i)
  <2>1. Uses(i)' = Cardinality(UsesIn(m, i))
    BY <1>6 DEF Uses, UsesIn
  <2>2. Uses(i) = Cardinality(UsesIn(all, i))
    BY <1>a DEF Uses, UsesIn
  <2>3. QED
    BY <2>1, <2>2, <1>5 DEF SameQuads
<1>9. ASSUME DifferentStars PROVE DifferentStars'
  <2>1. \A q \in Range(all) : IsInjective(q)
    BY <1>a, <1>9 DEF DifferentStars, Range
  <2>2. \A k \in DOMAIN m : m[k] \in Range(all)
    BY <1>5 DEF SameQuads, Range
  <2>3. QED
    BY <1>6, <2>1, <2>2 DEF DifferentStars
<1>10. QED
  BY <1>3, <1>5, <1>6, <1>7, <1>8, <1>9, <1>a DEF SameQuads, m


\* What the end of a pass changes and keeps, whatever comes next.
LEMMA EndKeeps ==
    ASSUME TypeOK, Surroundings, MergeQuads, UNCHANGED <<at, p, uniform, hptotry, nuses>>,
           stage \in {"pass", "loosen"}, stage' \in QuadStages,
           todo' \in Seq(Hps), retryhps' \in Seq(Hps), pass' \in Nat, R' \in Nat
    PROVE  /\ QuadsTypeOK' /\ SharedCatalog' /\ NoQuadsYet'
           /\ DifferentStars => DifferentStars'
           /\ IsInjective(Quads) => IsInjective(Quads')
           /\ quadlist' = << >> /\ Range(Quads') = Range(Quads)
           /\ Stars' = Stars
           /\ \A i : Uses(i)' = Uses(i)
           /\ \A hp : Possible(hp)' = Possible(hp)
           /\ \A q, n : (\E k \in 1 .. p'.dimquads : nuses'[q[k]] >= n) <=> UsedUp(q, n)
<1>1. /\ bigquadlist' \in Seq(QuadsOfStars') /\ quadlist' = << >>
      /\ Range(Quads') = Range(Quads)
      /\ IsInjective(Quads) => IsInjective(Quads')
      /\ DifferentStars => DifferentStars'
      /\ \A i : Uses(i)' = Uses(i)
  BY MergeKeeps
<1>2. /\ Stars' = Stars /\ QuadsOfStars' = QuadsOfStars
      /\ \A hp : Possible(hp)' = Possible(hp)
  BY StarsStay
<1>3. << >> \in Seq(QuadsOfStars')
  OBVIOUS
<1>4. stage \in QuadStages
  BY DEF QuadStages, Stages
<1>5. QuadsTypeOK'
  BY <1>1, <1>2, <1>3, <1>4 DEF TypeOK, QuadsTypeOK
<1>6. SharedCatalog' /\ NoQuadsYet'
  BY DEF Surroundings, SharedCatalog, NoQuadsYet, QuadStages
<1>7. QED
  BY <1>1, <1>2, <1>5, <1>6 DEF UsedUp

\* A pass that loosens the limit starts with the healpixes of the retry list.
LEMMA Loosening ==
    ASSUME TypeOK, Surroundings, MergeQuads, UNCHANGED <<at, p, uniform, hptotry, nuses>>,
           stage \in {"pass", "loosen"}, stage' = "loosen",
           R < p.Nloosen, retryhps # << >>,
           R' = R + 1, pass' = pass + 1, todo' = retryhps, retryhps' = << >>
    PROVE  /\ QuadsTypeOK' /\ Surroundings'
           /\ (\A q \in Params : q.Nloosen <= 255) /\ QuadsInv => QuadsInv'
<1>1. /\ p.Nloosen \in Nat /\ p \in Params /\ R \in Nat /\ pass \in Nat /\ p.dimquads \in Nat
      /\ todo \in Seq(Hps) /\ retryhps \in Seq(Hps)
  <2>1. CatalogTypeOK
    BY DEF TypeOK
  <2>2. QED
    BY <2>1, StarNumbers DEF TypeOK, CatalogTypeOK, QuadsTypeOK
<1>2. << >> \in Seq(Hps) /\ DOMAIN << >> = {} /\ Range(<< >>) = {}
  BY DEF Range
<1>3. R # 0
  BY DEF Surroundings, LimitInForce
<1>4. stage' \in QuadStages
  BY DEF QuadStages, Stages
<1>5. R' \in Nat /\ pass' \in Nat
  BY <1>1
<1>6. /\ QuadsTypeOK' /\ SharedCatalog' /\ NoQuadsYet'
      /\ DifferentStars => DifferentStars'
      /\ IsInjective(Quads) => IsInjective(Quads')
      /\ quadlist' = << >> /\ Range(Quads') = Range(Quads)
      /\ Stars' = Stars
      /\ \A i : Uses(i)' = Uses(i)
      /\ \A hp : Possible(hp)' = Possible(hp)
      /\ \A q, n : (\E k \in 1 .. p'.dimquads : nuses'[q[k]] >= n) <=> UsedUp(q, n)
  BY <1>1, <1>2, <1>4, <1>5, EndKeeps
<1>7. LimitInForce'
  BY <1>1 DEF LimitInForce
<1>8. VisitedOnce'
  BY DEF Surroundings, VisitedOnce
<1>9. ASSUME \A q \in Params : q.Nloosen <= 255, QuadsInv
      PROVE  QuadsInv'
  <2>1. R' <= 255
    BY <1>1, <1>9
  <2>2. DifferentStars' /\ IsInjective(Quads')
    BY <1>6, <1>9 DEF QuadsInv
  <2>3. UsesCounted'
    <3>1. ASSUME NEW i \in Stars PROVE nuses[i] = Uses(i) /\ Uses(i) <= R'
      <4>1. nuses[i] = Uses(i) /\ Uses(i) <= R
        BY <1>3, <1>9 DEF QuadsInv, UsesCounted
      <4>2. Uses(i) \in Nat
        BY QuadNumbers
      <4>3. QED
        BY <1>1, <4>1, <4>2
    <3>2. QED
      BY <1>6, <3>1 DEF UsesCounted
  <2>4. RetriesUsedUp' /\ LoosenUsesUp'
    BY <1>2, <1>6 DEF RetriesUsedUp, LoosenUsesUp
  <2>5. TodoUsedUp'
    <3>1. R' - 1 = R
      BY <1>1
    <3>2. \A hp \in Range(retryhps) : \A q \in Possible(hp) \ Range(Quads) : UsedUp(q, R)
      BY <1>9 DEF QuadsInv, RetriesUsedUp
    <3>3. \A hp \in Range(todo') : \A q \in Possible(hp)' \ Range(Quads') :
                 \E k \in 1 .. p'.dimquads : nuses'[q[k]] >= R' - 1
      BY <1>6, <3>1, <3>2
    <3>4. QED
      BY <3>3 DEF TodoUsedUp, UsedUp
  <2>6. QED
    BY <2>1, <2>2, <2>3, <2>4, <2>5 DEF QuadsInv
<1>10. QED
  BY <1>6, <1>7, <1>8, <1>9 DEF Surroundings

\* Another pass, or the end, leaves the limit and the retry list as they are.
LEMMA Ending ==
    ASSUME TypeOK, Surroundings, MergeQuads, UNCHANGED <<at, p, uniform, hptotry, nuses>>,
           stage \in {"pass", "loosen"}, R' = R, retryhps' = retryhps,
           \/ stage = "pass" /\ stage' = "pass" /\ todo' = hptotry /\ pass' = pass + 1
           \/ stage' = "writequads" /\ todo' = todo /\ pass' = pass
    PROVE  QuadsTypeOK' /\ Surroundings' /\ (QuadsInv => QuadsInv')
<1>1. /\ R \in Nat /\ pass \in Nat /\ todo' \in Seq(Hps) /\ retryhps' \in Seq(Hps)
  BY DEF TypeOK, QuadsTypeOK
<1>2. DOMAIN << >> = {}
  OBVIOUS
<1>3. stage' \in QuadStages /\ stage' # "loosen" /\ pass' \in Nat
  BY <1>1 DEF QuadStages, Stages
<1>4. /\ QuadsTypeOK' /\ SharedCatalog' /\ NoQuadsYet'
      /\ DifferentStars => DifferentStars'
      /\ IsInjective(Quads) => IsInjective(Quads')
      /\ quadlist' = << >> /\ Range(Quads') = Range(Quads)
      /\ Stars' = Stars
      /\ \A i : Uses(i)' = Uses(i)
      /\ \A hp : Possible(hp)' = Possible(hp)
      /\ \A q, n : (\E k \in 1 .. p'.dimquads : nuses'[q[k]] >= n) <=> UsedUp(q, n)
  BY <1>1, <1>3, EndKeeps
<1>5. LimitInForce'
  BY <1>3 DEF Surroundings, LimitInForce
<1>6. VisitedOnce'
  BY <1>2, <1>4 DEF Surroundings, VisitedOnce
<1>7. ASSUME QuadsInv PROVE QuadsInv'
  <2>1. R' <= 255 /\ DifferentStars' /\ IsInjective(Quads')
    BY <1>4, <1>7 DEF QuadsInv
  <2>2. UsesCounted'
    BY <1>4, <1>7 DEF QuadsInv, UsesCounted
  <2>3. RetriesUsedUp'
    <3>1. \A hp \in Range(retryhps) : \A q \in Possible(hp) \ Range(Quads) : UsedUp(q, R)
      BY <1>7 DEF QuadsInv, RetriesUsedUp
    <3>2. \A hp \in Range(retryhps') : \A q \in Possible(hp)' \ Range(Quads') :
                 \E k \in 1 .. p'.dimquads : nuses'[q[k]] >= R'
      BY <1>4, <3>1
    <3>3. QED
      BY <3>2 DEF RetriesUsedUp, UsedUp
  <2>4. LoosenUsesUp' /\ TodoUsedUp'
    BY <1>3 DEF LoosenUsesUp, TodoUsedUp
  <2>5. QED
    BY <2>1, <2>2, <2>3, <2>4 DEF QuadsInv
<1>8. QED
  BY <1>4, <1>5, <1>6, <1>7 DEF Surroundings

\* The end of a pass, and of a loosening pass.
LEMMA EndPass_Inv ==
    ASSUME TypeOK, Surroundings, EndPass \/ EndLoosening, UNCHANGED <<at, p, uniform>>
    PROVE  /\ QuadsTypeOK' /\ Surroundings'
           /\ (\A q \in Params : q.Nloosen <= 255) /\ QuadsInv => QuadsInv'
<1>1. /\ MergeQuads /\ UNCHANGED <<at, p, uniform, hptotry, nuses>>
      /\ stage \in {"pass", "loosen"}
  BY DEF EndPass, EndLoosening
<1>2. \/ /\ stage' = "loosen" /\ R < p.Nloosen /\ retryhps # << >>
         /\ R' = R + 1 /\ pass' = pass + 1 /\ todo' = retryhps /\ retryhps' = << >>
      \/ /\ R' = R /\ retryhps' = retryhps
         /\ \/ stage = "pass" /\ stage' = "pass" /\ todo' = hptotry /\ pass' = pass + 1
            \/ stage' = "writequads" /\ todo' = todo /\ pass' = pass
  <2>1. CASE EndPass
    <3>1. stage = "pass" => R = p.Nreuse
      BY DEF Surroundings, LimitInForce
    <3>2. p.Nloosen \in Nat /\ p.Nreuse \in 0 .. 255
      <4>1. CatalogTypeOK
        BY DEF TypeOK
      <4>2. QED
        BY <4>1, StarNumbers
    <3>3. p.Nloosen > p.Nreuse => p.Nreuse < p.Nloosen
      BY <3>2
    <3>4. QED
      BY <2>1, <3>1, <3>3 DEF EndPass
  <2>2. CASE EndLoosening
    BY <2>2 DEF EndLoosening
  <2>3. QED
    BY <2>1, <2>2
<1>3. QED
  BY <1>1, <1>2, Loosening, Ending


\* The healpixes that are left after a visit.
LEMMA TodoShrinks ==
    ASSUME NEW T, NEW s \in Seq(T), s # << >>
    PROVE  /\ Tail(s) \in Seq(T) /\ Head(s) \in T /\ Head(s) \in Range(s)
           /\ Range(Tail(s)) \subseteq Range(s)
           /\ IsInjective(s) => IsInjective(Tail(s)) /\ Head(s) \notin Range(Tail(s))
<1>1. /\ Tail(s) \in Seq(T) /\ Head(s) \in T
      /\ Range(s) = {Head(s)} \cup Range(Tail(s))
      /\ Len(s) \in Nat \ {0} /\ Len(Tail(s)) = Len(s) - 1 /\ Head(s) = s[1]
      /\ \A i \in 1 .. Len(s) - 1 : Tail(s)[i] = s[i + 1]
  BY TailRange
<1>2. DOMAIN s = 1 .. Len(s) /\ DOMAIN Tail(s) = 1 .. Len(s) - 1
  BY <1>1, LenProperties
<1>3. ASSUME IsInjective(s) PROVE IsInjective(Tail(s)) /\ Head(s) \notin Range(Tail(s))
  <2> DEFINE n == Len(s)
             t == Tail(s)
  <2>1. \A i, j \in 1 .. n : s[i] = s[j] => i = j
    BY <1>2, <1>3 DEF IsInjective
  <2>2. \A i \in 1 .. n - 1 : i + 1 \in 1 .. n /\ t[i] = s[i + 1] /\ i + 1 # 1
    BY <1>1
  <2>3. 1 \in 1 .. n
    BY <1>1
  <2>4. DOMAIN t = 1 .. n - 1 /\ Head(s) = s[1]
    BY <1>1, <1>2
  <2> HIDE DEF n, t
  <2>5. \A i, j \in 1 .. n - 1 : t[i] = t[j] => i = j
    BY <2>1, <2>2
  <2>6. \A i \in 1 .. n - 1 : t[i] # s[1]
    BY <2>1, <2>2, <2>3
  <2>7. IsInjective(t) /\ Head(s) \notin Range(t)
    BY <2>4, <2>5, <2>6 DEF IsInjective, Range
  <2>8. QED
    BY <2>7 DEF t
<1>4. QED
  BY <1>1, <1>3

\* What a visit keeps, with or without a new quad.
LEMMA VisitKeeps ==
    ASSUME TypeOK, Surroundings, stage \in {"pass", "loosen"}, todo # << >>,
           UNCHANGED <<at, p, uniform, stage, hptotry, pass, R, bigquadlist>>,
           todo' = Tail(todo)
    PROVE  /\ CatalogTypeOK /\ SharedCatalog /\ SharedCatalog' /\ NoQuadsYet'
           /\ Head(todo) \in Hps /\ Head(todo) \in Int /\ Head(todo) \in Range(todo)
           /\ todo' \in Seq(Hps) /\ Range(todo') \subseteq Range(todo)
           /\ stage = "pass" => IsInjective(todo') /\ Head(todo) \notin Range(todo')
           /\ R \in Nat /\ p.dimquads \in 3 .. 5 /\ nuses \in [Stars -> 0 .. 255]
<1>1. CatalogTypeOK /\ SharedCatalog
  BY DEF TypeOK, Surroundings
<1>2. stage \in QuadStages
  BY DEF QuadStages, Stages
<1>3. todo \in Seq(Hps) /\ R \in Nat /\ nuses \in [Stars -> 0 .. 255]
  BY <1>2 DEF TypeOK, QuadsTypeOK
<1>4. /\ todo' \in Seq(Hps) /\ Head(todo) \in Hps /\ Head(todo) \in Range(todo)
      /\ Range(todo') \subseteq Range(todo)
      /\ IsInjective(todo) => IsInjective(todo') /\ Head(todo) \notin Range(todo')
  BY <1>3, TodoShrinks
<1>5. Head(todo) \in Int
  BY <1>4 DEF Hps
<1>6. SharedCatalog' /\ NoQuadsYet'
  BY <1>1, <1>2 DEF SharedCatalog, NoQuadsYet
<1>7. stage = "pass" => IsInjective(todo)
  BY DEF Surroundings, VisitedOnce
<1>8. QED
  BY <1>1, <1>3, <1>4, <1>5, <1>6, <1>7, StarNumbers

\* A visit without a quad: the healpix goes on the retry list, with every quad it
\* could still get used up.
LEMMA VisitNone ==
    ASSUME TypeOK, Surroundings, stage \in {"pass", "loosen"}, todo # << >>,
           UNCHANGED <<at, p, uniform, stage, hptotry, pass, R, bigquadlist>>,
           todo' = Tail(todo), quadlist' = quadlist, nuses' = nuses,
           CreateQuad(FindStars(Head(todo)), Head(todo)) = {},
           retryhps' = IF R /= 0 /\ Near(Head(todo)) /= {} /\ p.Nloosen /= 0
                       THEN Append(retryhps, Head(todo)) ELSE retryhps
    PROVE  QuadsTypeOK' /\ Surroundings' /\ (QuadsInv => QuadsInv')
<1> DEFINE hp == Head(todo)
<1>1. /\ CatalogTypeOK /\ SharedCatalog /\ SharedCatalog' /\ NoQuadsYet'
      /\ hp \in Hps /\ hp \in Int /\ hp \in Range(todo)
      /\ todo' \in Seq(Hps) /\ Range(todo') \subseteq Range(todo)
      /\ stage = "pass" => IsInjective(todo') /\ hp \notin Range(todo')
      /\ R \in Nat /\ p.dimquads \in 3 .. 5 /\ nuses \in [Stars -> 0 .. 255]
  BY VisitKeeps
<1>2. CreateQuad(FindStars(hp), hp) = {}
  OBVIOUS
<1>3. /\ R = 0 => retryhps' = retryhps
      /\ retryhps' = retryhps \/ retryhps' = Append(retryhps, hp)
  OBVIOUS
<1> HIDE DEF hp
<1>4. /\ retryhps' \in Seq(Hps)
      /\ Range(retryhps') \subseteq Range(retryhps) \cup {hp}
  <2>1. retryhps \in Seq(Hps)
    BY DEF TypeOK, QuadsTypeOK
  <2>2. /\ Append(retryhps, hp) \in Seq(Hps)
        /\ Range(Append(retryhps, hp)) = Range(retryhps) \cup {hp}
    BY <1>1, <2>1, AppendRange
  <2>3. QED
    BY <1>3, <2>1, <2>2
<1>5. /\ Stars' = Stars /\ QuadsOfStars' = QuadsOfStars /\ Quads' = Quads
      /\ \A a, b : MidHp(a, b)' = MidHp(a, b)
      /\ \A x : Possible(x)' = Possible(x)
  BY StarsStay DEF Quads
<1>6. QuadsTypeOK'
  BY <1>1, <1>4, <1>5 DEF TypeOK, QuadsTypeOK
<1>7. LimitInForce'
  BY <1>3 DEF Surroundings, LimitInForce
<1>8. VisitedOnce'
  BY <1>1, <1>5 DEF Surroundings, VisitedOnce
<1>9. ASSUME NEW q \in Possible(hp) \ Range(Quads) PROVE UsedUp(q, R)
  <2>1. q \notin Range(bigquadlist)
    BY QuadNumbers
  <2>2. PICK k \in 1 .. p.dimquads : ~Free(q[k])
    BY <1>1, <1>2, <2>1, NoneMade
  <2>3. q[k] \in Stars
    BY <2>2 DEF Possible
  <2>4. nuses[q[k]] \in Int
    <3>1. \A i \in Stars : nuses[i] \in 0 .. 255
      BY <1>1
    <3>2. \A n \in 0 .. 255 : n \in Int
      OBVIOUS
    <3>3. QED
      BY <2>3, <3>1, <3>2, Zenon
  <2>5. nuses[q[k]] >= R
    BY <1>1, <2>2, <2>4 DEF Free
  <2>6. QED
    BY <2>5 DEF UsedUp
<1>10. ASSUME QuadsInv PROVE QuadsInv'
  <2>1. \A q, n : UsedUp(q, n)' <=> UsedUp(q, n)
    BY DEF UsedUp
  <2>2. R' <= 255 /\ DifferentStars' /\ IsInjective(Quads')
    BY <1>5, <1>10 DEF QuadsInv, DifferentStars
  <2>3. UsesCounted'
    BY <1>5, <1>10 DEF QuadsInv, UsesCounted, Uses
  <2>4. RetriesUsedUp'
    <3>1. \A x \in Range(retryhps) \cup {hp} : \A q \in Possible(x) \ Range(Quads) : UsedUp(q, R)
      BY <1>9, <1>10 DEF QuadsInv, RetriesUsedUp
    <3>2. QED
      BY <1>4, <1>5, <2>1, <3>1 DEF RetriesUsedUp
  <2>5. LoosenUsesUp'
    BY <1>10, <2>1 DEF QuadsInv, LoosenUsesUp
  <2>6. TodoUsedUp'
    BY <1>1, <1>5, <1>10, <2>1 DEF QuadsInv, TodoUsedUp
  <2>7. QED
    BY <2>2, <2>3, <2>4, <2>5, <2>6 DEF QuadsInv
<1>11. QED
  BY <1>1, <1>6, <1>7, <1>8, <1>10 DEF Surroundings


\* A new quad at the end of a list adds one use to each of its stars.
LEMMA OneMore ==
    ASSUME NEW T, NEW all \in Seq(T), NEW q \in T, NEW i
    PROVE  /\ Cardinality(UsesIn(all, i)) \in Nat
           /\ i \in Range(q) =>
                 Cardinality(UsesIn(Append(all, q), i)) = Cardinality(UsesIn(all, i)) + 1
           /\ i \notin Range(q) =>
                 Cardinality(UsesIn(Append(all, q), i)) = Cardinality(UsesIn(all, i))
<1> DEFINE n == Len(all)
           a == Append(all, q)
           U == UsesIn(all, i)
           V == UsesIn(a, i)
<1>1. /\ DOMAIN all = 1 .. n /\ DOMAIN a = 1 .. n + 1 /\ n \in Nat
      /\ \A k \in 1 .. n : a[k] = all[k]
      /\ a[n + 1] = q
  BY AppendProperties, LenProperties
<1>2. \A k \in 1 .. n + 1 : k \in 1 .. n \/ k = n + 1
  BY <1>1
<1>3. 1 .. n \subseteq 1 .. n + 1 /\ n + 1 \in 1 .. n + 1 /\ n + 1 \notin 1 .. n
  BY <1>1
<1>4. U = {k \in 1 .. n : i \in Range(all[k])} /\ V = {k \in 1 .. n + 1 : i \in Range(a[k])}
  BY <1>1 DEF UsesIn
<1>5. IsFiniteSet(1 .. n)
  BY <1>1, IntervalSize
<1> HIDE DEF n, a, U, V
<1>6. U \subseteq 1 .. n /\ IsFiniteSet(U) /\ Cardinality(U) \in Nat
  BY <1>4, <1>5, FS_Subset, FS_CardinalityType
<1>7. i \in Range(q) => V = U \cup {n + 1}
  BY <1>1, <1>2, <1>3, <1>4
<1>8. i \notin Range(q) => V = U
  BY <1>1, <1>2, <1>3, <1>4
<1>9. n + 1 \notin U
  BY <1>3, <1>6
<1>10. Cardinality(U \cup {n + 1}) = Cardinality(U) + 1
  BY <1>6, <1>9, FS_AddElement
<1>11. QED
  BY <1>6, <1>7, <1>8, <1>10 DEF U, V, a

\* A quad added at the end of the list of a pass is at the end of all quads.
LEMMA AddedLast ==
    ASSUME NEW T, NEW s \in Seq(T), NEW t \in Seq(T), NEW x \in T
    PROVE  /\ s \o t \in Seq(T) /\ s \o Append(t, x) = Append(s \o t, x)
           /\ x \notin Range(s \o t) /\ IsInjective(s \o t) => IsInjective(s \o Append(t, x))
           /\ \A k \in DOMAIN (s \o Append(t, x)) :
                  (s \o Append(t, x))[k] \in Range(s \o t) \cup {x}
<1>1. s \o t \in Seq(T)
  BY ConcatRange
<1>2. s \o Append(t, x) = Append(s \o t, x)
  <2>1. Append(t, x) = t \o <<x>> /\ Append(s \o t, x) = (s \o t) \o <<x>>
    BY <1>1, AppendIsConcat
  <2>2. <<x>> \in Seq(T)
    OBVIOUS
  <2>3. s \o (t \o <<x>>) = (s \o t) \o <<x>>
    BY <2>2, ConcatAssociative
  <2>4. QED
    BY <2>1, <2>3
<1> DEFINE c == s \o t
           a == Append(c, x)
           n == Len(c)
<1>3. /\ DOMAIN c = 1 .. n /\ DOMAIN a = 1 .. n + 1 /\ n \in Nat
      /\ \A k \in 1 .. n : a[k] = c[k]
      /\ a[n + 1] = x
  BY <1>1, AppendProperties, LenProperties
<1>4. \A k \in 1 .. n + 1 : k \in 1 .. n \/ k = n + 1
  BY <1>3
<1>a. a = Append(c, x) /\ c = s \o t
  OBVIOUS
<1> HIDE DEF a, c, n
<1>5. \A k \in 1 .. n : c[k] \in Range(c)
  BY <1>3 DEF Range
<1>6. x \notin Range(c) /\ IsInjective(c) => IsInjective(a)
  BY <1>3, <1>4, <1>5 DEF IsInjective
<1>7. \A k \in DOMAIN a : a[k] \in Range(c) \cup {x}
  BY <1>3, <1>4, <1>5
<1>8. QED
  BY <1>1, <1>2, <1>6, <1>7, <1>a


\* The counters of a quad's stars go up by one, and none overflows while there is
\* a limit.
LEMMA CountersRise ==
    ASSUME nuses \in [Stars -> 0 .. 255], R \in Nat, R # 0, R <= 255,
           NEW quad, Range(quad) \subseteq Stars, \A i \in Range(quad) : Free(i),
           nuses' = CountUses(quad)
    PROVE  \A i \in Stars :
               /\ nuses[i] \in Int /\ nuses'[i] \in Int
               /\ i \in Range(quad) => nuses'[i] = nuses[i] + 1 /\ nuses'[i] <= R
               /\ i \notin Range(quad) => nuses'[i] = nuses[i]
<1> TAKE i \in Stars
<1>1. nuses[i] \in 0 .. 255
  OBVIOUS
<1>2. nuses'[i] = IF i \in Range(quad) THEN (nuses[i] + 1) % 256 ELSE nuses[i]
  BY DEF CountUses
<1>3. i \in Range(quad) => nuses[i] < R
  BY DEF Free
<1>4. \A n \in 0 .. 255 : n < R => (n + 1) % 256 = n + 1 /\ n + 1 <= R
  OBVIOUS
<1>5. i \in Range(quad) => nuses'[i] = nuses[i] + 1 /\ nuses'[i] <= R
  BY <1>1, <1>2, <1>3, <1>4
<1>6. QED
  BY <1>1, <1>2, <1>5

\* While there is a limit a quad that is used up stays so.
LEMMA StaysUsedUp ==
    ASSUME nuses \in [Stars -> 0 .. 255], R \in Nat, R # 0, R <= 255, p' = p,
           NEW quad, Range(quad) \subseteq Stars, \A i \in Range(quad) : Free(i),
           nuses' = CountUses(quad),
           NEW q \in QuadsOfStars, NEW n \in Int, UsedUp(q, n)
    PROVE  UsedUp(q, n)'
<1>1. PICK k \in 1 .. p.dimquads : nuses[q[k]] >= n
  BY DEF UsedUp
<1>2. q[k] \in Stars
  BY DEF QuadsOfStars
<1> DEFINE i == q[k]
<1>3. i \in Stars /\ nuses[i] >= n
  BY <1>1, <1>2
<1> HIDE DEF i
<1>4. nuses[i] \in Int /\ nuses'[i] \in Int /\ (nuses'[i] = nuses[i] \/ nuses'[i] = nuses[i] + 1)
  BY <1>3, CountersRise
<1>5. nuses'[i] >= n
  BY <1>3, <1>4
<1>6. \E j \in 1 .. p'.dimquads : nuses'[q[j]] >= n
  BY <1>5 DEF i
<1>7. QED
  BY <1>6 DEF UsedUp

\* A visit with a new quad.
LEMMA VisitMade ==
    ASSUME TypeOK, Surroundings, stage \in {"pass", "loosen"}, todo # << >>,
           UNCHANGED <<at, p, uniform, stage, hptotry, pass, R, bigquadlist>>,
           todo' = Tail(todo), retryhps' = retryhps,
           NEW quad \in CreateQuad(FindStars(Head(todo)), Head(todo)),
           quadlist' = Append(quadlist, quad), nuses' = CountUses(quad)
    PROVE  QuadsTypeOK' /\ Surroundings' /\ (QuadsInv => QuadsInv')
<1> DEFINE hp == Head(todo)
<1>1. /\ CatalogTypeOK /\ SharedCatalog /\ SharedCatalog' /\ NoQuadsYet'
      /\ hp \in Hps /\ hp \in Int /\ hp \in Range(todo)
      /\ todo' \in Seq(Hps) /\ Range(todo') \subseteq Range(todo)
      /\ stage = "pass" => IsInjective(todo') /\ hp \notin Range(todo')
      /\ R \in Nat /\ p.dimquads \in 3 .. 5 /\ nuses \in [Stars -> 0 .. 255]
  BY VisitKeeps
<1>2. quad \in CreateQuad(FindStars(hp), hp)
  OBVIOUS
<1> HIDE DEF hp
<1>3. /\ quad \in Possible(hp) /\ quad \notin Range(bigquadlist)
      /\ \A k \in 1 .. p.dimquads : Free(quad[k])
  BY <1>1, <1>2, QuadMade
<1>4. quad \in QuadsOfStars /\ IsInjective(quad) /\ MidHp(quad[1], quad[2]) = hp
  <2>1. quad \in [1 .. p.dimquads -> Stars] /\ Pair([i \in Stars |-> i], quad[1], quad[2], hp)
        /\ IsInjective(quad)
    BY <1>3 DEF Possible
  <2>2. quad[1] \in Stars /\ quad[2] \in Stars
    BY <1>1, <2>1
  <2>3. QED
    BY <2>1, <2>2 DEF Pair, QuadsOfStars
<1>5. /\ DOMAIN quad = 1 .. p.dimquads /\ Range(quad) \subseteq Stars
      /\ \A i \in Range(quad) : Free(i)
      /\ \A k \in 1 .. p.dimquads : quad[k] \in Range(quad)
  BY <1>3, <1>4 DEF QuadsOfStars, Range
<1>6. /\ Stars' = Stars /\ QuadsOfStars' = QuadsOfStars
      /\ \A a, b : MidHp(a, b)' = MidHp(a, b)
      /\ \A x : Possible(x)' = Possible(x)
  BY StarsStay
<1>7. quadlist \in Seq(QuadsOfStars) /\ bigquadlist \in Seq(QuadsOfStars)
  BY DEF TypeOK, QuadsTypeOK
<1>8. quadlist' \in Seq(QuadsOfStars)
  BY <1>4, <1>7, AppendRange
<1>9. /\ Quads' = Append(Quads, quad) /\ Quads \in Seq(QuadsOfStars)
      /\ quad \notin Range(Quads) /\ IsInjective(Quads) => IsInjective(Quads')
      /\ \A k \in DOMAIN Quads' : Quads'[k] \in Range(Quads) \cup {quad}
  BY <1>4, <1>7, AddedLast DEF Quads
<1>10. /\ Range(Quads') = Range(Quads) \cup {quad}
       /\ \A k \in DOMAIN quadlist' : quadlist'[k] \in Range(quadlist) \cup {quad}
  <2>1. Range(Quads') = Range(Quads) \cup {quad}
    BY <1>4, <1>9, AppendRange
  <2>2. Range(quadlist') = Range(quadlist) \cup {quad}
    BY <1>4, <1>7, AppendRange
  <2>3. QED
    BY <2>1, <2>2 DEF Range
<1>11. nuses' \in [Stars' -> 0 .. 255]
  <2>1. \A i \in Stars : nuses[i] \in 0 .. 255
    BY <1>1
  <2>2. \A n \in 0 .. 255 : (n + 1) % 256 \in 0 .. 255
    OBVIOUS
  <2>3. QED
    BY <1>6, <2>1, <2>2 DEF CountUses
<1>12. QuadsTypeOK'
  BY <1>1, <1>6, <1>7, <1>8, <1>11 DEF TypeOK, QuadsTypeOK
<1>13. LimitInForce'
  BY DEF Surroundings, LimitInForce
<1>14. \A q \in Range(quadlist) : stage = "pass" => MidHp(q[1], q[2]) \notin Range(todo)
  BY DEF Surroundings, VisitedOnce, Range
<1>15. VisitedOnce'
  <2>1. \A q \in Range(quadlist) \cup {quad} :
            stage = "pass" => MidHp(q[1], q[2]) \notin Range(todo')
    BY <1>1, <1>4, <1>14
  <2>2. QED
    BY <1>1, <1>6, <1>10, <2>1 DEF Surroundings, VisitedOnce
<1>16. ASSUME QuadsInv PROVE QuadsInv'
  <2>1. R # 0 => \A i \in Stars :
                     /\ nuses[i] \in Int /\ nuses'[i] \in Int
                     /\ i \in Range(quad) => nuses'[i] = nuses[i] + 1 /\ nuses'[i] <= R
                     /\ i \notin Range(quad) => nuses'[i] = nuses[i]
    BY <1>1, <1>5, <1>16, CountersRise DEF QuadsInv
  <2>2. ASSUME R # 0, NEW q \in QuadsOfStars, NEW n \in Int, UsedUp(q, n) PROVE UsedUp(q, n)'
    <3>1. R \in Nat /\ R <= 255 /\ nuses \in [Stars -> 0 .. 255]
      BY <1>1, <1>16 DEF QuadsInv
    <3>2. \E k \in 1 .. p'.dimquads : nuses'[q[k]] >= n
      BY <1>5, <2>2, <3>1, StaysUsedUp DEF UsedUp
    <3>3. QED
      BY <3>2 DEF UsedUp
  <2>3. \A q \in Range(quadlist) : stage = "loosen" => UsedUp(q, R)
    BY <1>16 DEF QuadsInv, LoosenUsesUp, Range
  <2>4. stage = "loosen" => R # 0
    BY DEF Surroundings, LimitInForce
  <2>5. ~UsedUp(quad, R) \/ R = 0
    <3>1. SUFFICES ASSUME R # 0, NEW k \in 1 .. p.dimquads, nuses[quad[k]] >= R PROVE FALSE
      BY DEF UsedUp
    <3>2. quad[k] \in Stars /\ nuses[quad[k]] < R
      BY <1>3, <1>5, <3>1 DEF Free
    <3>3. nuses[quad[k]] \in Int
      BY <2>1, <3>1, <3>2, Zenon
    <3>4. QED
      BY <1>1, <3>1, <3>2, <3>3
  <2>6. quad \notin Range(Quads)
    <3>1. quad \notin Range(quadlist)
      BY <1>1, <1>4, <1>14, <2>3, <2>4, <2>5
    <3>2. Range(Quads) = Range(bigquadlist) \cup Range(quadlist)
      BY QuadNumbers
    <3>3. QED
      BY <1>3, <3>1, <3>2
  <2>7. IsInjective(Quads') /\ R' <= 255
    BY <1>9, <1>16, <2>6 DEF QuadsInv
  <2>8. DifferentStars'
    <3>1. \A q \in Range(Quads) : IsInjective(q)
      BY <1>16 DEF QuadsInv, DifferentStars, Range
    <3>2. QED
      BY <1>4, <1>9, <3>1 DEF DifferentStars
  <2>9. UsesCounted'
    <3>1. SUFFICES ASSUME R # 0, NEW i \in Stars
                   PROVE  nuses'[i] = Uses(i)' /\ Uses(i)' <= R
      BY <1>6 DEF UsesCounted
    <3>2. nuses[i] = Uses(i) /\ Uses(i) <= R
      BY <1>16, <3>1 DEF QuadsInv, UsesCounted
    <3>3. /\ Uses(i) = Cardinality(UsesIn(Quads, i))
          /\ Uses(i)' = Cardinality(UsesIn(Append(Quads, quad), i))
      BY <1>9 DEF Uses, UsesIn
    <3>4. /\ i \in Range(quad) => Uses(i)' = Uses(i) + 1
          /\ i \notin Range(quad) => Uses(i)' = Uses(i)
      BY <1>4, <1>9, <3>3, OneMore
    <3>5. QED
      BY <2>1, <3>1, <3>2, <3>4
  <2>10. \A hps, x : x \in Range(hps) => Possible(x) \subseteq QuadsOfStars
    BY DEF Possible, QuadsOfStars
  <2>11. RetriesUsedUp'
    <3>1. SUFFICES ASSUME NEW x \in Range(retryhps), NEW q \in Possible(x) \ Range(Quads)
                   PROVE  UsedUp(q, R)'
      BY <1>6, <1>10 DEF RetriesUsedUp, UsedUp
    <3>2. R # 0 /\ UsedUp(q, R) /\ q \in QuadsOfStars
      BY <1>16, <2>10 DEF QuadsInv, RetriesUsedUp, Surroundings, LimitInForce, Range
    <3>3. QED
      BY <1>1, <2>2, <3>2
  <2>12. TodoUsedUp'
    <3>1. SUFFICES ASSUME stage = "loosen",
                          NEW x \in Range(todo'), NEW q \in Possible(x) \ Range(Quads)
                   PROVE  UsedUp(q, R - 1)'
      BY <1>6, <1>10 DEF TodoUsedUp, UsedUp
    <3>2. UsedUp(q, R - 1) /\ q \in QuadsOfStars /\ R # 0
      BY <1>1, <1>16, <2>4, <2>10, <3>1 DEF QuadsInv, TodoUsedUp
    <3>3. R - 1 \in Int
      BY <1>1
    <3> DEFINE n == R - 1
    <3>4. n \in Int /\ UsedUp(q, n)
      BY <3>2, <3>3
    <3> HIDE DEF n
    <3>5. \E k \in 1 .. p'.dimquads : nuses'[q[k]] >= n
      BY <2>2, <3>2, <3>4 DEF UsedUp
    <3>6. QED
      BY <3>5 DEF UsedUp, n
  <2>13. LoosenUsesUp'
    <3>1. SUFFICES ASSUME stage = "loosen", NEW q \in Range(quadlist) \cup {quad}
                   PROVE  UsedUp(q, R)'
      BY <1>10 DEF LoosenUsesUp, UsedUp
    <3>2. CASE q \in Range(quadlist)
      <4>1. q \in QuadsOfStars
        BY <3>2, QuadNumbers DEF Range
      <4>2. QED
        BY <1>1, <2>2, <2>3, <2>4, <3>1, <3>2, <4>1
    <3>3. CASE q = quad
      <4>1. UsedUp(quad, R - 1)
        BY <1>1, <1>3, <1>16, <2>6, <3>1 DEF QuadsInv, TodoUsedUp
      <4>2. PICK k \in 1 .. p.dimquads : nuses[quad[k]] >= R - 1
        BY <4>1 DEF UsedUp
      <4> DEFINE i == quad[k]
      <4>3. i \in Stars /\ i \in Range(quad) /\ nuses[i] >= R - 1
        BY <1>5, <4>2
      <4> HIDE DEF i
      <4>4. nuses[i] \in Int /\ nuses'[i] = nuses[i] + 1
        BY <2>1, <2>4, <3>1, <4>3
      <4>5. nuses'[i] >= R
        BY <1>1, <4>3, <4>4
      <4>6. QED
        BY <3>3, <4>5 DEF UsedUp, i
    <3>4. QED
      BY <3>1, <3>2, <3>3
  <2>14. QED
    BY <2>7, <2>8, <2>9, <2>11, <2>12, <2>13 DEF QuadsInv
<1>17. QED
  BY <1>1, <1>12, <1>13, <1>15, <1>16 DEF Surroundings


\* A visit, with or without a quad.
LEMMA Visit_Inv ==
    ASSUME TypeOK, Surroundings, Visit, UNCHANGED <<at, p, uniform>>
    PROVE  QuadsTypeOK' /\ Surroundings' /\ (QuadsInv => QuadsInv')
<1>1. /\ stage \in {"pass", "loosen"} /\ todo # << >> /\ todo' = Tail(todo)
      /\ UNCHANGED <<at, p, uniform, stage, hptotry, pass, R, bigquadlist>>
  BY DEF Visit
<1>2. \/ \E quad \in CreateQuad(FindStars(Head(todo)), Head(todo)) :
             quadlist' = Append(quadlist, quad) /\ nuses' = CountUses(quad) /\ retryhps' = retryhps
      \/ /\ CreateQuad(FindStars(Head(todo)), Head(todo)) = {}
         /\ quadlist' = quadlist /\ nuses' = nuses
         /\ retryhps' = IF R /= 0 /\ Near(Head(todo)) /= {} /\ p.Nloosen /= 0
                        THEN Append(retryhps, Head(todo)) ELSE retryhps
  BY DEF Visit
<1>3. CASE \E quad \in CreateQuad(FindStars(Head(todo)), Head(todo)) :
               quadlist' = Append(quadlist, quad) /\ nuses' = CountUses(quad) /\ retryhps' = retryhps
  BY <1>1, <1>3, VisitMade
<1>4. CASE /\ CreateQuad(FindStars(Head(todo)), Head(todo)) = {}
           /\ quadlist' = quadlist /\ nuses' = nuses
           /\ retryhps' = IF R /= 0 /\ Near(Head(todo)) /= {} /\ p.Nloosen /= 0
                          THEN Append(retryhps, Head(todo)) ELSE retryhps
  BY <1>1, <1>4, VisitNone
<1>5. QED
  BY <1>2, <1>3, <1>4

-----------------------------------------------------------------------------
(* The invariant of the build *)

\* What holds whatever the options are; QuadsInv needs a bound on Nloosen.
IndexInv == TypeOK /\ CatalogInv /\ Surroundings

SmallLimits == \A q \in Params : q.Nloosen <= 255

\* It holds before the first step.
LEMMA IndexInit == Init => IndexInv /\ QuadsInv
<1> SUFFICES ASSUME Init PROVE IndexInv /\ QuadsInv
  OBVIOUS
<1>1. CatalogTypeOK /\ CatalogInv
  BY CatalogInit_Inv DEF Init
<1>2. /\ hptotry = << >> /\ todo = << >> /\ retryhps = << >> /\ pass = 0 /\ R = 0
      /\ quadlist = << >> /\ bigquadlist = << >>
  BY DEF Init, QuadsInit
<1>3. << >> \in Seq(QuadsOfStars) /\ << >> \in Seq(Hps) /\ Range(<< >>) = {} /\ DOMAIN << >> = {}
  BY DEF Range
<1>4. Quads = << >>
  BY <1>2 DEF Quads
<1>5. /\ stage \notin QuadStages /\ stage # "pass" /\ stage # "loosen"
      /\ p.shared => stage \notin {"read", "place"} /\ uniform = [i \in Rows |-> i]
  BY DEF Init, CatalogInit, QuadStages
<1>6. QuadsTypeOK
  BY <1>2, <1>3, <1>5 DEF QuadsTypeOK
<1>7. Surroundings
  <2>1. IsInjective(hptotry)
    BY <1>2, <1>3 DEF IsInjective
  <2>2. QED
    BY <1>2, <1>5, <2>1 DEF Surroundings, SharedCatalog, NoQuadsYet, LimitInForce, VisitedOnce
<1>8. QuadsInv
  <2>1. DifferentStars /\ IsInjective(Quads)
    BY <1>3, <1>4 DEF DifferentStars, IsInjective
  <2>2. UsesCounted /\ RetriesUsedUp /\ LoosenUsesUp /\ TodoUsedUp /\ R <= 255
    BY <1>2, <1>3, <1>5 DEF UsesCounted, RetriesUsedUp, LoosenUsesUp, TodoUsedUp
  <2>3. QED
    BY <2>1, <2>2 DEF QuadsInv
<1>9. QED
  BY <1>1, <1>6, <1>7, <1>8 DEF IndexInv, TypeOK

\* A step of the uniformization makes no quads.
LEMMA Uniformize_Inv == IndexInv /\ Uniformize => IndexInv' /\ (QuadsInv => QuadsInv')
<1> SUFFICES ASSUME IndexInv, Uniformize PROVE IndexInv' /\ (QuadsInv => QuadsInv')
  OBVIOUS
<1>1. CatalogTypeOK /\ CatalogInv /\ TypeOK /\ Surroundings
  BY DEF IndexInv, TypeOK
<1>2. CatalogTypeOK' /\ CatalogInv'
  BY <1>1, ReadCatalog_Inv, Place_Inv, WriteSweeps_Inv DEF Uniformize, UniformizeNext
<1>3. /\ stage \in {"read", "place"} /\ stage' \in {"read", "place", "startree"}
      /\ p' = p /\ UNCHANGED quadvars
  BY DEF Uniformize, UniformizeNext, ReadCatalog, Place, WriteSweeps
<1>4. stage \notin QuadStages /\ stage' \notin QuadStages
  BY <1>3 DEF QuadStages
<1>5. QuadsTypeOK' /\ NoQuadsYet' /\ LimitInForce' /\ VisitedOnce' /\ QuadsInv'
  BY <1>1, <1>3, <1>4, EarlySteps
<1>6. SharedCatalog'
  BY <1>1, <1>3 DEF Surroundings, SharedCatalog
<1>7. QED
  BY <1>2, <1>5, <1>6 DEF IndexInv, TypeOK, Surroundings

\* The star tree is built before there are quads.
LEMMA BuildStarTree_Inv == IndexInv /\ BuildStarTree => IndexInv' /\ (QuadsInv => QuadsInv')
<1> SUFFICES ASSUME IndexInv, BuildStarTree PROVE IndexInv' /\ (QuadsInv => QuadsInv')
  OBVIOUS
<1>1. CatalogTypeOK /\ CatalogInv /\ TypeOK /\ Surroundings
  BY DEF IndexInv, TypeOK
<1>2. /\ stage = "startree" /\ stage' = "hpquads" /\ UNCHANGED quadvars
      /\ at' = at /\ p' = p /\ inorder' = inorder /\ lists' = lists /\ uniform' = uniform
  BY DEF BuildStarTree, catalogvars
<1>3. CatalogTypeOK' /\ CatalogInv'
  BY <1>1, <1>2, CatalogStays DEF Stages
<1>4. stage \notin QuadStages /\ stage' \notin QuadStages
  BY <1>2 DEF QuadStages
<1>5. QuadsTypeOK' /\ NoQuadsYet' /\ LimitInForce' /\ VisitedOnce' /\ QuadsInv'
  BY <1>1, <1>2, <1>4, EarlySteps
<1>6. SharedCatalog'
  BY <1>1, <1>2 DEF Surroundings, SharedCatalog
<1>7. QED
  BY <1>3, <1>5, <1>6 DEF IndexInv, TypeOK, Surroundings

\* The steps of hpquads.
LEMMA MakeQuads_Inv ==
    IndexInv /\ MakeQuads => IndexInv' /\ (SmallLimits /\ QuadsInv => QuadsInv')
<1> SUFFICES ASSUME IndexInv, MakeQuads
             PROVE  IndexInv' /\ (SmallLimits /\ QuadsInv => QuadsInv')
  OBVIOUS
<1>1. CatalogTypeOK /\ CatalogInv /\ TypeOK /\ Surroundings
  BY DEF IndexInv, TypeOK
<1>2. /\ QuadsNext
      /\ at' = at /\ p' = p /\ inorder' = inorder /\ lists' = lists /\ uniform' = uniform
  BY DEF MakeQuads, catalogvars
<1>3. stage \notin {"read", "place"} /\ stage' \in Stages \ {"read", "place"}
  BY <1>2 DEF QuadsNext, StartQuads, Visit, EndPass, EndLoosening, Stages
<1>4. CatalogTypeOK' /\ CatalogInv'
  BY <1>1, <1>2, <1>3, CatalogStays
<1>5. QuadsTypeOK' /\ Surroundings' /\ (SmallLimits /\ QuadsInv => QuadsInv')
  BY <1>1, <1>2, StartQuads_Inv, Visit_Inv, EndPass_Inv DEF QuadsNext, SmallLimits
<1>6. QED
  BY <1>4, <1>5 DEF IndexInv, TypeOK

\* The steps after it, and steps that change nothing.
LEMMA Later_Inv ==
    ASSUME IndexInv,
           \/ WriteQuads \/ BuildCodeTree \/ UnpermuteStars \/ UnpermuteQuads \/ UNCHANGED vars
    PROVE  IndexInv' /\ (QuadsInv => QuadsInv')
<1>1. CatalogTypeOK /\ CatalogInv /\ TypeOK /\ Surroundings
  BY DEF IndexInv, TypeOK
<1>2. /\ at' = at /\ p' = p /\ inorder' = inorder /\ lists' = lists /\ uniform' = uniform
      /\ UNCHANGED quadvars
  BY DEF WriteQuads, BuildCodeTree, UnpermuteStars, UnpermuteQuads, vars, catalogvars
<1>3. \/ stage' = stage
      \/ /\ stage \in {"writequads", "codetree", "unpermute-stars", "unpermute-quads"}
         /\ stage' \in {"failed", "codetree", "unpermute-stars", "unpermute-quads", "done"}
  BY DEF WriteQuads, BuildCodeTree, UnpermuteStars, UnpermuteQuads, vars
<1>4. CatalogTypeOK' /\ CatalogInv'
  BY <1>1, <1>2, <1>3, CatalogStays DEF Stages
<1>5. QuadsTypeOK' /\ Surroundings' /\ (QuadsInv => QuadsInv')
  BY <1>1, <1>2, <1>3, LateSteps DEF QuadStages, Stages
<1>6. QED
  BY <1>4, <1>5 DEF IndexInv, TypeOK

\* Every step keeps the invariant.
LEMMA IndexNext ==
    IndexInv /\ [Next]_vars => IndexInv' /\ (SmallLimits /\ QuadsInv => QuadsInv')
<1>1. IndexInv /\ Uniformize => IndexInv' /\ (QuadsInv => QuadsInv')
  BY Uniformize_Inv
<1>2. IndexInv /\ BuildStarTree => IndexInv' /\ (QuadsInv => QuadsInv')
  BY BuildStarTree_Inv
<1>3. IndexInv /\ MakeQuads => IndexInv' /\ (SmallLimits /\ QuadsInv => QuadsInv')
  BY MakeQuads_Inv
<1>4. IndexInv /\ (WriteQuads \/ BuildCodeTree \/ UnpermuteStars \/ UnpermuteQuads \/ UNCHANGED vars)
          => IndexInv' /\ (QuadsInv => QuadsInv')
  BY Later_Inv
<1>5. QED
  BY <1>1, <1>2, <1>3, <1>4 DEF Next

-----------------------------------------------------------------------------
\* In every build the variables of the catalog and of the quads have their types;
\* the healpixes to visit are those of the grid, and a quad is made of stars.
THEOREM TypeCorrect == Spec => []TypeOK
<1>1. Init => IndexInv
  BY IndexInit
<1>2. IndexInv /\ [Next]_vars => IndexInv'
  BY IndexNext
<1>3. IndexInv => TypeOK
  BY DEF IndexInv
<1>4. QED
  BY <1>1, <1>2, <1>3, PTL DEF Spec

\* uniformize_catalog leaves no two stars within the deduplication radius, though
\* it compares a star with those of its cell and of the neighbours only.
THEOREM StarsAreApart == Spec => []NoCloseStars
<1>1. Init => IndexInv
  BY IndexInit
<1>2. IndexInv /\ [Next]_vars => IndexInv'
  BY IndexNext
<1>3. IndexInv => NoCloseStars
  BY DEF IndexInv, CatalogInv
<1>4. QED
  BY <1>1, <1>2, <1>3, PTL DEF Spec

\* It leaves a star out only for brighter ones: its cell is full of them, or one
\* of them is too close.
THEOREM BrightestAreKept == Spec => []KeepsBrightest
<1>1. Init => IndexInv
  BY IndexInit
<1>2. IndexInv /\ [Next]_vars => IndexInv'
  BY IndexNext
<1>3. IndexInv => KeepsBrightest
  BY DEF IndexInv, CatalogInv
<1>4. QED
  BY <1>1, <1>2, <1>3, PTL DEF Spec

\* hpquads uses no star more often than the limit in force allows, provided that
\* the limit is not loosened beyond what the counters, unsigned chars, can hold.
THEOREM ReuseIsBounded ==
    ASSUME SmallLimits
    PROVE  Spec => []ReuseBounded
<1>1. Init => IndexInv /\ QuadsInv
  BY IndexInit
<1>2. IndexInv /\ QuadsInv /\ [Next]_vars => IndexInv' /\ QuadsInv'
  BY IndexNext
<1>3. QuadsInv => ReuseBounded
  BY DEF QuadsInv, UsesCounted, ReuseBounded
<1>4. QED
  BY <1>1, <1>2, <1>3, PTL DEF Spec

\* Under the same proviso it makes no quad twice, though it looks for a double
\* only in earlier passes, and may visit a healpix several times in one; and no
\* quad has a star twice.
THEOREM QuadsAreDistinct ==
    ASSUME SmallLimits
    PROVE  Spec => []NoQuadTwice
<1>1. Init => IndexInv /\ QuadsInv
  BY IndexInit
<1>2. IndexInv /\ QuadsInv /\ [Next]_vars => IndexInv' /\ QuadsInv'
  BY IndexNext
<1>3. QuadsInv => NoQuadTwice
  BY DEF QuadsInv, DifferentStars, NoQuadTwice
<1>4. QED
  BY <1>1, <1>2, <1>3, PTL DEF Spec


-----------------------------------------------------------------------------
(* The brightest quad of a healpix *)

\* What is tried when star n comes in has no star after it.
LEMMA NoneLater ==
    ASSUME p.dimquads \in 3 .. 5, NEW s, Len(s) \in Nat, NEW hp, NEW n \in 1 .. Len(s),
           NEW q \in OnDiagonal(s, n, hp) \cup Inside(s, n, hp)
    PROVE  q \in [1 .. p.dimquads -> 1 .. n]
<1>1. ASSUME NEW a \in 1 .. n, NEW b \in 1 .. n, NEW c \in Interiors(Inbox(s, a, b, n))
      PROVE  <<a, b>> \o c \in [1 .. p.dimquads -> 1 .. n]
  <2> DEFINE T == 1 .. n
             ab == <<a, b>>
             m == p.dimquads - 2
             d == p.dimquads
  <2>1. c \in [1 .. m -> Inbox(s, a, b, n)] /\ Inbox(s, a, b, n) \subseteq T
    BY DEF Interiors, Inbox
  <2>2. m \in Nat /\ d \in Nat /\ d = m + 2 /\ ab \in Seq(T) /\ Len(ab) = 2
    OBVIOUS
  <2>3. Joint(ab, c) = ab \o c
    BY DEF Joint
  <2> HIDE DEF T, ab, m, d
  <2>4. c \in [1 .. m -> T]
    BY <2>1
  <2>5. LET z == Joint(ab, c) IN
        /\ z \in [1 .. d -> T] /\ z[1] = ab[1] /\ z[2] = ab[2]
        /\ \A k \in 3 .. d : k - 2 \in 1 .. m /\ z[k] = c[k - 2]
    BY <2>2, <2>4, Joined
  <2>6. QED
    BY <2>3, <2>5 DEF T, ab, d
<1>2. CASE q \in OnDiagonal(s, n, hp)
  <2>1. PICK a \in 1 .. n - 1 : \E c \in Interiors(Inbox(s, a, n, n)) : q = <<a, n>> \o c
    BY <1>2 DEF OnDiagonal
  <2>2. a \in 1 .. n /\ n \in 1 .. n
    OBVIOUS
  <2>3. QED
    BY <1>1, <2>1, <2>2
<1>3. CASE q \in Inside(s, n, hp)
  <2>1. PICK ab \in (1 .. n - 1) \X (1 .. n - 1) :
            \E c \in Interiors(Inbox(s, ab[1], ab[2], n)) : q = ab \o c
    BY <1>3 DEF Inside
  <2>2. PICK c \in Interiors(Inbox(s, ab[1], ab[2], n)) : q = ab \o c
    BY <2>1
  <2>3. ab[1] \in 1 .. n /\ ab[2] \in 1 .. n /\ ab = <<ab[1], ab[2]>>
    BY <2>1
  <2>4. <<ab[1], ab[2]>> \o c \in [1 .. p.dimquads -> 1 .. n]
    BY <1>1, <2>2, <2>3
  <2>5. QED
    BY <2>2, <2>3, <2>4
<1>4. QED
  BY <1>2, <1>3

\* The dimmest star of a quad.
Dimmest(q) == CHOOSE i \in Range(q) : \A j \in Range(q) : j = i \/ Precedes(j, i)

\* Of places up to the n-th, the m-th is the last.
LastOf(q, m, n) ==
    /\ m \in DOMAIN q
    /\ \A k \in DOMAIN q : q[k] \in 1 .. n /\ q[k] <= q[m]

\* It is the one at the last place.
LEMMA DimmestIsLast ==
    ASSUME CatalogTypeOK, SharedCatalog, NEW hp, NEW q, NEW m, LastOf(q, m, Len(FindStars(hp)))
    PROVE  Dimmest(Ids(FindStars(hp), q)) = FindStars(hp)[q[m]]
<1> DEFINE s == FindStars(hp)
           N == Len(s)
           ids == Ids(s, q)
           last == s[q[m]]
           d == DOMAIN q
<1>1. /\ N \in Nat
      /\ \A k, l \in 1 .. N : k < l <=> Precedes(s[k], s[l])
      /\ \A k, l \in 1 .. N : s[k] = s[l] => k = l
  BY StarsFound
<1> HIDE DEF s, N
<1>0. m \in d /\ \A k \in d : q[k] \in 1 .. N /\ q[k] <= q[m]
  BY DEF LastOf, N, s
<1>2. ids = [k \in d |-> s[q[k]]] /\ \A k \in d : q[k] \in 1 .. N
  BY <1>0 DEF Ids
<1>3. Range(ids) = {s[q[k]] : k \in d}
  BY <1>2 DEF Range
<1>4. \A k \in d : s[q[k]] = last \/ Precedes(s[q[k]], last)
  <2> TAKE k \in d
  <2>1. q[k] \in 1 .. N /\ q[m] \in 1 .. N /\ (q[k] = q[m] \/ q[k] < q[m])
    BY <1>0
  <2>2. QED
    BY <1>1, <2>1
<1>5. ASSUME NEW k \in d, \A l \in d : s[q[l]] = s[q[k]] \/ Precedes(s[q[l]], s[q[k]])
      PROVE  s[q[k]] = last
  <2>1. s[q[m]] = s[q[k]] \/ q[m] < q[k]
    BY <1>0, <1>1, <1>2, <1>5
  <2>2. q[k] <= q[m] /\ q[k] \in Int /\ q[m] \in Int
    BY <1>0
  <2>3. QED
    BY <2>1, <2>2
<1>6. last \in Range(ids)
  BY <1>0, <1>3
<1>7. \A j \in Range(ids) : j = last \/ Precedes(j, last)
  BY <1>3, <1>4
<1>8. \A i \in Range(ids) : (\A j \in Range(ids) : j = i \/ Precedes(j, i)) => i = last
  BY <1>3, <1>5
<1> HIDE DEF ids, last
<1>9. Dimmest(ids) = last
  BY <1>6, <1>7, <1>8 DEF Dimmest
<1>10. QED
  BY <1>9 DEF ids, last, s

\* A choice of places has a last one.
LEMMA LastPlace ==
    ASSUME NEW d \in Nat \ {0}, NEW n \in Nat, NEW q \in [1 .. d -> 1 .. n]
    PROVE  \E m \in 1 .. d : \A k \in 1 .. d : q[k] <= q[m]
<1> DEFINE T == {n - q[k] : k \in 1 .. d}
<1>1. \A k \in 1 .. d : q[k] \in 1 .. n /\ n - q[k] \in Nat
  OBVIOUS
<1>2. T \subseteq Nat
  BY <1>1
<1>3. 1 \in 1 .. d
  OBVIOUS
<1>4. T # {}
  BY <1>3
<1>5. PICK t \in T : \A u \in T : t <= u
  <2> HIDE DEF T
  <2>1. QED
    BY <1>2, <1>4, NatMin
<1>6. PICK m \in 1 .. d : t = n - q[m]
  BY <1>5
<1>7. \A k \in 1 .. d : n - q[m] <= n - q[k]
  BY <1>5, <1>6
<1>8. \A k \in 1 .. d : q[k] <= q[m]
  <2> TAKE k \in 1 .. d
  <2>1. q[k] \in Int /\ q[m] \in Int /\ n - q[m] <= n - q[k]
    BY <1>1, <1>7
  <2>2. QED
    BY <2>1
<1>9. QED
  BY <1>8

\* No possible quad of free stars that is new has a brighter dimmest star than the
\* quad that is made.
LEMMA QuadIsBrightest ==
    ASSUME CatalogTypeOK, SharedCatalog, NEW hp \in Int,
           NEW quad \in CreateQuad(FindStars(hp), hp),
           NEW q \in Possible(hp), q \notin Range(bigquadlist),
           \A k \in 1 .. p.dimquads : Free(q[k])
    PROVE  ~Precedes(Dimmest(q), Dimmest(quad))
<1> DEFINE s == FindStars(hp)
           d == p.dimquads
           N == Len(s)
<1>1. d \in 3 .. 5 /\ N \in Nat /\ \A k, l \in 1 .. N : k < l <=> Precedes(s[k], s[l])
  BY StarNumbers, StarsFound
<1>2. PICK n \in 1 .. N : /\ \E r \in TriedNew(s, n, hp) : quad = Ids(s, r)
                          /\ \A k \in 1 .. N : TriedNew(s, k, hp) # {} => n <= k
  BY QuadComes
<1>3. PICK r \in TriedNew(s, n, hp) : quad = Ids(s, r)
  BY <1>2
<1>4. PICK x \in Arrangements(s, hp) : Ids(s, x) = q
  BY PossibleIsArranged
<1>a. FindStars(hp) = s
  OBVIOUS
<1> HIDE DEF s, N
<1>5. PICK l \in 1 .. N : /\ x \in OnDiagonal(s, l, hp) \cup Inside(s, l, hp)
                          /\ \E k \in 1 .. d : x[k] = l
  BY <1>1, TriesAll DEF N
<1>6. PICK m \in 1 .. d : x[m] = l
  BY <1>5
<1>7. n <= l
  BY <1>2, <1>4, <1>5 DEF TriedNew, IsNew
<1>8. r \in [1 .. d -> 1 .. n]
  BY <1>1, NoneLater DEF TriedNew, N
<1>9. x \in [1 .. d -> 1 .. l]
  BY <1>1, <1>5, NoneLater DEF N
<1>10. PICK o \in 1 .. d : \A k \in 1 .. d : r[k] <= r[o]
  <2>1. d \in Nat \ {0} /\ n \in Nat
    BY <1>1
  <2> HIDE DEF d
  <2>2. QED
    BY <1>8, <2>1, LastPlace
<1>11. r[o] \in 1 .. n /\ \A k \in 1 .. d : x[k] \in 1 .. l
  BY <1>8, <1>9, <1>10
<1>12. r \in [1 .. d -> 1 .. N] /\ x \in [1 .. d -> 1 .. N]
  <2>1. 1 .. n \subseteq 1 .. N /\ 1 .. l \subseteq 1 .. N
    BY <1>1
  <2> HIDE DEF d
  <2>2. QED
    BY <1>8, <1>9, <2>1
<1>13. \A k \in 1 .. d : x[k] <= x[m]
  BY <1>6, <1>11
<1> HIDE DEF d
<1>14. Dimmest(quad) = s[r[o]]
  <2>1. LastOf(r, o, Len(FindStars(hp)))
    BY <1>10, <1>12, <1>a DEF LastOf, N
  <2>2. Dimmest(Ids(FindStars(hp), r)) = FindStars(hp)[r[o]]
    BY <2>1, DimmestIsLast
  <2>3. QED
    BY <1>3, <1>a, <2>2
<1>15. Dimmest(q) = s[l]
  <2>1. LastOf(x, m, Len(FindStars(hp)))
    BY <1>13, <1>12, <1>a DEF LastOf, N
  <2>2. Dimmest(Ids(FindStars(hp), x)) = FindStars(hp)[x[m]]
    BY <2>1, DimmestIsLast
  <2>3. QED
    BY <1>4, <1>6, <1>a, <2>2
<1>16. ~(l < r[o]) /\ r[o] \in 1 .. N
  BY <1>1, <1>7, <1>11
<1>17. QED
  BY <1>1, <1>14, <1>15, <1>16

\* hpquads makes the quads of bright stars first: when a quad is made, no quad of
\* free stars that was not made in an earlier pass has a brighter dimmest star.
THEOREM BrightestAreMade == Spec => MakesBrightest
<1>1. Init => IndexInv
  BY IndexInit
<1>2. IndexInv /\ [Next]_vars => IndexInv'
  BY IndexNext
<1> DEFINE Best ==
      \A q \in Possible(Head(todo)) \ Range(bigquadlist) :
          (R = 0 \/ \A i \in Range(q) : nuses[i] < R) =>
              ~Precedes(Dimmest(q), Dimmest(Last(quadlist')))
<1>3. ASSUME IndexInv, [Next]_vars, Len(quadlist') > Len(quadlist) PROVE Best
  <2>1. TypeOK /\ Surroundings /\ quadlist \in Seq(QuadsOfStars) /\ Len(quadlist) \in Nat
    BY <1>3, LenProperties DEF IndexInv, TypeOK, QuadsTypeOK
  <2>2. Len(<< >>) = 0
    OBVIOUS
  <2>3. Visit /\ UNCHANGED <<at, p, uniform>>
    <3>1. ~MergeQuads
      BY <1>3, <2>1, <2>2 DEF MergeQuads
    <3>2. quadlist' # quadlist
      BY <1>3, <2>1
    <3>3. QED
      BY <1>3, <3>1, <3>2 DEF Next, Uniformize, BuildStarTree, MakeQuads, WriteQuads, BuildCodeTree,
         UnpermuteStars, UnpermuteQuads, QuadsNext, StartQuads, EndPass, EndLoosening, vars,
         quadvars, catalogvars
  <2> DEFINE hp == Head(todo)
  <2>4. PICK quad \in CreateQuad(FindStars(hp), hp) : quadlist' = Append(quadlist, quad)
    BY <1>3, <2>1, <2>3 DEF Visit
  <2>5. CatalogTypeOK /\ SharedCatalog /\ hp \in Int
    BY <2>1, <2>3, VisitKeeps DEF Visit
  <2>6. quad \in QuadsOfStars
    BY <2>4, <2>5, QuadMade DEF Possible, QuadsOfStars
  <2>7. Last(quadlist') = quad
    <3>1. Len(Append(quadlist, quad)) = Len(quadlist) + 1
          /\ Append(quadlist, quad)[Len(quadlist) + 1] = quad
      BY <2>1, <2>6, AppendProperties
    <3>2. QED
      BY <2>4, <3>1 DEF Last
  <2> HIDE DEF hp
  <2>8. ASSUME NEW q \in Possible(hp) \ Range(bigquadlist),
               R = 0 \/ \A i \in Range(q) : nuses[i] < R
        PROVE  ~Precedes(Dimmest(q), Dimmest(quad))
    <3>1. \A k \in 1 .. p.dimquads : q[k] \in Range(q)
      BY DEF Possible, Range
    <3>2. \A k \in 1 .. p.dimquads : Free(q[k])
      BY <2>8, <3>1 DEF Free
    <3>3. QED
      BY <2>4, <2>5, <3>2, QuadIsBrightest
  <2>9. QED
    BY <2>7, <2>8 DEF hp
<1>4. IndexInv /\ [Next]_vars => [Len(quadlist') > Len(quadlist) => Best]_<<quadlist, bigquadlist>>
  BY <1>3
<1>5. QED
  BY <1>1, <1>2, <1>4, PTL DEF Spec, MakesBrightest, Dimmest


-----------------------------------------------------------------------------
(* What becomes of the passes of a healpix *)

\* The quads of a healpix, and how often x is in a list.
QuadsOf(hp) == {q \in Range(Quads) : MidHp(q[1], q[2]) = hp}
Times(s, x) == Cardinality({k \in DOMAIN s : s[k] = x})

\* The visits of a healpix that are over, and those to come that stand for one.
Begun(hp) == IF stage = "pass" THEN (IF hp \in Range(todo) THEN pass - 1 ELSE pass) ELSE p.passes
Waiting(hp) == Times(retryhps, hp) + (IF stage = "loosen" THEN Times(todo, hp) ELSE 0)
Retried(hp) == R # 0 /\ Near(hp) # {} /\ p.Nloosen # 0

\* Every visit gave a quad, or is on a list of those to be made up for if the
\* healpix can be retried at all.
Accounts(hp) ==
    /\ Cardinality(QuadsOf(hp)) + Waiting(hp) <= Begun(hp)
    /\ Retried(hp) => Cardinality(QuadsOf(hp)) + Waiting(hp) = Begun(hp)
PassesCounted ==
    /\ stage = "pass" => pass \in 1 .. p.passes
    /\ stage \in QuadStages => \A hp \in Range(hptotry) : Accounts(hp)

\* A healpix could still get some quad.
LeftFor(hp) == \E q \in Possible(hp) \ Range(Quads) : R = 0 \/ ~UsedUp(q, R)

\* One that has got fewer quads than it had visits has no quad left.
NothingOwed ==
    stage \in QuadStages \ {"loosen"} =>
        \A hp \in Range(hptotry) : Cardinality(QuadsOf(hp)) < Begun(hp) => ~LeftFor(hp)

\* Lists count their elements.
LEMMA TimesKnown ==
    ASSUME NEW T, NEW s \in Seq(T), NEW y
    PROVE  Times(s, y) \in Nat /\ (Times(s, y) # 0 => y \in Range(s)) /\ Times(<< >>, y) = 0
<1> DEFINE K == {k \in DOMAIN s : s[k] = y}
<1>1. IsFiniteSet(DOMAIN s)
  BY LenProperties, IntervalSize
<1>2. IsFiniteSet(K) /\ Cardinality(K) \in Nat
  <2>1. K \subseteq DOMAIN s
    OBVIOUS
  <2> HIDE DEF K
  <2>2. QED
    BY <1>1, <2>1, FS_Subset, FS_CardinalityType
<1>3. Times(s, y) = Cardinality(K)
  BY DEF Times
<1>4. y \notin Range(s) => K = {}
  BY DEF Range
<1>5. Cardinality({}) = 0
  BY FS_EmptySet
<1>6. Times(<< >>, y) = 0
  <2>1. {k \in DOMAIN << >> : << >>[k] = y} = {}
    OBVIOUS
  <2>2. QED
    BY <1>5, <2>1 DEF Times
<1> HIDE DEF K
<1>7. QED
  BY <1>2, <1>3, <1>4, <1>5, <1>6

\* One more at the end,
LEMMA TimesAppend ==
    ASSUME NEW T, NEW s \in Seq(T), NEW x \in T, NEW y
    PROVE  Times(Append(s, x), y) = IF x = y THEN Times(s, y) + 1 ELSE Times(s, y)
<1> DEFINE n == Len(s)
           a == Append(s, x)
           K == {k \in 1 .. n : s[k] = y}
           L == {k \in 1 .. n + 1 : a[k] = y}
<1>1. /\ DOMAIN s = 1 .. n /\ DOMAIN a = 1 .. n + 1 /\ n \in Nat
      /\ \A k \in 1 .. n : a[k] = s[k]
      /\ a[n + 1] = x
  BY AppendProperties, LenProperties
<1>2. /\ \A k \in 1 .. n + 1 : k \in 1 .. n \/ k = n + 1
      /\ 1 .. n \subseteq 1 .. n + 1 /\ n + 1 \in 1 .. n + 1 /\ n + 1 \notin 1 .. n
  BY <1>1
<1>3. IsFiniteSet(1 .. n)
  BY <1>1, IntervalSize
<1>4. Times(s, y) = Cardinality(K) /\ Times(a, y) = Cardinality(L)
  BY <1>1 DEF Times
<1>5. L = IF x = y THEN K \cup {n + 1} ELSE K
  BY <1>1, <1>2
<1>6. K \subseteq 1 .. n
  OBVIOUS
<1> HIDE DEF n, a, K, L
<1>7. IsFiniteSet(K) /\ n + 1 \notin K
  BY <1>2, <1>3, <1>6, FS_Subset
<1>8. Cardinality(K \cup {n + 1}) = Cardinality(K) + 1
  BY <1>7, FS_AddElement
<1>9. QED
  BY <1>4, <1>5, <1>8 DEF a

\* and one less in front.
LEMMA TimesTail ==
    ASSUME NEW T, NEW s \in Seq(T), s # << >>, NEW y
    PROVE  Times(s, y) = IF Head(s) = y THEN Times(Tail(s), y) + 1 ELSE Times(Tail(s), y)
<1> DEFINE n == Len(s)
           t == Tail(s)
           K == {k \in 1 .. n : s[k] = y}
           L == {k \in 1 .. n - 1 : t[k] = y}
           M == K \ {1}
           f == [k \in M |-> k - 1]
<1>1. /\ DOMAIN s = 1 .. n /\ DOMAIN t = 1 .. n - 1 /\ n \in Nat \ {0}
      /\ \A k \in 1 .. n - 1 : t[k] = s[k + 1]
      /\ Head(s) = s[1]
  BY TailRange, LenProperties
<1>2. /\ \A k \in 1 .. n : k = 1 \/ (k - 1 \in 1 .. n - 1 /\ (k - 1) + 1 = k)
      /\ \A k \in 1 .. n - 1 : k + 1 \in 1 .. n /\ k + 1 # 1
      /\ \A k, l \in 1 .. n - 1 : k + 1 = l + 1 => k = l
      /\ 1 \in 1 .. n
  BY <1>1
<1>3. IsFiniteSet(1 .. n)
  BY <1>1, IntervalSize
<1>4. Times(s, y) = Cardinality(K) /\ Times(t, y) = Cardinality(L)
  BY <1>1 DEF Times
<1>5. K \subseteq 1 .. n /\ (1 \in K <=> Head(s) = y)
  BY <1>1, <1>2
<1>6. \A k \in M : k - 1 \in L /\ f[k] = k - 1
  <2> TAKE k \in M
  <2>1. k \in 1 .. n /\ k # 1 /\ s[k] = y
    OBVIOUS
  <2>2. k - 1 \in 1 .. n - 1 /\ (k - 1) + 1 = k
    BY <1>2, <2>1
  <2>3. t[k - 1] = y
    BY <1>1, <2>1, <2>2
  <2>4. QED
    BY <2>2, <2>3
<1>7. \A k \in L : k + 1 \in M /\ f[k + 1] = k
  <2> TAKE k \in L
  <2>1. k \in 1 .. n - 1 /\ t[k] = y
    OBVIOUS
  <2>2. k + 1 \in M
    BY <1>1, <1>2, <2>1
  <2>3. QED
    BY <1>1, <1>6, <2>1, <2>2
<1>8. f \in Bijection(M, L)
  <2>1. f \in [M -> L]
    BY <1>6
  <2>2. \A k, l \in M : f[k] = f[l] => k = l
    <3>1. \A k \in M : k \in Int /\ f[k] = k - 1
      BY <1>6
    <3> HIDE DEF f, M
    <3>2. QED
      BY <3>1
  <2> HIDE DEF f, M, L
  <2>3. QED
    BY <1>7, <2>1, <2>2 DEF Bijection, Injection, Surjection, IsInjective
<1>a. M = K \ {1}
  OBVIOUS
<1> HIDE DEF K, L, f, n, t, M
<1>9. IsFiniteSet(K) /\ IsFiniteSet(M)
  BY <1>3, <1>5, <1>a, FS_Subset
<1>10. Cardinality(L) = Cardinality(M)
  <2>1. ExistsBijection(M, L)
    BY <1>8 DEF ExistsBijection
  <2>2. QED
    BY <1>9, <2>1, FS_Bijection
<1>11. 1 \in K => Cardinality(K) = Cardinality(K \ {1}) + 1
  <2>1. 1 \in K => K = (K \ {1}) \cup {1}
    OBVIOUS
  <2>2. Cardinality((K \ {1}) \cup {1}) = Cardinality(K \ {1}) + 1
    BY <1>9, <1>a, FS_AddElement
  <2>3. QED
    BY <2>1, <2>2
<1>12. 1 \notin K => K \ {1} = K
  OBVIOUS
<1>13. QED
  BY <1>4, <1>5, <1>10, <1>11, <1>12, <1>a DEF t


\* A healpix gets finitely many quads, as many as places in the list.
LEMMA QuadsCount ==
    ASSUME TypeOK, NEW hp
    PROVE  /\ IsFiniteSet(QuadsOf(hp)) /\ Cardinality(QuadsOf(hp)) \in Nat
           /\ IsInjective(Quads) =>
                 Cardinality({k \in DOMAIN Quads : MidHp(Quads[k][1], Quads[k][2]) = hp})
                     = Cardinality(QuadsOf(hp))
<1> DEFINE D == DOMAIN Quads
           K == {k \in D : MidHp(Quads[k][1], Quads[k][2]) = hp}
           f == [k \in K |-> Quads[k]]
           S == QuadsOf(hp)
<1>1. IsFiniteSet(D)
  BY QuadNumbers, IntervalSize
<1>2. IsFiniteSet(K)
  <2>1. K \subseteq D
    OBVIOUS
  <2> HIDE DEF K, D
  <2>2. QED
    BY <1>1, <2>1, FS_Subset
<1>3. S = {f[k] : k \in K}
  BY DEF QuadsOf, Range
<1>4. IsFiniteSet(S) /\ Cardinality(S) \in Nat
  <2>1. f \in [K -> S]
    BY <1>3
  <2> HIDE DEF K, S, f
  <2>2. f \in Surjection(K, S)
    BY <1>3, <2>1 DEF Surjection
  <2>3. IsFiniteSet(S)
    BY <1>2, <2>2, FS_Surjection
  <2>4. QED
    BY <2>3, FS_CardinalityType
<1>5. IsInjective(Quads) => Cardinality(K) = Cardinality(S)
  <2>1. ASSUME IsInjective(Quads) PROVE f \in Bijection(K, S)
    <3>1. \A k, l \in K : f[k] = f[l] => k = l
      BY <2>1 DEF IsInjective
    <3>2. f \in [K -> S]
      BY <1>3
    <3> HIDE DEF f, K, S
    <3>3. QED
      BY <1>3, <3>1, <3>2 DEF Bijection, Injection, Surjection, IsInjective
  <2> HIDE DEF f, K, S
  <2>2. QED
    BY <1>2, <2>1, FS_Bijection DEF ExistsBijection
<1>6. QED
  BY <1>4, <1>5

\* A visit that makes no quad leaves none that the healpix could get.
LEMMA NoneLeft ==
    ASSUME TypeOK, SharedCatalog, NEW hp \in Int, stage \in QuadStages,
           CreateQuad(FindStars(hp), hp) = {}
    PROVE  ~LeftFor(hp)
<1> SUFFICES ASSUME NEW q \in Possible(hp) \ Range(Quads) PROVE R # 0 /\ UsedUp(q, R)
  BY DEF LeftFor
<1>1. CatalogTypeOK /\ R \in Nat /\ nuses \in [Stars -> 0 .. 255]
  BY DEF TypeOK, QuadsTypeOK
<1>2. q \notin Range(bigquadlist)
  BY QuadNumbers
<1>3. PICK k \in 1 .. p.dimquads : ~Free(q[k])
  BY <1>1, <1>2, NoneMade
<1>4. q[k] \in Stars
  BY <1>3 DEF Possible
<1>5. nuses[q[k]] \in Int
  <2>1. \A i \in Stars : nuses[i] \in 0 .. 255
    BY <1>1
  <2>2. \A n \in 0 .. 255 : n \in Int
    OBVIOUS
  <2>3. QED
    BY <1>4, <2>1, <2>2, Zenon
<1>6. R # 0 /\ nuses[q[k]] >= R
  BY <1>1, <1>3, <1>5 DEF Free
<1>7. QED
  BY <1>6 DEF UsedUp

\* No healpix can get more than before the visit of one.
LEMMA LeftShrinks ==
    ASSUME TypeOK, Surroundings, QuadsInv, Visit, UNCHANGED <<at, p, uniform>>, NEW hp,
           ~LeftFor(hp)
    PROVE  ~LeftFor(hp)'
<1> DEFINE h == Head(todo)
<1>1. /\ stage \in {"pass", "loosen"} /\ todo # << >> /\ todo' = Tail(todo)
      /\ UNCHANGED <<at, p, uniform, stage, hptotry, pass, R, bigquadlist>>
  BY DEF Visit
<1>2. /\ CatalogTypeOK /\ SharedCatalog /\ h \in Int
      /\ R \in Nat /\ p.dimquads \in 3 .. 5 /\ nuses \in [Stars -> 0 .. 255]
  BY <1>1, VisitKeeps
<1>3. /\ Possible(hp)' = Possible(hp) /\ Possible(hp) \subseteq QuadsOfStars
  BY <1>1, StarsStay DEF Possible, QuadsOfStars
<1>4. CASE quadlist' = quadlist /\ nuses' = nuses
  <2>1. Quads' = Quads
    BY <1>1, <1>4 DEF Quads
  <2>2. \A q : UsedUp(q, R)' <=> UsedUp(q, R)
    BY <1>1, <1>4 DEF UsedUp
  <2>3. QED
    BY <1>1, <1>3, <2>1, <2>2 DEF LeftFor
<1>5. ASSUME NEW quad \in CreateQuad(FindStars(h), h),
             quadlist' = Append(quadlist, quad), nuses' = CountUses(quad)
      PROVE  ~LeftFor(hp)'
  <2> HIDE DEF h
  <2>1. /\ quad \in Possible(h) /\ \A k \in 1 .. p.dimquads : Free(quad[k])
    BY <1>2, <1>5, QuadMade
  <2>2. quad \in QuadsOfStars
    BY <2>1 DEF Possible, QuadsOfStars
  <2>3. Range(quad) \subseteq Stars /\ \A i \in Range(quad) : Free(i)
    BY <2>1, <2>2 DEF QuadsOfStars, Range
  <2>4. Range(Quads) \subseteq Range(Quads')
    <3>1. quadlist \in Seq(QuadsOfStars) /\ bigquadlist \in Seq(QuadsOfStars)
      BY DEF TypeOK, QuadsTypeOK
    <3>2. Quads' = Append(Quads, quad) /\ Quads \in Seq(QuadsOfStars)
      BY <1>1, <1>5, <2>2, <3>1, AddedLast DEF Quads
    <3>3. QED
      BY <2>2, <3>2, AppendRange
  <2>5. ASSUME NEW q \in Possible(hp) \ Range(Quads') PROVE R # 0 /\ UsedUp(q, R)'
    <3>1. R # 0 /\ UsedUp(q, R) /\ q \in QuadsOfStars
      BY <1>3, <2>4 DEF LeftFor
    <3>2. R <= 255
      BY DEF QuadsInv
    <3>3. p' = p /\ R' = R /\ R \in Int /\ R \in Nat /\ nuses' = CountUses(quad)
      BY <1>1, <1>2, <1>5
    <3>4. nuses \in [Stars -> 0 .. 255] /\ q \in QuadsOfStars /\ R # 0 /\ UsedUp(q, R)
      BY <1>2, <3>1
    <3>5. \E k \in 1 .. p'.dimquads : nuses'[q[k]] >= R
      BY <2>3, <3>2, <3>3, <3>4, StaysUsedUp DEF UsedUp
    <3>6. QED
      BY <3>1, <3>3, <3>5 DEF UsedUp
  <2>6. QED
    BY <1>1, <1>3, <2>5 DEF LeftFor
<1>6. QED
  BY <1>4, <1>5 DEF Visit


\* What is said of the quads and the reach of a healpix stays while the catalog
\* and the quads do.
LEMMA ReachStays ==
    ASSUME UNCHANGED <<at, p, uniform>>, NEW hp
    PROVE  /\ Near(hp)' = Near(hp)
           /\ QuadsOf(hp)' = {q \in Range(Quads') : MidHp(q[1], q[2]) = hp}
           /\ R' = R => (Retried(hp)' <=> Retried(hp))
           /\ Range(Quads') = Range(Quads) =>
                  /\ QuadsOf(hp)' = QuadsOf(hp)
                  /\ R' = R /\ nuses' = nuses => (LeftFor(hp)' <=> LeftFor(hp))
<1>1. /\ Stars' = Stars
      /\ \A a, b : MidHp(a, b)' = MidHp(a, b)
      /\ Possible(hp)' = Possible(hp)
  BY StarsStay
<1>2. \A i : Pos(i)' = Pos(i)
  BY DEF Pos
<1>3. Near(hp)' = Near(hp)
  BY <1>1, <1>2 DEF Near
<1>4. QuadsOf(hp)' = {q \in Range(Quads') : MidHp(q[1], q[2]) = hp}
  BY <1>1 DEF QuadsOf
<1>5. R' = R => (Retried(hp)' <=> Retried(hp))
  BY <1>3 DEF Retried
<1>6. Range(Quads') = Range(Quads) => QuadsOf(hp)' = QuadsOf(hp)
  BY <1>4 DEF QuadsOf
<1>7. nuses' = nuses => \A q, n : (\E k \in 1 .. p'.dimquads : nuses'[q[k]] >= n) <=> UsedUp(q, n)
  BY DEF UsedUp
<1>8. Range(Quads') = Range(Quads) /\ R' = R /\ nuses' = nuses => (LeftFor(hp)' <=> LeftFor(hp))
  BY <1>1, <1>7 DEF LeftFor, UsedUp
<1>9. QED
  BY <1>3, <1>4, <1>5, <1>6, <1>8

\* A visit gives the healpix a quad, puts it on the retry list, or does neither if
\* it cannot be retried; without a quad it has none left that it could get.
LEMMA VisitCounts ==
    ASSUME TypeOK, Surroundings, Visit, UNCHANGED <<at, p, uniform>>, IsInjective(Quads'),
           NEW hp \in Int
    PROVE  LET c == Cardinality(QuadsOf(hp))
               t == Times(retryhps, hp)
           IN  /\ c \in Nat /\ t \in Nat
               /\ hp # Head(todo) => c' = c /\ t' = t
               /\ hp = Head(todo) =>
                      \/ c' = c + 1 /\ t' = t
                      \/ c' = c /\ ~LeftFor(hp) /\ t' = IF Retried(hp) THEN t + 1 ELSE t
<1> DEFINE c == Cardinality(QuadsOf(hp))
           t == Times(retryhps, hp)
           h == Head(todo)
<1>1. /\ stage \in {"pass", "loosen"} /\ todo # << >> /\ todo' = Tail(todo)
      /\ UNCHANGED <<at, p, uniform, stage, hptotry, pass, R, bigquadlist>>
  BY DEF Visit
<1>2. /\ CatalogTypeOK /\ SharedCatalog /\ h \in Int /\ h \in Hps
      /\ R \in Nat /\ p.dimquads \in 3 .. 5 /\ nuses \in [Stars -> 0 .. 255]
  BY <1>1, VisitKeeps
<1>3. retryhps \in Seq(Hps) /\ stage \in QuadStages
  BY <1>1 DEF TypeOK, QuadsTypeOK, QuadStages, Stages
<1>4. IsFiniteSet(QuadsOf(hp)) /\ c \in Nat /\ t \in Nat
  BY <1>3, QuadsCount, TimesKnown
<1>5. ASSUME NEW quad \in CreateQuad(FindStars(h), h),
             quadlist' = Append(quadlist, quad), retryhps' = retryhps
      PROVE  t' = t /\ c' = IF hp = h THEN c + 1 ELSE c
  <2> HIDE DEF h
  <2>1. quad \in Possible(h)
    BY <1>2, <1>5, QuadMade
  <2>2. quad \in QuadsOfStars /\ MidHp(quad[1], quad[2]) = h
    <3>1. quad \in [1 .. p.dimquads -> Stars] /\ Pair([i \in Stars |-> i], quad[1], quad[2], h)
      BY <2>1 DEF Possible
    <3>2. quad[1] \in Stars /\ quad[2] \in Stars
      BY <1>2, <3>1
    <3>3. QED
      BY <3>1, <3>2 DEF Pair, QuadsOfStars
  <2>3. quadlist \in Seq(QuadsOfStars) /\ bigquadlist \in Seq(QuadsOfStars)
    BY DEF TypeOK, QuadsTypeOK
  <2>4. Quads' = Append(Quads, quad) /\ Quads \in Seq(QuadsOfStars)
    BY <1>1, <1>5, <2>2, <2>3, AddedLast DEF Quads
  <2>5. Range(Quads') = Range(Quads) \cup {quad}
    BY <2>2, <2>4, AppendRange
  <2>6. quad \notin Range(Quads)
    <3> DEFINE n == Len(Quads)
               a == Append(Quads, quad)
    <3>1. /\ DOMAIN Quads = 1 .. n /\ DOMAIN a = 1 .. n + 1 /\ n \in Nat
          /\ \A k \in 1 .. n : a[k] = Quads[k]
          /\ a[n + 1] = quad
      BY <2>2, <2>4, AppendProperties, LenProperties
    <3>2. \A i, j \in DOMAIN a : a[i] = a[j] => i = j
      BY <2>4 DEF IsInjective
    <3>3. \A k \in 1 .. n : k \in 1 .. n + 1 /\ n + 1 \in 1 .. n + 1 /\ k # n + 1
      BY <3>1
    <3> HIDE DEF n, a
    <3>4. \A k \in 1 .. n : Quads[k] # quad
      BY <3>1, <3>2, <3>3
    <3>5. QED
      BY <3>1, <3>4 DEF Range
  <2>7. QuadsOf(hp)' = {q \in Range(Quads') : MidHp(q[1], q[2]) = hp}
    BY ReachStays
  <2>8. QuadsOf(hp)' = IF hp = h THEN QuadsOf(hp) \cup {quad} ELSE QuadsOf(hp)
    BY <2>2, <2>5, <2>7 DEF QuadsOf
  <2>9. quad \notin QuadsOf(hp)
    BY <2>6 DEF QuadsOf
  <2>10. Cardinality(QuadsOf(hp) \cup {quad}) = c + 1
    BY <1>4, <2>9, FS_AddElement
  <2>11. QED
    BY <1>5, <2>8, <2>10 DEF Times
<1>6. ASSUME CreateQuad(FindStars(h), h) = {}, quadlist' = quadlist,
             retryhps' = IF R # 0 /\ Near(h) # {} /\ p.Nloosen # 0
                         THEN Append(retryhps, h) ELSE retryhps
      PROVE  /\ c' = c
             /\ hp # h => t' = t
             /\ hp = h => ~LeftFor(hp) /\ t' = IF Retried(hp) THEN t + 1 ELSE t
  <2> HIDE DEF h
  <2>1. Quads' = Quads
    BY <1>1, <1>6 DEF Quads
  <2>2. c' = c
    BY <2>1, ReachStays
  <2>3. hp = h => ~LeftFor(hp)
    BY <1>2, <1>3, <1>6, NoneLeft DEF Surroundings
  <2>4. Times(Append(retryhps, h), hp) = IF h = hp THEN t + 1 ELSE t
    BY <1>2, <1>3, TimesAppend
  <2>5. t' = Times(retryhps', hp)
    BY DEF Times
  <2>6. QED
    BY <1>6, <2>2, <2>3, <2>4, <2>5 DEF Retried
<1>7. \/ \E quad \in CreateQuad(FindStars(h), h) :
             quadlist' = Append(quadlist, quad) /\ retryhps' = retryhps
      \/ /\ CreateQuad(FindStars(h), h) = {} /\ quadlist' = quadlist
         /\ retryhps' = IF R # 0 /\ Near(h) # {} /\ p.Nloosen # 0
                        THEN Append(retryhps, h) ELSE retryhps
  BY DEF Visit
<1> HIDE DEF c, t, h
<1>8. CASE \E quad \in CreateQuad(FindStars(h), h) :
               quadlist' = Append(quadlist, quad) /\ retryhps' = retryhps
  BY <1>4, <1>5, <1>8 DEF c, t, h
<1>9. CASE /\ CreateQuad(FindStars(h), h) = {} /\ quadlist' = quadlist
           /\ retryhps' = IF R # 0 /\ Near(h) # {} /\ p.Nloosen # 0
                          THEN Append(retryhps, h) ELSE retryhps
  BY <1>4, <1>6, <1>9 DEF c, t, h
<1>10. QED
  BY <1>7, <1>8, <1>9

\* The account of passes, and what it comes to.
PassesInv == PassesCounted /\ NothingOwed

\* A visit keeps it.
LEMMA Visit_Passes ==
    ASSUME TypeOK, Surroundings, QuadsInv, Visit, UNCHANGED <<at, p, uniform>>,
           IsInjective(Quads'), PassesInv
    PROVE  PassesInv'
<1> DEFINE h == Head(todo)
<1>1. /\ stage \in {"pass", "loosen"} /\ todo # << >> /\ todo' = Tail(todo)
      /\ UNCHANGED <<at, p, uniform, stage, hptotry, pass, R, bigquadlist>>
  BY DEF Visit
<1>2. /\ stage = "pass" => h \notin Range(todo')
      /\ h \in Range(todo)
  BY <1>1, VisitKeeps
<1>3. /\ stage \in QuadStages /\ todo \in Seq(Hps) /\ hptotry \in Seq(Hps)
      /\ pass \in Nat /\ p.passes \in Nat
  BY <1>1, QuadOptionsAssumption DEF TypeOK, QuadsTypeOK, CatalogTypeOK, QuadStages, Stages
<1>4. Range(todo) = {h} \cup Range(todo')
  BY <1>1, <1>3, TailRange
<1>5. Range(hptotry) \subseteq Int
  <2>1. Hps \subseteq Int
    BY DEF Hps
  <2>2. \A k \in DOMAIN hptotry : hptotry[k] \in Hps
    BY <1>3, LenProperties
  <2>3. QED
    BY <2>1, <2>2 DEF Range
<1> HIDE DEF h
<1>6. ASSUME NEW hp \in Range(hptotry)
      PROVE  /\ Accounts(hp)'
             /\ stage = "pass" => (Cardinality(QuadsOf(hp)') < Begun(hp)' => ~LeftFor(hp)')
  <2> DEFINE c == Cardinality(QuadsOf(hp))
             t == Times(retryhps, hp)
             u == Times(todo, hp)
             b == Begun(hp)
             w == Waiting(hp)
             r == Retried(hp)
  <2>1. hp \in Int
    BY <1>5
  <2>2. /\ c \in Nat /\ t \in Nat
        /\ hp # h => c' = c /\ t' = t
        /\ hp = h => \/ c' = c + 1 /\ t' = t
                     \/ c' = c /\ ~LeftFor(hp) /\ t' = IF r THEN t + 1 ELSE t
    BY <2>1, VisitCounts DEF h
  <2>3. u \in Nat /\ u' \in Nat /\ u = IF hp = h THEN u' + 1 ELSE u'
    <3>1. Times(Tail(todo), hp) \in Nat /\ Times(todo, hp) \in Nat
      <4>1. Tail(todo) \in Seq(Hps)
        BY <1>1, <1>3, TailRange
      <4>2. QED
        BY <1>3, <4>1, TimesKnown
    <3>2. u' = Times(Tail(todo), hp)
      BY <1>1 DEF Times
    <3>3. QED
      BY <1>1, <1>3, <3>1, <3>2, TimesTail DEF h
  <2>4. /\ stage = "pass" => b \in Int /\ b' = IF hp = h THEN b + 1 ELSE b
        /\ stage = "loosen" => b \in Int /\ b' = b
    BY <1>1, <1>2, <1>3, <1>4 DEF Begun
  <2>5. w = (IF stage = "loosen" THEN t + u ELSE t) /\ w' = (IF stage = "loosen" THEN t' + u' ELSE t')
    BY <1>1, <2>2, <2>3 DEF Waiting
  <2>6. r' <=> r
    BY <1>1, ReachStays
  <2>7. c + w <= b /\ (r => c + w = b)
    BY <1>3 DEF PassesInv, PassesCounted, Accounts
  <2>8. stage = "pass" => (c < b => ~LeftFor(hp))
    BY <1>3 DEF PassesInv, NothingOwed
  <2>9. ~LeftFor(hp) => ~LeftFor(hp)'
    BY <1>1, LeftShrinks
  <2>10. Accounts(hp)' <=> (c' + w' <= b' /\ (r' => c' + w' = b'))
    BY DEF Accounts
  <2> HIDE DEF c, t, u, b, w, r
  <2>11. c' + w' <= b' /\ (r' => c' + w' = b')
    BY <1>1, <2>2, <2>3, <2>4, <2>5, <2>6, <2>7
  <2>12. stage = "pass" => (c' < b' => ~LeftFor(hp)')
    BY <2>2, <2>4, <2>8, <2>9
  <2>13. QED
    BY <2>10, <2>11, <2>12 DEF c, b
<1>7. PassesCounted'
  <2>1. stage = "pass" => pass \in 1 .. p.passes
    BY DEF PassesInv, PassesCounted
  <2>2. QED
    BY <1>1, <1>6, <2>1 DEF PassesCounted
<1>8. NothingOwed'
  BY <1>1, <1>6 DEF NothingOwed
<1>9. QED
  BY <1>7, <1>8 DEF PassesInv

\* It holds when hpquads starts, with no visit begun.
LEMMA StartQuads_Passes ==
    ASSUME TypeOK, Surroundings, StartQuads, UNCHANGED <<at, p, uniform>>
    PROVE  PassesInv'
<1>1. /\ stage' = "pass" /\ todo' = hptotry' /\ pass' = 1 /\ p' = p
      /\ retryhps' = << >> /\ quadlist' = << >> /\ bigquadlist' = << >>
  BY DEF StartQuads, QuadStages, Stages, Surroundings, NoQuadsYet
<1>2. p.passes \in Nat \ {0}
  BY QuadOptionsAssumption DEF TypeOK, CatalogTypeOK
<1>3. Range(Quads') = {}
  BY <1>1 DEF Quads, Range
<1>4. ASSUME NEW hp \in Range(hptotry')
      PROVE  Cardinality(QuadsOf(hp)') = 0 /\ Waiting(hp)' = 0 /\ Begun(hp)' = 0
  <2>1. QuadsOf(hp)' = {}
    BY <1>3 DEF QuadsOf
  <2>2. Times(<< >>, hp) = 0
    <3>1. << >> \in Seq(Hps)
      OBVIOUS
    <3>2. QED
      BY <3>1, TimesKnown
  <2>3. Waiting(hp)' = 0
    BY <1>1, <2>2 DEF Waiting, Times
  <2>4. QED
    BY <1>1, <2>1, <2>3, FS_EmptySet DEF Begun
<1>5. PassesCounted'
  BY <1>1, <1>2, <1>4 DEF PassesCounted, Accounts
<1>6. NothingOwed'
  BY <1>4 DEF NothingOwed
<1>7. QED
  BY <1>5, <1>6 DEF PassesInv


\* A healpix that no star is near has no quad.
LEMMA NoStarsNoQuads ==
    ASSUME CatalogTypeOK, NEW hp \in Int, Near(hp) = {}
    PROVE  ~LeftFor(hp)
<1>1. p.dimquads \in 3 .. 5
  BY StarNumbers
<1>2. 1 \in 1 .. p.dimquads
  BY <1>1
<1>3. Possible(hp) = {}
  BY <1>2, QuadInReach
<1>4. QED
  BY <1>3 DEF LeftFor

\* At the end of the loosening passes a healpix with fewer quads than passes has
\* waited in vain: it is on the retry list, or no star is near it.
LEMMA PaidUp ==
    ASSUME TypeOK, Surroundings, QuadsInv, PassesInv, stage = "loosen", todo = << >>,
           NEW hp \in Range(hptotry), hp \in Int, Cardinality(QuadsOf(hp)) < p.passes
    PROVE  ~LeftFor(hp)
<1>1. /\ retryhps \in Seq(Hps) /\ R \in Nat /\ R # 0 /\ R <= p.Nloosen /\ p.Nloosen \in Nat
      /\ p.passes \in Nat /\ CatalogTypeOK /\ stage \in QuadStages
  BY QuadOptionsAssumption
     DEF TypeOK, QuadsTypeOK, CatalogTypeOK, Surroundings, LimitInForce, QuadStages, Stages
<1>2. CASE Near(hp) = {}
  BY <1>1, <1>2, NoStarsNoQuads
<1>3. CASE Near(hp) # {}
  <2> DEFINE c == Cardinality(QuadsOf(hp))
             t == Times(retryhps, hp)
  <2>1. Retried(hp)
    BY <1>1, <1>3 DEF Retried
  <2>2. Times(todo, hp) = 0
    <3>1. << >> \in Seq(Hps)
      OBVIOUS
    <3>2. QED
      BY <3>1, TimesKnown
  <2>3. c \in Nat /\ t \in Nat /\ (t # 0 => hp \in Range(retryhps))
    BY <1>1, QuadsCount, TimesKnown
  <2>4. c + Waiting(hp) = Begun(hp)
    BY <1>1, <2>1 DEF PassesInv, PassesCounted, Accounts
  <2>5. Waiting(hp) = t /\ Begun(hp) = p.passes
    BY <2>2, <2>3 DEF Waiting, Begun
  <2>6. c < p.passes
    OBVIOUS
  <2> HIDE DEF c, t
  <2>7. hp \in Range(retryhps)
    BY <1>1, <2>3, <2>4, <2>5, <2>6
  <2>8. QED
    BY <1>1, <2>7 DEF QuadsInv, RetriesUsedUp, LeftFor
<1>4. QED
  BY <1>2, <1>3

\* The end of a pass keeps the account: the healpixes of the retry list, as often as
\* they are on it, are what a loosening pass visits.
LEMMA EndPass_Passes ==
    ASSUME TypeOK, Surroundings, QuadsInv, EndPass \/ EndLoosening, UNCHANGED <<at, p, uniform>>,
           PassesInv
    PROVE  PassesInv'
<1>1. /\ MergeQuads /\ UNCHANGED <<at, p, uniform, hptotry, nuses>>
      /\ stage \in {"pass", "loosen"} /\ stage \in QuadStages /\ todo = << >>
  BY DEF EndPass, EndLoosening, QuadStages, Stages
<1>2. /\ retryhps \in Seq(Hps) /\ hptotry \in Seq(Hps) /\ pass \in Nat /\ p.passes \in Nat
      /\ CatalogTypeOK
  BY QuadOptionsAssumption DEF TypeOK, QuadsTypeOK, CatalogTypeOK
<1>3. Range(Quads') = Range(Quads)
  BY <1>1, MergeKeeps
<1>4. Range(hptotry) \subseteq Int
  <2>1. Hps \subseteq Int
    BY DEF Hps
  <2>2. \A k \in DOMAIN hptotry : hptotry[k] \in Hps
    BY <1>2, LenProperties
  <2>3. QED
    BY <2>1, <2>2 DEF Range
<1>5. stage = "pass" => pass \in 1 .. p.passes
  BY DEF PassesInv, PassesCounted
<1>6. /\ stage = "loosen" => R # 0
      /\ R = 0 => retryhps = << >>
  BY DEF Surroundings, LimitInForce
<1>7. \A hp : Times(<< >>, hp) = 0
  <2>1. << >> \in Seq(Hps) /\ Range(<< >>) = {}
    BY DEF Range
  <2>2. QED
    BY <2>1, TimesKnown
\* What the account of a healpix was.
<1>8. ASSUME NEW hp \in Range(hptotry)
      PROVE  /\ Cardinality(QuadsOf(hp)) \in Nat /\ Times(retryhps, hp) \in Nat
             /\ Waiting(hp) = Times(retryhps, hp)
             /\ Begun(hp) = IF stage = "pass" THEN pass ELSE p.passes
             /\ Accounts(hp)
             /\ stage = "pass" => (Cardinality(QuadsOf(hp)) < Begun(hp) => ~LeftFor(hp))
  <2>1. Cardinality(QuadsOf(hp)) \in Nat /\ Times(retryhps, hp) \in Nat
    BY <1>2, QuadsCount, TimesKnown
  <2>2. Waiting(hp) = Times(retryhps, hp)
    BY <1>1, <1>7, <2>1 DEF Waiting
  <2>3. hp \notin Range(todo)
    BY <1>1 DEF Range
  <2>4. QED
    BY <1>1, <2>1, <2>2, <2>3 DEF Begun, PassesInv, PassesCounted, NothingOwed
\* A loosening pass comes next,
<1>9. CASE /\ stage' = "loosen" /\ todo' = retryhps /\ retryhps' = << >> /\ retryhps # << >>
           /\ stage = "pass" => pass = p.passes
  <2>1. ASSUME NEW hp \in Range(hptotry) PROVE Accounts(hp)'
    <3>1. Waiting(hp)' = Times(retryhps, hp)
      <4>1. Waiting(hp)' = Times(<< >>, hp) + Times(retryhps, hp)
        BY <1>9 DEF Waiting, Times
      <4>2. QED
        BY <1>7, <1>8, <4>1
    <3>2. Begun(hp)' = p.passes /\ Begun(hp) = p.passes
      BY <1>1, <1>8, <1>9 DEF Begun
    <3>3. QuadsOf(hp)' = QuadsOf(hp)
      BY <1>1, <1>3, ReachStays
    <3>4. Retried(hp)' => Retried(hp)
      <4>1. Near(hp)' = Near(hp)
        BY <1>1, ReachStays
      <4>2. QED
        BY <1>1, <1>6, <1>9, <4>1 DEF Retried
    <3>5. QED
      BY <1>8, <3>1, <3>2, <3>3, <3>4 DEF Accounts
  <2>2. PassesCounted' /\ NothingOwed'
    BY <1>1, <1>9, <2>1 DEF PassesCounted, NothingOwed
  <2>3. QED
    BY <2>2 DEF PassesInv
\* or another pass, or the end.
<1>10. CASE /\ R' = R /\ retryhps' = retryhps
            /\ \/ stage = "pass" /\ stage' = "pass" /\ todo' = hptotry /\ pass' = pass + 1
                  /\ pass < p.passes
               \/ stage' = "writequads" /\ (stage = "pass" => pass = p.passes)
  <2>1. ASSUME NEW hp \in Range(hptotry)
        PROVE  Accounts(hp)' /\ (Cardinality(QuadsOf(hp)') < Begun(hp)' => ~LeftFor(hp)')
    <3>1. Waiting(hp)' = Times(retryhps, hp)
      <4>1. Waiting(hp)' = Times(retryhps, hp) + 0
        BY <1>10 DEF Waiting, Times
      <4>2. QED
        BY <1>8, <4>1
    <3>2. Begun(hp)' = Begun(hp)
      <4>1. stage' = "pass" => pass' - 1 = pass
        BY <1>2, <1>10
      <4>2. stage' = "pass" => hp \in Range(todo')
        BY <1>10
      <4>3. QED
        BY <1>1, <1>8, <1>10, <4>1, <4>2 DEF Begun
    <3>3. QuadsOf(hp)' = QuadsOf(hp) /\ (Retried(hp)' <=> Retried(hp)) /\ (LeftFor(hp)' <=> LeftFor(hp))
      BY <1>1, <1>3, <1>10, ReachStays
    <3>4. Accounts(hp)'
      BY <1>8, <3>1, <3>2, <3>3 DEF Accounts
    <3>5. Cardinality(QuadsOf(hp)) < Begun(hp) => ~LeftFor(hp)
      <4>1. stage = "loosen" => (Cardinality(QuadsOf(hp)) < p.passes => ~LeftFor(hp))
        BY <1>1, <1>4, PaidUp
      <4>2. QED
        BY <1>1, <1>8, <4>1
    <3>6. QED
      BY <3>2, <3>3, <3>4, <3>5
  <2>2. stage' = "pass" => pass' \in 1 .. p.passes
    BY <1>2, <1>10
  <2>3. PassesCounted' /\ NothingOwed'
    BY <1>1, <1>10, <2>1, <2>2 DEF PassesCounted, NothingOwed
  <2>4. QED
    BY <2>3 DEF PassesInv
<1>11. EndPass => (~(pass < p.passes) => pass = p.passes)
  BY <1>2, <1>5 DEF EndPass
<1>12. QED
  BY <1>1, <1>9, <1>10, <1>11 DEF EndPass, EndLoosening

\* The other steps keep it: before hpquads nothing is counted,
LEMMA Early_Passes ==
    ASSUME stage' \notin QuadStages
    PROVE  PassesInv'
<1>1. stage' # "pass"
  BY DEF QuadStages, Stages
<1>2. QED
  BY <1>1 DEF PassesInv, PassesCounted, NothingOwed

\* and after it nothing that is counted changes.
LEMMA Late_Passes ==
    ASSUME TypeOK, UNCHANGED <<at, p, uniform, quadvars>>, PassesInv,
           \/ stage' = stage
           \/ /\ stage \in QuadStages \ {"pass", "loosen"}
              /\ stage' \in QuadStages \ {"pass", "loosen"}
    PROVE  PassesInv'
<1>1. /\ todo' = todo /\ retryhps' = retryhps /\ quadlist' = quadlist
      /\ bigquadlist' = bigquadlist /\ R' = R /\ hptotry' = hptotry /\ pass' = pass
      /\ nuses' = nuses /\ at' = at /\ p' = p /\ uniform' = uniform
  BY DEF quadvars
<1>2. /\ stage' \in QuadStages => stage \in QuadStages
      /\ stage' = "pass" <=> stage = "pass"
      /\ stage' = "loosen" <=> stage = "loosen"
  OBVIOUS
<1>3. Quads' = Quads
  BY <1>1 DEF Quads
<1>4. ASSUME NEW hp
      PROVE  /\ QuadsOf(hp)' = QuadsOf(hp) /\ Waiting(hp)' = Waiting(hp)
             /\ Begun(hp)' = Begun(hp)
             /\ Retried(hp)' <=> Retried(hp)
             /\ LeftFor(hp)' <=> LeftFor(hp)
  <2>1. QuadsOf(hp)' = QuadsOf(hp) /\ (Retried(hp)' <=> Retried(hp)) /\ (LeftFor(hp)' <=> LeftFor(hp))
    BY <1>1, <1>3, ReachStays
  <2>2. Waiting(hp)' = Waiting(hp) /\ Begun(hp)' = Begun(hp)
    BY <1>1, <1>2 DEF Waiting, Begun, Times
  <2>3. QED
    BY <2>1, <2>2
<1>5. PassesCounted'
  BY <1>1, <1>2, <1>4 DEF PassesInv, PassesCounted, Accounts
<1>6. NothingOwed'
  BY <1>1, <1>2, <1>4 DEF PassesInv, NothingOwed
<1>7. QED
  BY <1>5, <1>6 DEF PassesInv


\* Every step keeps the account of passes.
LEMMA PassesNext ==
    ASSUME SmallLimits
    PROVE  IndexInv /\ QuadsInv /\ PassesInv /\ [Next]_vars => PassesInv'
<1> SUFFICES ASSUME IndexInv, QuadsInv, PassesInv, [Next]_vars PROVE PassesInv'
  OBVIOUS
<1>1. TypeOK /\ Surroundings
  BY DEF IndexInv
<1>2. CASE Uniformize \/ BuildStarTree
  <2>1. stage' \in {"read", "place", "startree", "hpquads"}
    BY <1>2 DEF Uniformize, UniformizeNext, ReadCatalog, Place, WriteSweeps, BuildStarTree
  <2>2. QED
    BY <2>1, Early_Passes DEF QuadStages
<1>3. CASE MakeQuads
  <2>1. QuadsNext /\ UNCHANGED <<at, p, uniform>>
    BY <1>3 DEF MakeQuads, catalogvars
  <2>2. IsInjective(Quads')
    BY <1>3, MakeQuads_Inv DEF QuadsInv
  <2>3. QED
    BY <1>1, <2>1, <2>2, StartQuads_Passes, Visit_Passes, EndPass_Passes DEF QuadsNext
<1>4. CASE WriteQuads \/ BuildCodeTree \/ UnpermuteStars \/ UnpermuteQuads \/ UNCHANGED vars
  <2>1. UNCHANGED <<at, p, uniform, quadvars>>
    BY <1>4 DEF WriteQuads, BuildCodeTree, UnpermuteStars, UnpermuteQuads, vars, catalogvars
  <2>2. \/ stage' = stage
        \/ /\ stage \in {"writequads", "codetree", "unpermute-stars", "unpermute-quads"}
           /\ stage' \in {"failed", "codetree", "unpermute-stars", "unpermute-quads", "done"}
    BY <1>4 DEF WriteQuads, BuildCodeTree, UnpermuteStars, UnpermuteQuads, vars
  <2>3. QED
    BY <1>1, <2>1, <2>2, Late_Passes DEF QuadStages, Stages
<1>5. QED
  BY <1>2, <1>3, <1>4 DEF Next

\* What the account comes to.
LEMMA PassesAccounted ==
    ASSUME IndexInv, QuadsInv, PassesInv
    PROVE  PassesMadeUp
<1> DEFINE Got(hp) == {k \in DOMAIN Quads : MidHp(Quads[k][1], Quads[k][2]) = hp}
           Left(hp) == {q \in Possible(hp) \ Range(Quads) :
                           R = 0 \/ \A i \in Range(q) : nuses[i] < R}
<1>1. /\ TypeOK /\ NoQuadsYet /\ IsInjective(Quads)
      /\ p.passes \in Nat /\ R \in Nat /\ p.dimquads \in Nat
      /\ stage \in QuadStages => nuses \in [Stars -> 0 .. 255]
  BY QuadNumbers, QuadOptionsAssumption
     DEF IndexInv, QuadsInv, Surroundings, TypeOK, CatalogTypeOK, QuadsTypeOK
<1>2. ASSUME NEW hp \in Range(hptotry)
      PROVE  /\ Cardinality(Got(hp)) <= p.passes
             /\ stage = "writequads" /\ Cardinality(Got(hp)) < p.passes => Left(hp) = {}
  <2>1. Cardinality(Got(hp)) = Cardinality(QuadsOf(hp)) /\ Cardinality(QuadsOf(hp)) \in Nat
    BY <1>1, QuadsCount
  <2>2. CASE stage \notin QuadStages
    <3>1. Quads = << >>
      BY <1>1, <2>2 DEF NoQuadsYet, Quads
    <3>2. QuadsOf(hp) = {}
      BY <3>1 DEF QuadsOf, Range
    <3>3. Cardinality(QuadsOf(hp)) = 0
      BY <3>2, FS_EmptySet
    <3>4. stage # "writequads"
      BY <2>2 DEF QuadStages, Stages
    <3>5. QED
      BY <1>1, <2>1, <3>3, <3>4
  <2>3. CASE stage \in QuadStages
    <3>1. Waiting(hp) \in Nat
      <4>1. Times(retryhps, hp) \in Nat /\ Times(todo, hp) \in Nat
        BY <1>1, TimesKnown DEF TypeOK, QuadsTypeOK
      <4>2. QED
        BY <4>1 DEF Waiting
    <3>2. Begun(hp) \in Int /\ Begun(hp) <= p.passes
      BY <1>1 DEF Begun, PassesInv, PassesCounted
    <3>3. Cardinality(QuadsOf(hp)) + Waiting(hp) <= Begun(hp)
      BY <2>3 DEF PassesInv, PassesCounted, Accounts
    <3>4. Cardinality(Got(hp)) <= p.passes
      <4> HIDE DEF Got
      <4>1. QED
        BY <1>1, <2>1, <3>1, <3>2, <3>3
    <3>5. ASSUME stage = "writequads", Cardinality(Got(hp)) < p.passes, NEW q \in Left(hp)
          PROVE  FALSE
      <4>1. Begun(hp) = p.passes
        BY <3>5 DEF Begun
      <4>2. ~LeftFor(hp)
        BY <2>1, <2>3, <3>5, <4>1 DEF PassesInv, NothingOwed
      <4>3. q \in Possible(hp) \ Range(Quads)
        OBVIOUS
      <4>4. R # 0 /\ UsedUp(q, R)
        BY <4>2, <4>3 DEF LeftFor
      <4>5. PICK k \in 1 .. p.dimquads : nuses[q[k]] >= R
        BY <4>4 DEF UsedUp
      <4>6. q[k] \in Stars /\ q[k] \in Range(q)
        BY <4>3 DEF Possible, Range
      <4>7. nuses[q[k]] < R
        BY <4>4, <4>6
      <4>8. nuses[q[k]] \in Int
        <5>1. \A i \in Stars : nuses[i] \in 0 .. 255
          BY <1>1, <2>3
        <5>2. \A n \in 0 .. 255 : n \in Int
          OBVIOUS
        <5>3. QED
          BY <4>6, <5>1, <5>2, Zenon
      <4>9. QED
        BY <1>1, <4>5, <4>7, <4>8
    <3>6. QED
      BY <3>4, <3>5
  <2>4. QED
    BY <2>2, <2>3
<1>3. QED
  BY <1>2 DEF PassesMadeUp

\* Under the proviso of ReuseIsBounded the passes are made up for: no healpix gets
\* more quads than there are passes, and one that has fewer when the quads are
\* written has no quad left of stars below the final limit.  Every visit that gave
\* no quad has put its healpix on the retry list, or there is nothing to retry.
THEOREM PassesAreMadeUp ==
    ASSUME SmallLimits
    PROVE  Spec => []PassesMadeUp
<1>1. Init => IndexInv /\ QuadsInv /\ PassesInv
  <2>1. Init => IndexInv /\ QuadsInv
    BY IndexInit
  <2>2. Init => PassesInv
    BY DEF Init, CatalogInit, PassesInv, PassesCounted, NothingOwed, QuadStages
  <2>3. QED
    BY <2>1, <2>2
<1>2. IndexInv /\ QuadsInv /\ PassesInv /\ [Next]_vars => IndexInv' /\ QuadsInv' /\ PassesInv'
  BY IndexNext, PassesNext
<1>3. IndexInv /\ QuadsInv /\ PassesInv => PassesMadeUp
  BY PassesAccounted
<1>4. QED
  BY <1>1, <1>2, <1>3, PTL DEF Spec

-----------------------------------------------------------------------------
(* The codes of quads *)

\* f puts n things in another order.
Permutes(f, n) == f \in [1 .. n -> 1 .. n] /\ IsInjective(f)

\* The inner stars of a quad lie in the circle of its first two.
Spans(q) == \A k \in 3 .. p.dimquads : Between(q[k], q[1], q[2])

\* What the solver relies on of a code.
WellOrdered(c) ==
    /\ 2 * Total(c.x) <= c.ab * Len(c.x)
    /\ \A k \in 1 .. Len(c.x) - 1 : c.x[k] <= c.x[k + 1]

\* Quads have at most three inner stars.
LEMMA SmallTotal ==
    ASSUME NEW m \in 1 .. 3, NEW x \in [1 .. m -> Int]
    PROVE  /\ Len(x) = m
           /\ m = 1 => Total(x) = x[1]
           /\ m = 2 => Total(x) = x[1] + x[2]
           /\ m = 3 => Total(x) = x[1] + x[2] + x[3]
<1>1. x \in Seq(Int) /\ Len(x) = m
  BY FunctionIsSequence
<1>2. PICK s \in [0 .. m -> Int] :
          s[0] = 0 /\ (\A n \in 1 .. m : s[n] = s[n - 1] + x[n]) /\ Total(x) = s[m]
  BY <1>1, TotalIsSum
<1>3. s[1] = x[1]
  BY <1>2
<1>4. m >= 2 => s[2] = x[1] + x[2]
  BY <1>2, <1>3
<1>5. m = 3 => s[3] = x[1] + x[2] + x[3]
  BY <1>2, <1>4
<1>6. QED
  BY <1>1, <1>2, <1>3, <1>4, <1>5

\* A code turned around has the rest of the sum,
LEMMA TotalTurned ==
    ASSUME NEW m \in 1 .. 3, NEW x \in [1 .. m -> Int], NEW y \in [1 .. m -> Int], NEW ab \in Int,
           \A k \in 1 .. m : y[k] = ab - x[k]
    PROVE  Total(y) = m * ab - Total(x) /\ Len(y) = m /\ Len(x) = m
<1>1. CASE m = 1
  BY <1>1, SmallTotal
<1>2. CASE m = 2
  BY <1>2, SmallTotal
<1>3. CASE m = 3
  BY <1>3, SmallTotal
<1>4. QED
  BY <1>1, <1>2, <1>3

\* and one put in order has the same sum.
LEMMA TotalOrdered ==
    ASSUME NEW m \in 1 .. 3, NEW x \in [1 .. m -> Int], NEW f, Permutes(f, m)
    PROVE  Total([k \in 1 .. m |-> x[f[k]]]) = Total(x)
<1> DEFINE y == [k \in 1 .. m |-> x[f[k]]]
<1>0. f \in [1 .. m -> 1 .. m] /\ \A i, j \in 1 .. m : f[i] = f[j] => i = j
  BY DEF Permutes, IsInjective
<1>1. y \in [1 .. m -> Int] /\ \A k \in 1 .. m : y[k] = x[f[k]]
  BY <1>0
<1> HIDE DEF y
<1>2. CASE m = 1
  <2>1. f[1] = 1
    BY <1>0, <1>2
  <2>2. QED
    BY <1>1, <1>2, <2>1, SmallTotal DEF y
<1>3. CASE m = 2
  <2>1. f[1] \in {1, 2} /\ f[2] \in {1, 2} /\ f[1] # f[2]
    BY <1>0, <1>3
  <2>2. y[1] + y[2] = x[1] + x[2]
    BY <1>1, <1>3, <2>1
  <2>3. QED
    BY <1>1, <1>3, <2>2, SmallTotal DEF y
<1>4. CASE m = 3
  <2>1. /\ f[1] \in {1, 2, 3} /\ f[2] \in {1, 2, 3} /\ f[3] \in {1, 2, 3}
        /\ f[1] # f[2] /\ f[1] # f[3] /\ f[2] # f[3]
    BY <1>0, <1>4
  <2>2. y[1] = x[f[1]] /\ y[2] = x[f[2]] /\ y[3] = x[f[3]]
    BY <1>1, <1>4
  <2>3. x[1] \in Int /\ x[2] \in Int /\ x[3] \in Int
    BY <1>4
  <2>4. y[1] + y[2] + y[3] = x[1] + x[2] + x[3]
    <3> DEFINE a == x[1]
               b == x[2]
               c == x[3]
               V(n) == IF n = 1 THEN a ELSE IF n = 2 THEN b ELSE c
               i == f[1]
               j == f[2]
               k == f[3]
    <3>1. y[1] = V(i) /\ y[2] = V(j) /\ y[3] = V(k)
      BY <2>1, <2>2
    <3> HIDE DEF a, b, c, i, j, k
    <3>2. /\ i \in {1, 2, 3} /\ j \in {1, 2, 3} /\ k \in {1, 2, 3} /\ i # j /\ i # k /\ j # k
          /\ a \in Int /\ b \in Int /\ c \in Int
      BY <2>1, <2>3 DEF a, b, c, i, j, k
    <3>3. V(i) + V(j) + V(k) = a + b + c
      BY <3>2
    <3>4. QED
      BY <3>1, <3>3 DEF a, b, c
  <2>5. QED
    BY <1>1, <1>4, <2>4, SmallTotal DEF y
<1>5. QED
  BY <1>2, <1>3, <1>4 DEF y

\* The code of a quad, in numbers.
LEMMA CodeNumbers ==
    ASSUME CatalogTypeOK, NEW q \in QuadsOfStars
    PROVE  LET m == p.dimquads - 2
               c == ComputeCode(q, uniform)
           IN  /\ m \in 1 .. 3 /\ Len(q) = p.dimquads
               /\ c = [ab |-> AB(q[1], q[2]), x |-> [k \in 1 .. m |-> AB(q[k + 2], q[1])]]
               /\ c.ab \in Nat /\ c.x \in [1 .. m -> Int]
<1> DEFINE m == p.dimquads - 2
           x == [k \in 1 .. m |-> AB(q[k + 2], q[1])]
<1>1. p.dimquads \in 3 .. 5
  BY StarNumbers
<1>2. m \in 1 .. 3 /\ p.dimquads \in Nat /\ m + 2 = p.dimquads
  BY <1>1
<1>3. Len(q) = p.dimquads
  BY <1>2, FunctionIsSequence DEF QuadsOfStars
<1>4. \A k \in 1 .. p.dimquads : q[k] \in Stars
  BY DEF QuadsOfStars
<1>5. \A i, j \in Stars : AB(i, j) \in Nat
  BY StarNumbers, CatalogNumbers DEF AB
<1>6. /\ 1 \in 1 .. p.dimquads /\ 2 \in 1 .. p.dimquads
      /\ \A k \in 1 .. m : k + 2 \in 1 .. p.dimquads
  BY <1>1
<1>7. ComputeCode(q, uniform) = [ab |-> AB(q[1], q[2]), x |-> x]
  BY <1>3 DEF ComputeCode, AB
<1>8. AB(q[1], q[2]) \in Nat /\ \A k \in 1 .. m : AB(q[k + 2], q[1]) \in Int
  BY <1>4, <1>5, <1>6
<1>9. x \in [1 .. m -> Int]
  BY <1>8
<1> HIDE DEF x
<1>10. QED
  BY <1>2, <1>3, <1>7, <1>8, <1>9 DEF x

\* A star in the circle of A and B is as far from B as it is not from A.
LEMMA FromB ==
    ASSUME CatalogTypeOK, NEW a \in Stars, NEW b \in Stars
    PROVE  /\ AB(b, a) = AB(a, b)
           /\ \A i \in Stars : Between(i, a, b) => AB(i, b) = AB(a, b) - AB(i, a)
<1>1. \A i \in Stars : Pos(i) \in Int
  BY StarNumbers
<1>2. \A i, j \in Stars : AB(i, j) = IF Pos(i) - Pos(j) < 0 THEN -(Pos(i) - Pos(j)) ELSE Pos(i) - Pos(j)
  BY DEF AB, Distance, Pos
<1>3. AB(b, a) = AB(a, b)
  <2>1. Pos(a) \in Int /\ Pos(b) \in Int
    BY <1>1
  <2>2. QED
    BY <1>2, <2>1
<1>4. ASSUME NEW i \in Stars, Between(i, a, b) PROVE AB(i, b) = AB(a, b) - AB(i, a)
  <2> DEFINE x == Pos(i)
             y == Pos(a)
             z == Pos(b)
  <2>1. x \in Int /\ y \in Int /\ z \in Int /\ (x - y) * (x - z) <= 0
    BY <1>1, <1>4 DEF Between
  <2>2. /\ AB(i, b) = IF x - z < 0 THEN -(x - z) ELSE x - z
        /\ AB(a, b) = IF y - z < 0 THEN -(y - z) ELSE y - z
        /\ AB(i, a) = IF x - y < 0 THEN -(x - y) ELSE x - y
    BY <1>2
  <2> HIDE DEF x, y, z
  <2>3. (y <= x /\ x <= z) \/ (z <= x /\ x <= y)
    BY <2>1, InBetween
  <2>4. QED
    BY <2>1, <2>2, <2>3
<1>5. QED
  BY <1>3, <1>4

\* A quad turned around has the code turned around, which is balanced if the code
\* is not.
LEMMA Flipped ==
    ASSUME CatalogTypeOK, NEW q \in QuadsOfStars, Spans(q)
    PROVE  LET f == Flip([quad |-> q, code |-> ComputeCode(q, uniform)])
           IN  /\ f.quad \in QuadsOfStars /\ Range(f.quad) = Range(q)
               /\ f = [quad |-> f.quad, code |-> ComputeCode(f.quad, uniform)]
               /\ 2 * Total(f.code.x) <= f.code.ab * Len(f.code.x)
<1> DEFINE d == p.dimquads
           m == d - 2
           c == ComputeCode(q, uniform)
           r == [q EXCEPT ![1] = q[2], ![2] = q[1]]
           y == [k \in DOMAIN c.x |-> c.ab - c.x[k]]
<1>1. /\ m \in 1 .. 3 /\ d = m + 2
      /\ c = [ab |-> AB(q[1], q[2]), x |-> [k \in 1 .. m |-> AB(q[k + 2], q[1])]]
      /\ c.ab \in Nat /\ c.x \in [1 .. m -> Int]
  <2>1. d \in 3 .. 5
    BY StarNumbers
  <2>2. QED
    BY <2>1, CodeNumbers
<1>2. /\ 1 \in 1 .. d /\ 2 \in 1 .. d
      /\ \A k \in 1 .. m : k + 2 \in 3 .. d /\ k + 2 \in 1 .. d /\ k + 2 # 1 /\ k + 2 # 2
  BY <1>1
<1>3. q \in [1 .. d -> Stars]
  BY DEF QuadsOfStars
<1> HIDE DEF d, m, c
<1>4. /\ r \in [1 .. d -> Stars] /\ r[1] = q[2] /\ r[2] = q[1]
      /\ \A k \in 1 .. d : k # 1 /\ k # 2 => r[k] = q[k]
  BY <1>2, <1>3
<1>5. Range(r) = Range(q)
  BY <1>2, <1>3, <1>4 DEF Range
<1>6. r \in QuadsOfStars
  BY <1>4 DEF QuadsOfStars, d
<1>7. ComputeCode(r, uniform) = [c EXCEPT !.x = y]
  <2>1. ComputeCode(r, uniform) = [ab |-> AB(r[1], r[2]), x |-> [k \in 1 .. m |-> AB(r[k + 2], r[1])]]
    BY <1>6, CodeNumbers DEF m, d
  <2>2. AB(r[1], r[2]) = c.ab
    <3>1. q[1] \in Stars /\ q[2] \in Stars
      BY <1>2, <1>3
    <3>2. QED
      BY <1>1, <1>4, <3>1, FromB
  <2>3. ASSUME NEW k \in 1 .. m PROVE AB(r[k + 2], r[1]) = c.ab - c.x[k]
    <3> DEFINE i == q[k + 2]
               a == q[1]
               b == q[2]
    <3>1. i \in Stars /\ a \in Stars /\ b \in Stars /\ Between(i, a, b)
      BY <1>2, <1>3 DEF Spans, d
    <3>2. c.ab = AB(a, b) /\ c.x[k] = AB(i, a) /\ AB(r[k + 2], r[1]) = AB(i, b)
      BY <1>1, <1>2, <1>4
    <3> HIDE DEF i, a, b
    <3>3. QED
      BY <3>1, <3>2, FromB
  <2>4. y = [k \in 1 .. m |-> c.ab - c.x[k]]
    BY <1>1
  <2>5. [k \in 1 .. m |-> AB(r[k + 2], r[1])] = y
    BY <2>3, <2>4
  <2>6. [c EXCEPT !.x = y] = [ab |-> c.ab, x |-> y]
    <3>1. \A n, z, w : [[ab |-> n, x |-> z] EXCEPT !.x = w] = [ab |-> n, x |-> w]
      OBVIOUS
    <3>2. c = [ab |-> c.ab, x |-> c.x]
      BY <1>1
    <3> HIDE DEF y
    <3>3. [[ab |-> c.ab, x |-> c.x] EXCEPT !.x = y] = [ab |-> c.ab, x |-> y]
      BY <3>1
    <3>4. QED
      BY <3>2, <3>3
  <2> HIDE DEF y, r
  <2>7. QED
    BY <2>1, <2>2, <2>5, <2>6
<1>8. y \in [1 .. m -> Int] /\ \A k \in 1 .. m : y[k] = c.ab - c.x[k]
  BY <1>1
<1>9. [c EXCEPT !.x = y].ab = c.ab /\ [c EXCEPT !.x = y].x = y
  BY <1>1
<1>10. Flip([quad |-> q, code |-> c]) =
           IF 2 * Total(c.x) > c.ab * Len(c.x)
           THEN [quad |-> r, code |-> [c EXCEPT !.x = y]] ELSE [quad |-> q, code |-> c]
  BY DEF Flip
<1> DEFINE x == c.x
           ab == c.ab
<1>11. Total(y) = m * ab - Total(x) /\ Len(y) = m /\ Len(x) = m /\ Total(x) \in Int
  <2>1. ab \in Int /\ x \in [1 .. m -> Int]
    BY <1>1
  <2>2. x \in Seq(Int)
    BY <1>1, <2>1, FunctionIsSequence
  <2> HIDE DEF y, x, ab
  <2>3. \A k \in 1 .. m : y[k] = ab - x[k]
    BY <1>8 DEF x, ab
  <2>4. Total(x) \in Int
    BY <2>2, TotalType
  <2>5. m \in 1 .. 3 /\ y \in [1 .. m -> Int]
    BY <1>1, <1>8
  <2>6. Total(y) = m * ab - Total(x) /\ Len(y) = m /\ Len(x) = m
    BY <2>1, <2>3, <2>5, TotalTurned, ZenonT(40)
  <2>7. QED
    BY <2>4, <2>6
<1> HIDE DEF y, r
<1>12. CASE 2 * Total(x) > ab * Len(x)
  <2>1. 2 * Total(y) <= ab * Len(y)
    <3> DEFINE t == Total(x)
               u == m * ab
    <3>1. t \in Int /\ u \in Int /\ Total(y) = u - t /\ 2 * t > u /\ ab * Len(y) = u
      BY <1>1, <1>11, <1>12
    <3> HIDE DEF t, u
    <3>2. QED
      BY <3>1
  <2> DEFINE z == [c EXCEPT !.x = y]
  <2>2. z.ab = ab /\ z.x = y /\ ComputeCode(r, uniform) = z
    BY <1>7, <1>9
  <2> HIDE DEF z
  <2>3. Flip([quad |-> q, code |-> c]) = [quad |-> r, code |-> z]
    BY <1>10, <1>12 DEF x, ab, z
  <2>4. QED
    BY <1>5, <1>6, <2>1, <2>2, <2>3 DEF c
<1>13. CASE ~(2 * Total(x) > ab * Len(x))
  <2>1. 2 * Total(x) <= ab * Len(x)
    <3> DEFINE t == Total(x)
               u == ab * Len(x)
    <3>1. t \in Int /\ u \in Int /\ ~(2 * t > u)
      BY <1>1, <1>11, <1>13
    <3> HIDE DEF t, u
    <3>2. 2 * t <= u
      BY <3>1
    <3>3. QED
      BY <3>2 DEF t, u
  <2>2. QED
    BY <1>10, <1>13, <2>1 DEF c, x, ab
<1>14. QED
  BY <1>12, <1>13

\* Distances can be sorted.
LEMMA NearerOrder ==
    ASSUME NEW m \in Nat, NEW x \in [1 .. m -> Int]
    PROVE  LET f == InOrderOf(NearerA(x), DOMAIN x)
           IN  /\ f \in [1 .. m -> 1 .. m]
               /\ \A i, j \in 1 .. m : f[i] = f[j] => i = j
               /\ \A n \in 1 .. m : \E i \in 1 .. m : f[i] = n
               /\ \A k \in 1 .. m - 1 : x[f[k]] <= x[f[k + 1]]
<1> DEFINE D == 1 .. m
           O == NearerA(x)
           f == InOrderOf(O, D)
<1>1. DOMAIN x = D /\ IsFiniteSet(D) /\ Cardinality(D) = m
  BY IntervalSize
<1>2. \A i \in D : x[i] \in Int /\ i \in Int
  OBVIOUS
<1>3. \A i, j \in D : <<i, j>> \in O <=> (x[i] < x[j] \/ (x[i] = x[j] /\ i < j))
  BY <1>1 DEF NearerA
<1> HIDE DEF O, D
<1>4. StrictOrder(O, D)
  <2>1. \A i \in D : <<i, i>> \notin O
    BY <1>2, <1>3
  <2>2. \A i, j, k \in D : <<i, j>> \in O /\ <<j, k>> \in O => <<i, k>> \in O
    BY <1>2, <1>3
  <2>3. \A i, j \in D : i # j => <<i, j>> \in O \/ <<j, i>> \in O
    BY <1>2, <1>3
  <2>4. QED
    BY <2>1, <2>2, <2>3 DEF StrictOrder
<1>5. /\ f \in Seq(D) /\ Len(f) = m
      /\ \A n \in D : \E i \in 1 .. m : f[i] = n
      /\ \A i, j \in 1 .. m : i < j <=> <<f[i], f[j]>> \in O
      /\ \A i, j \in 1 .. m : f[i] = f[j] => i = j
  <2>1. /\ f \in Seq(D) /\ Len(f) = Cardinality(D)
        /\ \A n \in D : \E i \in 1 .. Len(f) : f[i] = n
        /\ \A i, j \in 1 .. Len(f) : i < j <=> <<f[i], f[j]>> \in O
        /\ \A i, j \in 1 .. Len(f) : f[i] = f[j] => i = j
    <3>1. IsFiniteSet(D) /\ StrictOrder(O, D)
      BY <1>1, <1>4
    <3> HIDE DEF f
    <3>2. LET s == InOrderOf(O, D) IN
          /\ s \in Seq(D)
          /\ Len(s) = Cardinality(D)
          /\ \A i \in 1 .. Len(s) : s[i] \in D /\ Rank(O, D, s[i]) = i - 1
          /\ \A n \in D : \E i \in 1 .. Len(s) : s[i] = n
          /\ \A i, j \in 1 .. Len(s) : i < j <=> <<s[i], s[j]>> \in O
          /\ \A i, j \in 1 .. Len(s) : s[i] = s[j] => i = j
      BY ONLY <3>1, Sorting
    <3>3. f = InOrderOf(O, D)
      BY DEF f
    <3>4. QED
      BY <3>2, <3>3
  <2> HIDE DEF f
  <2>2. QED
    BY <1>1, <2>1
<1> HIDE DEF f
<1>6. f \in [1 .. m -> D]
  BY <1>5, LenProperties
<1>7. ASSUME NEW k \in 1 .. m - 1 PROVE x[f[k]] <= x[f[k + 1]]
  <2>1. k \in 1 .. m /\ k + 1 \in 1 .. m /\ k < k + 1
    OBVIOUS
  <2>2. <<f[k], f[k + 1]>> \in O /\ f[k] \in D /\ f[k + 1] \in D
    BY <1>5, <1>6, <2>1
  <2> DEFINE i == f[k]
             j == f[k + 1]
  <2>3. i \in D /\ j \in D /\ <<i, j>> \in O
    BY <2>2
  <2> HIDE DEF i, j
  <2>4. x[i] \in Int /\ x[j] \in Int /\ (x[i] < x[j] \/ x[i] = x[j])
    BY <1>2, <1>3, <2>3
  <2>5. x[i] <= x[j]
    BY <2>4
  <2>6. QED
    BY <2>5 DEF i, j
<1>8. QED
  BY <1>1, <1>5, <1>6, <1>7 DEF D, O, f

\* A quad with its inner stars in order has the code in order, as balanced as it was.
LEMMA Arranged ==
    ASSUME CatalogTypeOK, NEW q \in QuadsOfStars,
           2 * Total(ComputeCode(q, uniform).x)
               <= ComputeCode(q, uniform).ab * Len(ComputeCode(q, uniform).x)
    PROVE  LET w == Arrange([quad |-> q, code |-> ComputeCode(q, uniform)])
           IN  /\ w.quad \in QuadsOfStars /\ Range(w.quad) = Range(q)
               /\ w.code = ComputeCode(w.quad, uniform) /\ WellOrdered(w.code)
<1> DEFINE d == p.dimquads
           m == d - 2
           c == ComputeCode(q, uniform)
           x == c.x
           f == InOrderOf(NearerA(x), DOMAIN x)
           r == [k \in DOMAIN q |-> IF k <= 2 THEN q[k] ELSE q[f[k - 2] + 2]]
           y == [k \in DOMAIN x |-> x[f[k]]]
           z == [c EXCEPT !.x = y]
<1>1. /\ m \in 1 .. 3 /\ d = m + 2 /\ m \in Nat
      /\ c = [ab |-> AB(q[1], q[2]), x |-> [k \in 1 .. m |-> AB(q[k + 2], q[1])]]
      /\ x \in [1 .. m -> Int]
  <2>1. d \in 3 .. 5
    BY StarNumbers
  <2>2. QED
    BY <2>1, CodeNumbers
<1>2. q \in [1 .. d -> Stars]
  BY DEF QuadsOfStars
<1>a. \A k \in 1 .. m : x[k] = AB(q[k + 2], q[1])
  BY <1>1
<1> HIDE DEF d, m, c, x
<1>3. /\ f \in [1 .. m -> 1 .. m]
      /\ \A i, j \in 1 .. m : f[i] = f[j] => i = j
      /\ \A n \in 1 .. m : \E i \in 1 .. m : f[i] = n
      /\ \A k \in 1 .. m - 1 : x[f[k]] <= x[f[k + 1]]
  BY <1>1, NearerOrder
<1> HIDE DEF f
<1>4. /\ 1 \in 1 .. d /\ 2 \in 1 .. d
      /\ \A k \in 1 .. d : k <= 2 <=> k \in {1, 2}
      /\ \A k \in 1 .. d : ~(k <= 2) => k - 2 \in 1 .. m /\ (k - 2) + 2 = k
      /\ \A k \in 1 .. m : k + 2 \in 1 .. d /\ ~(k + 2 <= 2) /\ (k + 2) - 2 = k
  BY <1>1
<1>5. \A k \in 1 .. m : f[k] \in 1 .. m
  BY <1>3
<1>6. DOMAIN q = 1 .. d
  BY <1>2
<1>7. r[1] = q[1] /\ r[2] = q[2] /\ \A k \in 1 .. m : r[k + 2] = q[f[k] + 2]
  BY <1>4, <1>6
<1>8. r \in [1 .. d -> Stars]
  <2>1. ASSUME NEW k \in 1 .. d PROVE r[k] \in Stars
    <3>1. CASE k <= 2
      BY <1>2, <1>6, <3>1
    <3>2. CASE ~(k <= 2)
      <4>1. f[k - 2] + 2 \in 1 .. d
        BY <1>4, <1>5, <3>2
      <4>2. QED
        BY <1>2, <1>6, <3>2, <4>1
    <3>3. QED
      BY <3>1, <3>2
  <2>2. r = [k \in 1 .. d |-> r[k]]
    BY <1>6
  <2> HIDE DEF r
  <2>3. QED
    BY <2>1, <2>2
<1> HIDE DEF r
<1>9. Range(r) = Range(q)
  <2>1. ASSUME NEW k \in 1 .. d PROVE r[k] \in Range(q)
    <3>1. CASE k \in {1, 2}
      BY <1>4, <1>6, <1>7, <3>1 DEF Range
    <3>2. CASE k \notin {1, 2}
      <4>1. k - 2 \in 1 .. m /\ (k - 2) + 2 = k
        BY <1>4, <3>2
      <4>2. r[k] = q[f[k - 2] + 2] /\ f[k - 2] + 2 \in 1 .. d
        BY <1>4, <1>5, <1>7, <4>1
      <4>3. QED
        BY <1>6, <4>2 DEF Range
    <3>3. QED
      BY <3>1, <3>2
  <2>2. ASSUME NEW k \in 1 .. d PROVE q[k] \in Range(r)
    <3>1. CASE k \in {1, 2}
      BY <1>4, <1>7, <1>8, <3>1 DEF Range
    <3>2. CASE k \notin {1, 2}
      <4>1. k - 2 \in 1 .. m /\ (k - 2) + 2 = k
        BY <1>4, <3>2
      <4>2. PICK i \in 1 .. m : f[i] = k - 2
        BY <1>3, <4>1
      <4>3. r[i + 2] = q[k] /\ i + 2 \in 1 .. d
        BY <1>4, <1>7, <4>1, <4>2
      <4>4. QED
        BY <1>8, <4>3 DEF Range
    <3>3. QED
      BY <3>1, <3>2
  <2>3. QED
    BY <1>6, <1>8, <2>1, <2>2 DEF Range
<1>10. r \in QuadsOfStars
  BY <1>8 DEF QuadsOfStars, d
<1>11. y = [k \in 1 .. m |-> x[f[k]]] /\ y \in [1 .. m -> Int]
  <2>1. DOMAIN x = 1 .. m
    BY <1>1
  <2>2. QED
    BY <1>1, <1>5, <2>1
<1>12. z.ab = c.ab /\ z.x = y /\ z = [ab |-> c.ab, x |-> y]
  <2>1. \A n, u, w : [[ab |-> n, x |-> u] EXCEPT !.x = w] = [ab |-> n, x |-> w]
    OBVIOUS
  <2>2. c = [ab |-> c.ab, x |-> c.x]
    BY <1>1
  <2> HIDE DEF y
  <2>3. [[ab |-> c.ab, x |-> c.x] EXCEPT !.x = y] = [ab |-> c.ab, x |-> y]
    BY <2>1
  <2>4. z = [ab |-> c.ab, x |-> y]
    BY <2>2, <2>3
  <2> HIDE DEF z
  <2>5. QED
    BY <2>4
<1>13. ComputeCode(r, uniform) = z
  <2>1. ComputeCode(r, uniform) = [ab |-> AB(r[1], r[2]), x |-> [k \in 1 .. m |-> AB(r[k + 2], r[1])]]
    BY <1>10, CodeNumbers DEF m, d
  <2>2. AB(r[1], r[2]) = c.ab
    BY <1>1, <1>7
  <2>3. \A k \in 1 .. m : AB(r[k + 2], r[1]) = x[f[k]]
    BY <1>5, <1>7, <1>a
  <2>4. QED
    BY <1>11, <1>12, <2>1, <2>2, <2>3
<1>14. WellOrdered(z)
  <2>1. Len(y) = m /\ Len(x) = m
    BY <1>1, <1>11, SmallTotal
  <2>2. Total(y) = Total(x)
    <3>a. Permutes(f, m)
      BY <1>3 DEF Permutes, IsInjective
    <3>1. Total([k \in 1 .. m |-> x[f[k]]]) = Total(x)
      BY <1>1, <3>a, TotalOrdered
    <3>2. QED
      BY <1>11, <3>1
  <2>3. \A k \in 1 .. m - 1 : y[k] = x[f[k]] /\ y[k + 1] = x[f[k + 1]]
    BY <1>1, <1>11
  <2>4. 2 * Total(x) <= c.ab * Len(x)
    BY DEF c, x
  <2> HIDE DEF y, z
  <2>5. QED
    BY <1>3, <1>12, <2>1, <2>2, <2>3, <2>4 DEF WellOrdered
<1>15. Arrange([quad |-> q, code |-> c]) = [quad |-> r, code |-> z]
  BY DEF Arrange, r, f, x
<1> HIDE DEF z, y
<1>16. QED
  BY <1>9, <1>10, <1>13, <1>14, <1>15 DEF c

\* A quad is written with its stars in an order of its own, and the code of that.
LEMMA QuadWritten ==
    ASSUME CatalogTypeOK, NEW q \in QuadsOfStars, Spans(q)
    PROVE  LET w == QuadWrite(q)
           IN  /\ w.quad \in QuadsOfStars /\ Range(w.quad) = Range(q)
               /\ w.code = ComputeCode(w.quad, uniform) /\ WellOrdered(w.code)
<1> DEFINE f == Flip([quad |-> q, code |-> ComputeCode(q, uniform)])
<1>1. /\ f.quad \in QuadsOfStars /\ Range(f.quad) = Range(q)
      /\ f = [quad |-> f.quad, code |-> ComputeCode(f.quad, uniform)]
      /\ 2 * Total(f.code.x) <= f.code.ab * Len(f.code.x)
  BY Flipped
<1>2. QuadWrite(q) = Arrange(f)
  BY DEF QuadWrite
<1> HIDE DEF f
<1> DEFINE r == f.quad
<1>3. f = [quad |-> r, code |-> ComputeCode(r, uniform)]
  BY <1>1
<1>4. f.code = ComputeCode(r, uniform)
  BY <1>3
<1>5. r \in QuadsOfStars /\ Range(r) = Range(q)
  BY <1>1
<1>6. 2 * Total(ComputeCode(r, uniform).x)
          <= ComputeCode(r, uniform).ab * Len(ComputeCode(r, uniform).x)
  BY <1>1, <1>4
<1>7. QuadWrite(q) = Arrange([quad |-> r, code |-> ComputeCode(r, uniform)])
  BY <1>2, <1>3
<1> HIDE DEF r
<1>8. QED
  BY <1>5, <1>6, <1>7, Arranged

\* Every place is taken in a permutation.
LEMMA PermutesOnto ==
    ASSUME NEW n \in Nat, NEW f, Permutes(f, n)
    PROVE  \A j \in 1 .. n : \E i \in 1 .. n : f[i] = j
<1> DEFINE D == 1 .. n
<1>1. IsFiniteSet(D)
  BY IntervalSize
<1>2. f \in Injection(D, D)
  BY DEF Permutes, IsInjective, Injection
<1> HIDE DEF D
<1>3. f \in Surjection(D, D)
  BY <1>1, <1>2, FS_Injection
<1>4. QED
  BY <1>3 DEF Surjection, D

\* The rows that a quad names in t.
RowsIn(q, t) == {t[s] : s \in Range(q)}

\* Quad r names in u the rows that q names in t.
Renumbered(q, t, r, u, d) ==
    /\ d \in Nat /\ d >= 2
    /\ DOMAIN q = 1 .. d /\ DOMAIN r = 1 .. d /\ Len(q) = d /\ Len(r) = d
    /\ \A k \in 1 .. d : u[r[k]] = t[q[k]]

\* Stars may be renumbered together with their rows.
LEMMA SameCode ==
    ASSUME NEW d, NEW q, NEW t, NEW r, NEW u, Renumbered(q, t, r, u, d)
    PROVE  /\ ComputeCode(r, u) = ComputeCode(q, t)
           /\ RowsIn(r, u) = RowsIn(q, t)
<1>0. /\ d \in Nat /\ d >= 2
      /\ DOMAIN q = 1 .. d /\ DOMAIN r = 1 .. d /\ Len(q) = d /\ Len(r) = d
      /\ \A k \in 1 .. d : u[r[k]] = t[q[k]]
  BY DEF Renumbered
<1>1. /\ 1 \in 1 .. d /\ 2 \in 1 .. d
      /\ \A k \in 1 .. d - 2 : k + 2 \in 1 .. d
  BY <1>0
<1>2. /\ Distance(u[r[1]], u[r[2]]) = Distance(t[q[1]], t[q[2]])
      /\ \A k \in 1 .. d - 2 : Distance(u[r[k + 2]], u[r[1]]) = Distance(t[q[k + 2]], t[q[1]])
  BY <1>0, <1>1
<1>3. ComputeCode(r, u) = ComputeCode(q, t)
  BY <1>0, <1>2 DEF ComputeCode
<1>4. {u[s] : s \in Range(r)} = {u[r[k]] : k \in 1 .. d}
  BY <1>0 DEF Range
<1>5. {t[s] : s \in Range(q)} = {t[q[k]] : k \in 1 .. d}
  BY <1>0 DEF Range
<1>6. {u[r[k]] : k \in 1 .. d} = {t[q[k]] : k \in 1 .. d}
  BY <1>0
<1>7. QED
  BY <1>3, <1>4, <1>5, <1>6 DEF RowsIn

-----------------------------------------------------------------------------
(* The parts of an index *)

\* The quads made span their inner stars.
QuadsSpan == \A q \in Range(Quads) : Spans(q)

\* The star tree has the rows of the catalog, in its order until they are permuted.
TreeFits ==
    stage \notin {"read", "place", "startree"} =>
        /\ DOMAIN startree.tag = Stars
        /\ stage \notin {"unpermute-quads", "done"} =>
               startree.tag = uniform /\ Permutes(starperm, Len(uniform))

\* The number of the quad that has code i: the code tree renumbers codes, and
\* unpermute_quads renumbers quads in the same way.
QuadOf(i) == IF stage \in {"unpermute-stars", "unpermute-quads"} THEN codeperm[i] ELSE i

PartStages == {"codetree", "unpermute-stars", "unpermute-quads", "done"}
RowsOf(q) == RowsIn(q, startree.tag)
Built == {RowsIn(q, uniform) : q \in Range(bigquadlist)}

\* Codes belong to quads, and quads to the stars that they were built of.
PartsFit ==
    stage \in PartStages =>
        LET n == Len(bigquadlist) IN
        /\ quads \in [1 .. n -> QuadsOfStars]
        /\ stage \in {"unpermute-stars", "unpermute-quads"} => Permutes(codeperm, n)
        /\ codes = [i \in 1 .. n |-> ComputeCode(quads[QuadOf(i)], startree.tag)]
        /\ \A i \in 1 .. n : WellOrdered(codes[i])
        /\ {RowsOf(quads[i]) : i \in 1 .. n} = Built

PartsInv == QuadsSpan /\ TreeFits /\ PartsFit

\* The orders in which kd-trees put points are permutations of them, of however
\* many (TLC evaluates ShuffleAssumption, which is about no more than NRows).
ShufflesPermute == \A n \in Nat : \A f \in Shuffles(n) : Permutes(f, n)

\* What spans its stars does so while the catalog stays.
LEMMA SpansStay ==
    ASSUME UNCHANGED <<at, p, uniform>>
    PROVE  \A q : Spans(q)' <=> Spans(q)
<1>1. \A i : Pos(i)' = Pos(i)
  BY DEF Pos
<1>2. QED
  BY <1>1 DEF Spans, Between

\* The steps up to the quads.
LEMMA Quads_Parts ==
    ASSUME IndexInv, PartsInv, MakeQuads
    PROVE  PartsInv'
<1>1. /\ QuadsNext /\ UNCHANGED <<catalogvars, indexvars>> /\ TypeOK /\ Surroundings
      /\ UNCHANGED <<at, p, uniform>>
  BY DEF MakeQuads, IndexInv, catalogvars
<1>2. /\ stage \in {"hpquads", "pass", "loosen"}
      /\ stage' \in {"pass", "loosen", "writequads"}
  BY <1>1 DEF QuadsNext, StartQuads, Visit, EndPass, EndLoosening
<1>3. Stars' = Stars
  BY <1>1, StarsStay
<1>4. TreeFits'
  BY <1>1, <1>2, <1>3 DEF PartsInv, TreeFits, indexvars
<1>5. PartsFit'
  BY <1>2 DEF PartsFit, PartStages
<1>6. \A q \in Range(Quads') : Spans(q)
  <2>1. CASE StartQuads
    <3>1. Quads' = << >>
      BY <1>1, <2>1 DEF StartQuads, Quads, Surroundings, NoQuadsYet, QuadStages, Stages
    <3>2. QED
      BY <3>1 DEF Range
  <2>2. CASE Visit
    <3> DEFINE h == Head(todo)
    <3>1. /\ stage \in {"pass", "loosen"} /\ todo # << >> /\ todo' = Tail(todo)
          /\ UNCHANGED <<at, p, uniform, stage, hptotry, pass, R, bigquadlist>>
      BY <1>1, <2>2 DEF Visit
    <3>2. CatalogTypeOK /\ SharedCatalog /\ h \in Int
      BY <1>1, <3>1, VisitKeeps
    <3>3. quadlist \in Seq(QuadsOfStars) /\ bigquadlist \in Seq(QuadsOfStars)
      BY <1>1 DEF TypeOK, QuadsTypeOK
    <3>4. \/ quadlist' = quadlist
          \/ \E quad \in CreateQuad(FindStars(h), h) : quadlist' = Append(quadlist, quad)
      BY <2>2 DEF Visit
    <3> HIDE DEF h
    <3>5. CASE quadlist' = quadlist
      BY <3>1, <3>5 DEF PartsInv, QuadsSpan, Quads
    <3>6. ASSUME NEW quad \in CreateQuad(FindStars(h), h), quadlist' = Append(quadlist, quad)
          PROVE  \A q \in Range(Quads') : Spans(q)
      <4>1. quad \in Possible(h)
        BY <3>2, <3>6, QuadMade
      <4>2. Spans(quad) /\ quad \in QuadsOfStars
        BY <4>1 DEF Possible, Spans, QuadsOfStars
      <4>3. Quads' = Append(Quads, quad) /\ Quads \in Seq(QuadsOfStars)
        BY <3>1, <3>3, <3>6, <4>2, AddedLast DEF Quads
      <4>4. Range(Quads') = Range(Quads) \cup {quad}
        BY <4>2, <4>3, AppendRange
      <4>5. QED
        BY <4>2, <4>4 DEF PartsInv, QuadsSpan
    <3>7. QED
      BY <3>4, <3>5, <3>6
  <2>3. CASE EndPass \/ EndLoosening
    <3>1. MergeQuads
      BY <2>3 DEF EndPass, EndLoosening
    <3>2. Range(Quads') = Range(Quads)
      BY <1>1, <3>1, MergeKeeps
    <3>3. QED
      BY <3>2 DEF PartsInv, QuadsSpan
  <2>4. QED
    BY <1>1, <2>1, <2>2, <2>3 DEF QuadsNext
<1>7. QuadsSpan'
  BY <1>1, <1>6, SpansStay DEF QuadsSpan
<1>8. QED
  BY <1>4, <1>5, <1>7 DEF PartsInv

\* What is counted in quads, and their types, when they are written.
LEMMA PartNumbers ==
    ASSUME TypeOK, stage \in PartStages \cup {"writequads"}
    PROVE  /\ CatalogTypeOK /\ bigquadlist \in Seq(QuadsOfStars) /\ Len(bigquadlist) \in Nat
           /\ DOMAIN bigquadlist = 1 .. Len(bigquadlist)
           /\ p.dimquads \in Nat /\ p.dimquads >= 2
           /\ \A q \in QuadsOfStars : DOMAIN q = 1 .. p.dimquads /\ Len(q) = p.dimquads
           /\ Stars = 1 .. Len(uniform) /\ Len(uniform) \in Nat
<1>1. CatalogTypeOK /\ bigquadlist \in Seq(QuadsOfStars)
  BY DEF TypeOK, QuadsTypeOK
<1>2. p.dimquads \in 3 .. 5 /\ Stars = 1 .. Len(uniform) /\ Len(uniform) \in Nat
  BY <1>1, StarNumbers
<1>3. \A q \in QuadsOfStars : DOMAIN q = 1 .. p.dimquads /\ Len(q) = p.dimquads
  <2>1. p.dimquads \in Nat
    BY <1>2
  <2>2. QED
    BY <2>1, FunctionIsSequence DEF QuadsOfStars
<1>4. Len(bigquadlist) \in Nat /\ DOMAIN bigquadlist = 1 .. Len(bigquadlist)
  BY <1>1, LenProperties
<1>5. p.dimquads \in Nat /\ p.dimquads >= 2
  BY <1>2
<1>6. QED
  BY <1>1, <1>2, <1>3, <1>4, <1>5

\* What the steps after the quads leave alone.
LEMMA PartsStay ==
    ASSUME UNCHANGED <<catalogvars, quadvars>>
    PROVE  /\ at' = at /\ p' = p /\ uniform' = uniform /\ bigquadlist' = bigquadlist
           /\ Stars' = Stars /\ QuadsOfStars' = QuadsOfStars /\ Built' = Built
           /\ QuadsSpan <=> QuadsSpan'
<1>1. /\ at' = at /\ p' = p /\ uniform' = uniform
      /\ bigquadlist' = bigquadlist /\ quadlist' = quadlist
  BY DEF catalogvars, quadvars
<1>2. Quads' = Quads
  BY <1>1 DEF Quads
<1>3. QuadsSpan <=> QuadsSpan'
  BY <1>1, <1>2, SpansStay DEF QuadsSpan
<1>4. QED
  BY <1>1, <1>3, StarsStay DEF Built, RowsIn

\* Writing the quads.
LEMMA Write_Parts ==
    ASSUME IndexInv, PartsInv, WriteQuads
    PROVE  PartsInv'
<1> DEFINE n == Len(bigquadlist)
           W(i) == QuadWrite(bigquadlist[i])
           written == [i \in DOMAIN bigquadlist |-> W(i)]
<1>1. /\ stage = "writequads" /\ UNCHANGED <<catalogvars, quadvars>>
      /\ stage' \in {"failed", "codetree"}
      /\ quads' = [i \in DOMAIN written |-> written[i].quad]
      /\ codes' = [i \in DOMAIN written |-> written[i].code]
      /\ starperm' = starperm /\ startree' = startree
  BY DEF WriteQuads
<1>2. /\ CatalogTypeOK /\ bigquadlist \in Seq(QuadsOfStars) /\ n \in Nat
      /\ DOMAIN bigquadlist = 1 .. n
  BY <1>1, PartNumbers DEF IndexInv
<1>3. /\ at' = at /\ p' = p /\ uniform' = uniform /\ bigquadlist' = bigquadlist
      /\ Stars' = Stars /\ QuadsOfStars' = QuadsOfStars /\ Built' = Built
      /\ QuadsSpan'
  BY <1>1, PartsStay DEF PartsInv
<1>4. TreeFits'
  BY <1>1, <1>3 DEF PartsInv, TreeFits
<1>5. startree.tag = uniform
  BY <1>1 DEF PartsInv, TreeFits
<1>6. ASSUME NEW i \in 1 .. n
      PROVE  /\ W(i).quad \in QuadsOfStars /\ Range(W(i).quad) = Range(bigquadlist[i])
             /\ W(i).code = ComputeCode(W(i).quad, uniform) /\ WellOrdered(W(i).code)
  <2> DEFINE q == bigquadlist[i]
  <2>1. q \in QuadsOfStars
    BY <1>2, LenProperties
  <2>2. q \in Range(Quads)
    <3>1. q \in Range(bigquadlist)
      BY <1>2 DEF Range
    <3>2. QED
      BY <3>1, QuadNumbers DEF IndexInv
  <2>3. Spans(q)
    BY <2>2 DEF PartsInv, QuadsSpan
  <2> HIDE DEF q
  <2>4. LET w == QuadWrite(q) IN
        /\ w.quad \in QuadsOfStars /\ Range(w.quad) = Range(q)
        /\ w.code = ComputeCode(w.quad, uniform) /\ WellOrdered(w.code)
    BY <1>2, <2>1, <2>3, QuadWritten
  <2>5. QED
    BY <2>4 DEF q
<1>7. quads' = [i \in 1 .. n |-> W(i).quad] /\ codes' = [i \in 1 .. n |-> W(i).code]
  BY <1>1, <1>2
<1> HIDE DEF W, written, n
<1>8. ASSUME stage' = "codetree" PROVE PartsFit'
  <2>1. \A i \in 1 .. n : QuadOf(i)' = i
    BY <1>8 DEF QuadOf
  <2>2. quads' \in [1 .. n -> QuadsOfStars]
    BY <1>6, <1>7
  <2>3. \A i \in 1 .. n : codes'[i] = ComputeCode(quads'[QuadOf(i)'], uniform) /\ WellOrdered(codes'[i])
    BY <1>6, <1>7, <2>1
  <2>4. \A q, t : ComputeCode(q, t)' = ComputeCode(q, t)
    BY <1>3 DEF ComputeCode, Distance
  <2>5. {RowsIn(quads'[i], uniform) : i \in 1 .. n} = Built
    <3>1. \A i \in 1 .. n : Range(quads'[i]) = Range(bigquadlist[i])
      BY <1>6, <1>7
    <3>2. Built = {RowsIn(bigquadlist[i], uniform) : i \in 1 .. n}
      <4>1. Range(bigquadlist) = {bigquadlist[i] : i \in 1 .. n}
        BY <1>2 DEF Range
      <4>2. QED
        BY <4>1 DEF Built
    <3>3. QED
      BY <3>1, <3>2 DEF RowsIn
  <2>6. codes' = [i \in 1 .. n |-> ComputeCode(quads'[QuadOf(i)'], uniform)]
    BY <1>7, <2>3
  <2>7. startree'.tag = uniform /\ n = Len(bigquadlist')
    BY <1>1, <1>3, <1>5 DEF n
  <2>8. codes' = [i \in 1 .. n |-> ComputeCode(quads[QuadOf(i)], startree.tag)']
    <3>1. \A i \in 1 .. n : ComputeCode(quads[QuadOf(i)], startree.tag)'
                              = ComputeCode(quads'[QuadOf(i)'], startree'.tag)
      BY <1>3 DEF ComputeCode, Distance
    <3>2. QED
      BY <2>6, <2>7, <3>1
  <2>9. \A i \in 1 .. n : WellOrdered(codes[i])'
    BY <2>3 DEF WellOrdered
  <2>10. {RowsOf(quads[i])' : i \in 1 .. n} = Built'
    BY <1>3, <2>5, <2>7 DEF RowsOf, RowsIn
  <2>11. QED
    BY <1>3, <1>8, <2>2, <2>7, <2>8, <2>9, <2>10 DEF PartsFit
<1>9. PartsFit'
  BY <1>1, <1>8 DEF PartsFit, PartStages
<1>10. QED
  BY <1>3, <1>4, <1>9 DEF PartsInv

\* The code tree puts codes in an order of its own, which is kept beside them.
LEMMA CodeTree_Parts ==
    ASSUME ShufflesPermute, IndexInv, PartsInv, BuildCodeTree
    PROVE  PartsInv'
<1> DEFINE n == Len(bigquadlist)
           f == codeperm'
<1>1. /\ stage = "codetree" /\ UNCHANGED <<catalogvars, quadvars>>
      /\ stage' \in {"unpermute-stars", "unpermute-quads"}
      /\ f \in Shuffles(Len(codes))
      /\ codes' = [i \in DOMAIN codes |-> codes[f[i]]]
      /\ quads' = quads /\ starperm' = starperm /\ startree' = startree
  BY DEF BuildCodeTree
<1>2. /\ at' = at /\ p' = p /\ uniform' = uniform /\ bigquadlist' = bigquadlist
      /\ Stars' = Stars /\ QuadsOfStars' = QuadsOfStars /\ Built' = Built
      /\ QuadsSpan'
  BY <1>1, PartsStay DEF PartsInv
<1>3. n \in Nat
  BY <1>1, PartNumbers DEF IndexInv, PartStages
<1>4. TreeFits'
  BY <1>1, <1>2 DEF PartsInv, TreeFits
<1>5. /\ quads \in [1 .. n -> QuadsOfStars]
      /\ codes = [i \in 1 .. n |-> ComputeCode(quads[i], startree.tag)]
      /\ \A i \in 1 .. n : WellOrdered(codes[i])
      /\ {RowsOf(quads[i]) : i \in 1 .. n} = Built
  BY <1>1 DEF PartsInv, PartsFit, PartStages, QuadOf
<1>6. Permutes(f, n)
  <2>1. Len(codes) = n
    <3> DEFINE C == {codes[i] : i \in 1 .. n}
    <3>1. codes \in [1 .. n -> C]
      BY <1>5
    <3> HIDE DEF C, n
    <3>2. QED
      BY <1>3, <3>1, FunctionIsSequence
  <2>2. QED
    BY <1>1, <1>3, <2>1 DEF ShufflesPermute
<1>7. \A i \in 1 .. n : f[i] \in 1 .. n
  BY <1>6 DEF Permutes
<1>8. \A i \in 1 .. n : QuadOf(i)' = f[i]
  BY <1>1 DEF QuadOf
<1>9. codes' = [i \in 1 .. n |-> codes[f[i]]]
  BY <1>1, <1>5
<1> HIDE DEF f, n
<1>10. codes' = [i \in 1 .. n |-> ComputeCode(quads[QuadOf(i)], startree.tag)']
  <2>1. \A i \in 1 .. n : codes[f[i]] = ComputeCode(quads[f[i]], startree.tag)
    BY <1>5, <1>7
  <2>2. \A i \in 1 .. n : ComputeCode(quads[QuadOf(i)], startree.tag)'
                            = ComputeCode(quads[f[i]], startree.tag)
    BY <1>1, <1>2, <1>8 DEF ComputeCode, Distance
  <2>3. QED
    BY <1>9, <2>1, <2>2
<1>11. \A i \in 1 .. n : WellOrdered(codes[i])'
  <2>1. \A i \in 1 .. n : WellOrdered(codes[f[i]])
    BY <1>5, <1>7
  <2>2. QED
    BY <1>9, <2>1 DEF WellOrdered
<1>12. {RowsOf(quads[i])' : i \in 1 .. n} = Built'
  <2>1. \A i \in 1 .. n : RowsOf(quads[i])' = RowsOf(quads[i])
    BY <1>1 DEF RowsOf, RowsIn
  <2>2. QED
    BY <1>2, <1>5, <2>1
<1>13. n = Len(bigquadlist') /\ quads' \in [1 .. n -> QuadsOfStars'] /\ Permutes(codeperm', n)
  BY <1>1, <1>2, <1>5, <1>6 DEF n, f
<1>14. PartsFit'
  BY <1>10, <1>11, <1>12, <1>13 DEF PartsFit
<1>15. QED
  BY <1>2, <1>4, <1>14 DEF PartsInv

\* Stars are renumbered in the quads as they are in the tree.
LEMMA UnpermuteStars_Parts ==
    ASSUME IndexInv, PartsInv, UnpermuteStars
    PROVE  PartsInv'
<1> DEFINE n == Len(bigquadlist)
           N == Len(starperm)
           d == p.dimquads
           inv == [s \in 1 .. N |-> CHOOSE i \in 1 .. N : starperm[i] = s]
<1>1. /\ stage = "unpermute-stars" /\ UNCHANGED <<catalogvars, quadvars>>
      /\ stage' = "unpermute-quads"
      /\ quads' = [i \in DOMAIN quads |-> [k \in DOMAIN quads[i] |-> inv[quads[i][k]]]]
      /\ startree'.tag = [i \in 1 .. N |-> uniform[starperm[i]]]
      /\ codes' = codes /\ codeperm' = codeperm
  BY DEF UnpermuteStars
<1>2. /\ at' = at /\ p' = p /\ uniform' = uniform /\ bigquadlist' = bigquadlist
      /\ Stars' = Stars /\ QuadsOfStars' = QuadsOfStars /\ Built' = Built
      /\ QuadsSpan'
  BY <1>1, PartsStay DEF PartsInv
<1>3. /\ n \in Nat /\ d \in Nat /\ d >= 2 /\ Stars = 1 .. Len(uniform) /\ Len(uniform) \in Nat
      /\ \A q \in QuadsOfStars : DOMAIN q = 1 .. d /\ Len(q) = d
  BY <1>1, PartNumbers DEF IndexInv, PartStages
<1>4. startree.tag = uniform /\ Permutes(starperm, Len(uniform))
  BY <1>1 DEF PartsInv, TreeFits
<1>5. N = Len(uniform)
  BY <1>3, <1>4, FunctionIsSequence DEF Permutes
<1>6. /\ quads \in [1 .. n -> QuadsOfStars]
      /\ Permutes(codeperm, n)
      /\ codes = [i \in 1 .. n |-> ComputeCode(quads[codeperm[i]], uniform)]
      /\ \A i \in 1 .. n : WellOrdered(codes[i])
      /\ {RowsOf(quads[i]) : i \in 1 .. n} = Built
  BY <1>1, <1>4 DEF PartsInv, PartsFit, PartStages, QuadOf
<1>7. \A s \in Stars : inv[s] \in Stars /\ starperm[inv[s]] = s
  <2>1. \A s \in 1 .. N : \E i \in 1 .. N : starperm[i] = s
    BY <1>3, <1>4, <1>5, PermutesOnto
  <2>2. \A s \in 1 .. N : inv[s] \in 1 .. N /\ starperm[inv[s]] = s
    BY <2>1
  <2> HIDE DEF inv, N
  <2>3. QED
    BY <1>3, <1>5, <2>2
<1>8. startree'.tag = [i \in Stars |-> uniform[starperm[i]]]
  BY <1>1, <1>3, <1>5
<1> HIDE DEF inv, N, n
<1>9. ASSUME NEW i \in 1 .. n
      PROVE  /\ quads'[i] \in QuadsOfStars
             /\ \A k \in 1 .. d : startree'.tag[quads'[i][k]] = uniform[quads[i][k]]
  <2>1. quads[i] \in QuadsOfStars /\ DOMAIN quads = 1 .. n
    BY <1>6
  <2>2. quads'[i] = [k \in 1 .. d |-> inv[quads[i][k]]]
    BY <1>1, <1>3, <2>1
  <2>3. \A k \in 1 .. d : quads[i][k] \in Stars
    BY <2>1 DEF QuadsOfStars
  <2>4. quads'[i] \in QuadsOfStars
    BY <1>7, <2>2, <2>3 DEF QuadsOfStars
  <2>5. \A k \in 1 .. d : startree'.tag[quads'[i][k]] = uniform[quads[i][k]]
    BY <1>7, <1>8, <2>2, <2>3
  <2>6. QED
    BY <2>4, <2>5
<1>10. quads' \in [1 .. n -> QuadsOfStars']
  <2>1. DOMAIN quads' = 1 .. n /\ quads' = [i \in DOMAIN quads' |-> quads'[i]]
    BY <1>1, <1>6
  <2>2. QED
    BY <1>2, <1>9, <2>1
<1>11. ASSUME NEW i \in 1 .. n
       PROVE  /\ ComputeCode(quads'[i], startree'.tag) = ComputeCode(quads[i], uniform)
              /\ RowsIn(quads'[i], startree'.tag) = RowsIn(quads[i], uniform)
  <2> DEFINE q == quads[i]
             r == quads'[i]
             u == startree'.tag
  <2>1. q \in QuadsOfStars /\ r \in QuadsOfStars /\ \A k \in 1 .. d : u[r[k]] = uniform[q[k]]
    BY <1>6, <1>9
  <2> HIDE DEF q, r, u, d
  <2>2. DOMAIN q = 1 .. d /\ Len(q) = d /\ DOMAIN r = 1 .. d /\ Len(r) = d
    BY <1>3, <2>1
  <2>9. Renumbered(q, uniform, r, u, d)
    BY <1>3, <2>1, <2>2 DEF Renumbered
  <2>3. /\ ComputeCode(r, u) = ComputeCode(q, uniform)
        /\ RowsIn(r, u) = RowsIn(q, uniform)
    BY <2>9, SameCode
  <2>4. QED
    BY <2>3 DEF q, r, u
<1>12. \A i \in 1 .. n : QuadOf(i)' = codeperm[i] /\ codeperm[i] \in 1 .. n
  BY <1>1, <1>6 DEF QuadOf, Permutes
<1>13. codes' = [i \in 1 .. n |-> ComputeCode(quads[QuadOf(i)], startree.tag)']
  <2>1. \A i \in 1 .. n : ComputeCode(quads[QuadOf(i)], startree.tag)'
                            = ComputeCode(quads'[codeperm[i]], startree'.tag)
    BY <1>2, <1>12 DEF ComputeCode, Distance
  <2>2. \A i \in 1 .. n : ComputeCode(quads'[codeperm[i]], startree'.tag)
                            = ComputeCode(quads[codeperm[i]], uniform)
    BY <1>11, <1>12
  <2>3. QED
    BY <1>1, <1>6, <2>1, <2>2
<1>14. \A i \in 1 .. n : WellOrdered(codes[i])'
  BY <1>1, <1>6 DEF WellOrdered
<1>15. {RowsOf(quads[i])' : i \in 1 .. n} = Built'
  <2>1. \A i \in 1 .. n : RowsOf(quads[i])' = RowsOf(quads[i])
    BY <1>4, <1>11 DEF RowsOf, RowsIn
  <2>2. QED
    BY <1>2, <1>6, <2>1
<1>16. n = Len(bigquadlist') /\ Permutes(codeperm', n)
  BY <1>1, <1>2, <1>6 DEF n
<1>17. PartsFit'
  BY <1>10, <1>13, <1>14, <1>15, <1>16 DEF PartsFit
<1>18. TreeFits'
  BY <1>1, <1>2, <1>8 DEF TreeFits
<1>19. QED
  BY <1>2, <1>17, <1>18 DEF PartsInv

\* Quads are put in the order of their codes.
LEMMA UnpermuteQuads_Parts ==
    ASSUME IndexInv, PartsInv, UnpermuteQuads
    PROVE  PartsInv'
<1> DEFINE n == Len(bigquadlist)
           f == codeperm
<1>1. /\ stage = "unpermute-quads" /\ UNCHANGED <<catalogvars, quadvars>>
      /\ stage' = "done"
      /\ quads' = [i \in DOMAIN codes |-> quads[f[i]]]
      /\ codes' = codes /\ starperm' = starperm /\ startree' = startree
  BY DEF UnpermuteQuads
<1>2. /\ at' = at /\ p' = p /\ uniform' = uniform /\ bigquadlist' = bigquadlist
      /\ Stars' = Stars /\ QuadsOfStars' = QuadsOfStars /\ Built' = Built
      /\ QuadsSpan'
  BY <1>1, PartsStay DEF PartsInv
<1>3. n \in Nat
  BY <1>1, PartNumbers DEF IndexInv, PartStages
<1>4. TreeFits'
  BY <1>1, <1>2 DEF PartsInv, TreeFits
<1>5. /\ quads \in [1 .. n -> QuadsOfStars]
      /\ Permutes(f, n)
      /\ codes = [i \in 1 .. n |-> ComputeCode(quads[f[i]], startree.tag)]
      /\ \A i \in 1 .. n : WellOrdered(codes[i])
      /\ {RowsOf(quads[i]) : i \in 1 .. n} = Built
  BY <1>1 DEF PartsInv, PartsFit, PartStages, QuadOf
<1>6. \A i \in 1 .. n : f[i] \in 1 .. n
  BY <1>5 DEF Permutes
<1>7. \A j \in 1 .. n : \E i \in 1 .. n : f[i] = j
  BY <1>3, <1>5, PermutesOnto
<1>8. \A i \in 1 .. n : QuadOf(i)' = i
  BY <1>1 DEF QuadOf
<1>9. quads' = [i \in 1 .. n |-> quads[f[i]]]
  BY <1>1, <1>5
<1> HIDE DEF f, n
<1>10. codes' = [i \in 1 .. n |-> ComputeCode(quads[QuadOf(i)], startree.tag)']
  <2>1. \A i \in 1 .. n : ComputeCode(quads[QuadOf(i)], startree.tag)'
                            = ComputeCode(quads[f[i]], startree.tag)
    BY <1>1, <1>2, <1>8, <1>9 DEF ComputeCode, Distance
  <2>2. QED
    BY <1>1, <1>5, <2>1
<1>11. \A i \in 1 .. n : WellOrdered(codes[i])'
  BY <1>1, <1>5 DEF WellOrdered
<1>12. {RowsOf(quads[i])' : i \in 1 .. n} = Built'
  <2>1. \A i \in 1 .. n : RowsOf(quads[i])' = RowsOf(quads[f[i]])
    BY <1>1, <1>9 DEF RowsOf, RowsIn
  <2>2. {RowsOf(quads[f[i]]) : i \in 1 .. n} = {RowsOf(quads[i]) : i \in 1 .. n}
    BY <1>6, <1>7
  <2>3. QED
    BY <1>2, <1>5, <2>1, <2>2
<1>13. n = Len(bigquadlist') /\ quads' \in [1 .. n -> QuadsOfStars']
  BY <1>2, <1>5, <1>6, <1>9 DEF n
<1>14. PartsFit'
  BY <1>1, <1>10, <1>11, <1>12, <1>13 DEF PartsFit
<1>15. QED
  BY <1>2, <1>4, <1>14 DEF PartsInv

\* The steps before the quads.
LEMMA Early_Parts ==
    ASSUME ShufflesPermute, IndexInv, PartsInv, Uniformize \/ BuildStarTree
    PROVE  PartsInv'
<1>1. TypeOK /\ NoQuadsYet /\ CatalogTypeOK /\ Len(uniform) \in Nat /\ Stars = 1 .. Len(uniform)
  <2>1. TypeOK /\ NoQuadsYet /\ CatalogTypeOK
    BY DEF IndexInv, Surroundings, TypeOK
  <2>2. QED
    BY <2>1, StarNumbers
<1>2. /\ stage \in {"read", "place", "startree"}
      /\ stage' \in {"read", "place", "startree", "hpquads"}
      /\ UNCHANGED quadvars
  BY DEF Uniformize, UniformizeNext, ReadCatalog, Place, WriteSweeps, BuildStarTree
<1>3. Quads' = << >>
  BY <1>1, <1>2 DEF NoQuadsYet, QuadStages, Stages, Quads, quadvars
<1>4. QuadsSpan'
  BY <1>3 DEF QuadsSpan, Range
<1>5. PartsFit'
  BY <1>2 DEF PartsFit, PartStages
<1>6. TreeFits'
  <2>1. CASE Uniformize
    <3>1. stage' \in {"read", "place", "startree"}
      BY <2>1 DEF Uniformize, UniformizeNext, ReadCatalog, Place, WriteSweeps
    <3>2. QED
      BY <3>1 DEF TreeFits
  <2>2. CASE BuildStarTree
    <3> DEFINE n == Len(uniform)
    <3>1. /\ starperm' \in IF p.shared THEN {Identity(n)} ELSE Shuffles(n)
          /\ startree'.tag = uniform /\ uniform' = uniform
      BY <2>2 DEF BuildStarTree, catalogvars
    <3>2. Permutes(Identity(n), n)
      BY <1>1 DEF Permutes, Identity, IsInjective
    <3>3. n \in Nat
      BY <1>1
    <3> HIDE DEF n
    <3>4. Permutes(starperm', n)
      BY <3>1, <3>2, <3>3 DEF ShufflesPermute
    <3>5. Stars' = Stars
      BY <3>1 DEF Stars
    <3>6. QED
      BY <3>1, <3>4, <3>5 DEF TreeFits, Stars, n
  <2>3. QED
    BY <2>1, <2>2
<1>7. QED
  BY <1>4, <1>5, <1>6 DEF PartsInv

\* The parts keep fitting.
LEMMA PartsNext ==
    ASSUME ShufflesPermute
    PROVE  IndexInv /\ PartsInv /\ [Next]_vars => PartsInv'
<1> SUFFICES ASSUME IndexInv, PartsInv, [Next]_vars PROVE PartsInv'
  OBVIOUS
<1>1. CASE Uniformize \/ BuildStarTree
  BY <1>1, Early_Parts
<1>2. CASE MakeQuads
  BY <1>2, Quads_Parts
<1>3. CASE WriteQuads
  BY <1>3, Write_Parts
<1>4. CASE BuildCodeTree
  BY <1>4, CodeTree_Parts
<1>5. CASE UnpermuteStars
  BY <1>5, UnpermuteStars_Parts
<1>6. CASE UnpermuteQuads
  BY <1>6, UnpermuteQuads_Parts
<1>7. CASE UNCHANGED vars
  <2>1. /\ UNCHANGED <<stage, starperm, startree, codes, codeperm, quads>>
        /\ UNCHANGED <<catalogvars, quadvars>>
    BY <1>7 DEF vars, indexvars
  <2>2. /\ at' = at /\ p' = p /\ uniform' = uniform /\ bigquadlist' = bigquadlist
        /\ Stars' = Stars /\ QuadsOfStars' = QuadsOfStars /\ Built' = Built
        /\ QuadsSpan'
    BY <2>1, PartsStay DEF PartsInv
  <2>3. TreeFits'
    BY <2>1, <2>2 DEF PartsInv, TreeFits
  <2>4. \A i : QuadOf(i)' = QuadOf(i)
    BY <2>1 DEF QuadOf
  <2>5. \A i : ComputeCode(quads[QuadOf(i)], startree.tag)' = ComputeCode(quads[QuadOf(i)], startree.tag)
    BY <2>1, <2>2, <2>4 DEF ComputeCode, Distance
  <2>6. \A i : RowsOf(quads[i])' = RowsOf(quads[i])
    BY <2>1 DEF RowsOf, RowsIn
  <2>7. \A i : WellOrdered(codes[i])' <=> WellOrdered(codes[i])
    BY <2>1 DEF WellOrdered
  <2>8. PartsFit'
    BY <2>1, <2>2, <2>5, <2>6, <2>7 DEF PartsInv, PartsFit
  <2>9. QED
    BY <2>2, <2>3, <2>8 DEF PartsInv
<1>8. QED
  BY <1>1, <1>2, <1>3, <1>4, <1>5, <1>6, <1>7 DEF Next

\* It holds before the first step.
LEMMA PartsInit == Init => PartsInv
<1> SUFFICES ASSUME Init PROVE PartsInv
  OBVIOUS
<1>1. bigquadlist = << >> /\ quadlist = << >> /\ stage \in {"read", "place", "startree"}
  BY DEF Init, QuadsInit, CatalogInit
<1>2. Quads = << >> /\ stage \notin PartStages
  BY <1>1 DEF Quads, PartStages
<1>3. QED
  BY <1>1, <1>2 DEF PartsInv, QuadsSpan, TreeFits, PartsFit, Range

\* The parts of a merged index belong together.
LEMMA PartsMerged == IndexInv /\ PartsInv => MergedIndexIsRight
<1> DEFINE n == Len(bigquadlist)
<1> SUFFICES ASSUME IndexInv, PartsInv, stage = "done" PROVE CodesMatchQuads /\ QuadsSurvive
  BY DEF MergedIndexIsRight
<1>1. n \in Nat
  BY PartNumbers DEF IndexInv, PartStages
<1>2. /\ quads \in [1 .. n -> QuadsOfStars]
      /\ codes = [i \in 1 .. n |-> ComputeCode(quads[i], startree.tag)]
      /\ \A i \in 1 .. n : WellOrdered(codes[i])
      /\ {RowsOf(quads[i]) : i \in 1 .. n} = Built
  BY DEF PartsInv, PartsFit, PartStages, QuadOf
<1>3. CodesMatchQuads
  BY <1>2 DEF CodesMatchQuads, WellOrdered
<1>4. Len(quads) = n
  <2> HIDE DEF n
  <2>1. QED
    BY <1>1, <1>2, FunctionIsSequence
<1>5. {RowsOf(quads[i]) : i \in DOMAIN quads} = Built
  BY <1>2
<1>6. QuadsSurvive
  BY <1>4, <1>5 DEF QuadsSurvive, RowsOf, Built, RowsIn
<1>7. QED
  BY <1>3, <1>6

\* A merged index is right, whatever permutations its kd-trees put their points in:
\* stars, codes and quads belong together after the renumbering, every code obeys
\* the invariants that the solver counts on, and no quad is lost or made up.
THEOREM MergedIndexRight ==
    ASSUME ShufflesPermute
    PROVE  Spec => []MergedIndexIsRight
<1>1. Init => IndexInv /\ PartsInv
  BY IndexInit, PartsInit
<1>2. IndexInv /\ PartsInv /\ [Next]_vars => IndexInv' /\ PartsInv'
  BY IndexNext, PartsNext
<1>3. IndexInv /\ PartsInv => MergedIndexIsRight
  BY PartsMerged
<1>4. QED
  BY <1>1, <1>2, <1>3, PTL DEF Spec
================================================================================
