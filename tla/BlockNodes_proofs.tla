-------------------------- MODULE BlockNodes_proofs ---------------------------
(***************************************************************************)
(* The nodes of block lists: what the nodes of each list hold, cut into    *)
(* pieces of at most BlockSize elements, is a sequence.  Layout says so of *)
(* all lists together.  The operations by index, and those on sorted       *)
(* lists, take it to the sequence that AbstractList gives, for every value *)
(* of the constants.                                                       *)
(***************************************************************************)
EXTENDS BlockList, Ranking_proofs

-----------------------------------------------------------------------------
(* Linked nodes, and what they hold *)

\* The node after the k-th of the nodes ns: after none the first one, after the last NULL.
Follow(ns, k) == IF k < Len(ns) THEN ns[k + 1] ELSE NULL

\* The nodes hold the sequences cs, which together are s; off[k] elements are in the
\* first k nodes.
Pieces(cs, off, s) == Cuts(BlockSize, cs, off, s)

\* The nodes ns are linked in h, in this order, and hold cs.
Links(h, ns, cs) ==
    /\ ns \in Seq(Nat \ {0}) /\ Len(ns) = Len(cs)
    /\ \A k \in 1 .. Len(ns) : /\ ns[k] \in DOMAIN h
                               /\ h[ns[k]] = [items |-> cs[k], next |-> Follow(ns, k)]
    /\ \A j, k \in 1 .. Len(ns) : ns[j] = ns[k] => j = k

\* A node has room for at least one element.
LEMMA Small == BlockSize \in Nat /\ 1 <= BlockSize
BY ListAssumption

\* The counts grow along the nodes, up to the length of the list.
LEMMA PiecesGrow ==
  ASSUME NEW cs, NEW off, NEW s, Pieces(cs, off, s)
  PROVE  /\ \A j, k \in 0 .. Len(cs) : j < k => off[j] < off[k]
         /\ \A j, k \in 0 .. Len(cs) : j <= k => off[j] <= off[k]
         /\ \A k \in 0 .. Len(cs) : off[k] \in Nat /\ off[k] <= Len(s)
         /\ \A k \in 1 .. Len(cs) : off[k] \in Nat /\ off[k - 1] \in Nat /\ off[k] <= Len(s)
         /\ Len(s) \in Nat /\ Len(cs) \in Nat
BY ListAssumption, CutsGrow DEF Pieces

\* Every element is in a node.
LEMMA PiecesFind ==
  ASSUME NEW cs, NEW off, NEW s, Pieces(cs, off, s), NEW i \in Nat, i < Len(s)
  PROVE  \E k \in 1 .. Len(cs) : off[k - 1] <= i /\ i < off[k]
BY ListAssumption, CutsFind DEF Pieces

\* Other nodes in the place of some of the nodes hold other elements in the place of theirs.
LEMMA PiecesSplice ==
  ASSUME NEW cs, NEW off, NEW s, Pieces(cs, off, s),
         NEW ms, NEW mo, NEW m, Pieces(ms, mo, m),
         NEW j \in 0 .. Len(cs), NEW k \in 0 .. Len(cs), j <= k
  PROVE  /\ Pieces(Splice(cs, j, k, ms), SpliceSums(off, Len(cs), j, k, mo, Len(ms)),
                   Splice(s, off[j], off[k], m))
         /\ \A i \in 0 .. j : SpliceSums(off, Len(cs), j, k, mo, Len(ms))[i] = off[i]
BY ListAssumption, CutsSplice DEF Pieces

\* The last of the nodes, or NULL.
TailOf(ns) == IF Len(ns) = 0 THEN NULL ELSE ns[Len(ns)]

\* No node is there twice.
Distinct(ns) == \A j, k \in 1 .. Len(ns) : ns[j] = ns[k] => j = k

\* The node p is one of ns.
In(p, ns) == \E k \in 1 .. Len(ns) : ns[k] = p

-----------------------------------------------------------------------------
(* A list, and its nodes after a change *)

\* What a list's header can be.
Header == [head : Nat, tail : Nat, n : Nat, last : Nat, lastn : Nat]

\* The node p is one of ns, with n elements in those before it.
AtCut(p, n, ns, off) == \E k \in 1 .. Len(ns) : p = ns[k] /\ n = off[k - 1]

\* The header L, the nodes ns of h and what they hold fit the sequence s.
Right(L, h, ns, cs, off, s) ==
    /\ Links(h, ns, cs) /\ Pieces(cs, off, s)
    /\ L \in Header
    /\ L.head = Follow(ns, 0) /\ L.tail = TailOf(ns) /\ L.n = Len(s)
    /\ L.last # NULL => AtCut(L.last, L.lastn, ns, off)

\* All nodes of h but ns stay in h2, and h2 has no others but n2.
Elsewhere(h, ns, h2, n2) ==
    /\ IsFiniteSet(DOMAIN h2)
    /\ \A p \in DOMAIN h : ~In(p, ns) => p \in DOMAIN h2 /\ ~In(p, n2) /\ h2[p] = h[p]
    /\ \A p \in DOMAIN h2 : ~In(p, n2) => p \in DOMAIN h /\ ~In(p, ns)

\* The successor of the a-th of the nodes ms that take the place of those of ns from
\* j + 1 to k, and of the one before them (a = 0).
After(ns, k, ms, a) == IF a < Len(ms) THEN ms[a + 1] ELSE Follow(ns, k)

\* In h2 the nodes ms are linked in the place of those of ns from j + 1 to k.
Patch(h, ns, j, k, ms, mc, h2) ==
    /\ ms \in Seq(Nat \ {0}) /\ Len(ms) = Len(mc) /\ Distinct(ms)
    /\ \A i \in 1 .. Len(ns) : In(ns[i], ms) => i \in j + 1 .. k
    /\ \A a \in 1 .. Len(ms) : /\ ms[a] \in DOMAIN h2
                               /\ h2[ms[a]] = [items |-> mc[a], next |-> After(ns, k, ms, a)]
    /\ j > 0 => /\ ns[j] \in DOMAIN h2
                /\ h2[ns[j]] = [items |-> h[ns[j]].items, next |-> After(ns, k, ms, 0)]
    /\ \A i \in 1 .. Len(ns) : i < j \/ k < i => ns[i] \in DOMAIN h2 /\ h2[ns[i]] = h[ns[i]]

\* What follows each node after a splice, and the last one.
LEMMA SpliceEnds ==
  ASSUME NEW ns \in Seq(Nat \ {0}), NEW ms \in Seq(Nat \ {0}), NEW j \in 0 .. Len(ns),
         NEW k \in 0 .. Len(ns), j <= k
  PROVE  LET n2 == Splice(ns, j, k, ms) IN
         /\ \A i \in 0 .. j - 1 : Follow(n2, i) = Follow(ns, i)
         /\ \A a \in 0 .. Len(ms) : Follow(n2, j + a) = After(ns, k, ms, a)
         /\ \A i \in k + 1 .. Len(ns) : Follow(n2, j + Len(ms) + i - k) = Follow(ns, i)
         /\ TailOf(n2) = IF k < Len(ns) THEN ns[Len(ns)] ELSE IF Len(ms) > 0 THEN ms[Len(ms)]
                        ELSE IF j > 0 THEN ns[j] ELSE NULL
<1> DEFINE n2 == Splice(ns, j, k, ms)
           n == Len(ns)
           q == Len(ms)
<1>1. n \in Nat /\ q \in Nat /\ j \in Nat /\ k \in Nat /\ k <= n
  OBVIOUS
<1>2. n2 \in Seq(Nat \ {0}) /\ Spliced(n2, ns, j, k, ms)
  BY <1>1, SpliceType
<1> HIDE DEF n2
<1>3. /\ Len(n2) = j + q + (n - k)
      /\ \A i \in 1 .. j : n2[i] = ns[i]
      /\ \A i \in 1 .. q : n2[j + i] = ms[i]
      /\ \A i \in k + 1 .. n : n2[j + q + i - k] = ns[i]
  BY <1>2 DEF Spliced
<1>4. ASSUME NEW i \in 0 .. j - 1 PROVE Follow(n2, i) = Follow(ns, i)
  <2>1. i + 1 \in 1 .. j /\ i < n /\ i < Len(n2)
    BY <1>1, <1>3
  <2>2. QED
    BY <2>1, <1>3 DEF Follow
<1>5. ASSUME NEW a \in 0 .. q PROVE Follow(n2, j + a) = After(ns, k, ms, a)
  <2>1. CASE a < q
    <3>1. a + 1 \in 1 .. q /\ j + (a + 1) = (j + a) + 1 /\ j + a < Len(n2)
      BY <2>1, <1>1, <1>3
    <3>2. n2[j + (a + 1)] = ms[a + 1]
      BY <3>1, <1>3
    <3>3. QED
      BY <3>1, <3>2, <2>1 DEF Follow, After
  <2>2. CASE a = q /\ k < n
    <3>1. k + 1 \in k + 1 .. n /\ j + q + (k + 1) - k = (j + a) + 1 /\ j + a < Len(n2)
      BY <2>2, <1>1, <1>3
    <3>2. n2[j + q + (k + 1) - k] = ns[k + 1]
      BY <3>1, <1>3
    <3>3. QED
      BY <3>1, <3>2, <2>2, <1>1 DEF Follow, After
  <2>3. CASE a = q /\ k = n
    <3>1. ~(j + a < Len(n2)) /\ ~(a < q) /\ ~(k < n)
      BY <2>3, <1>1, <1>3
    <3>2. QED
      BY <3>1 DEF Follow, After
  <2>4. QED
    BY <2>1, <2>2, <2>3, <1>1
<1>6. ASSUME NEW i \in k + 1 .. n PROVE Follow(n2, j + q + i - k) = Follow(ns, i)
  <2>1. CASE i < n
    <3>1. i + 1 \in k + 1 .. n /\ j + q + (i + 1) - k = (j + q + i - k) + 1 /\ j + q + i - k < Len(n2)
      BY <2>1, <1>1, <1>3
    <3>2. n2[j + q + (i + 1) - k] = ns[i + 1]
      BY <3>1, <1>3
    <3>3. QED
      BY <3>1, <3>2, <2>1 DEF Follow
  <2>2. CASE i = n
    <3>1. ~(j + q + i - k < Len(n2))
      BY <2>2, <1>1, <1>3
    <3>2. QED
      BY <3>1, <2>2 DEF Follow
  <2>3. QED
    BY <2>1, <2>2, <1>1
<1>7. TailOf(n2) = IF k < n THEN ns[n] ELSE IF q > 0 THEN ms[q]
                        ELSE IF j > 0 THEN ns[j] ELSE NULL
  <2>1. CASE k < n
    <3>1. n \in k + 1 .. n /\ Len(n2) = j + q + n - k /\ Len(n2) # 0
      BY <2>1, <1>1, <1>3
    <3>2. n2[j + q + n - k] = ns[n]
      BY <3>1, <1>3
    <3>3. QED
      BY <3>1, <3>2, <2>1 DEF TailOf
  <2>2. CASE k = n /\ q > 0
    <3>1. q \in 1 .. q /\ Len(n2) = j + q /\ Len(n2) # 0 /\ ~(k < n)
      BY <2>2, <1>1, <1>3
    <3>2. n2[j + q] = ms[q]
      BY <3>1, <1>3
    <3>3. QED
      BY <3>1, <3>2, <2>2 DEF TailOf
  <2>3. CASE k = n /\ q = 0 /\ j > 0
    <3>1. j \in 1 .. j /\ Len(n2) = j /\ Len(n2) # 0 /\ ~(k < n)
      BY <2>3, <1>1, <1>3
    <3>2. QED
      BY <3>1, <2>3, <1>3 DEF TailOf
  <2>4. CASE k = n /\ q = 0 /\ j = 0
    <3>1. Len(n2) = 0 /\ ~(k < n)
      BY <2>4, <1>1, <1>3
    <3>2. QED
      BY <3>1, <2>4 DEF TailOf
  <2>5. QED
    BY <2>1, <2>2, <2>3, <2>4, <1>1
<1>8. QED
  BY <1>4, <1>5, <1>6, <1>7 DEF n2

\* After such a patch the nodes are linked in the order of the splice.
LEMMA LinksPatch ==
  ASSUME NEW h, NEW ns, NEW cs, Links(h, ns, cs), cs \in Seq(Seq(Int)),
         NEW j \in 0 .. Len(ns), NEW k \in 0 .. Len(ns), j <= k,
         NEW ms, NEW mc, mc \in Seq(Seq(Int)), NEW h2, Patch(h, ns, j, k, ms, mc, h2)
  PROVE  Links(h2, Splice(ns, j, k, ms), Splice(cs, j, k, mc))
<1> DEFINE n2 == Splice(ns, j, k, ms)
           c2 == Splice(cs, j, k, mc)
           n == Len(ns)
           q == Len(ms)
<1>1. n \in Nat /\ q \in Nat /\ j \in Nat /\ k \in Nat /\ k <= n /\ n = Len(cs) /\ q = Len(mc)
      /\ ns \in Seq(Nat \ {0}) /\ ms \in Seq(Nat \ {0})
  BY DEF Links, Patch
<1>2. n2 \in Seq(Nat \ {0}) /\ Spliced(n2, ns, j, k, ms)
  BY <1>1, SpliceType
<1>3. c2 \in Seq(Seq(Int)) /\ Spliced(c2, cs, j, k, mc)
  BY <1>1, SpliceType
<1>4. /\ \A i \in 0 .. j - 1 : Follow(n2, i) = Follow(ns, i)
      /\ \A a \in 0 .. q : Follow(n2, j + a) = After(ns, k, ms, a)
      /\ \A i \in k + 1 .. n : Follow(n2, j + q + i - k) = Follow(ns, i)
  BY <1>1, SpliceEnds
<1> HIDE DEF n2, c2
<1>5. /\ Len(n2) = j + q + (n - k)
      /\ \A i \in 1 .. j : n2[i] = ns[i]
      /\ \A i \in 1 .. q : n2[j + i] = ms[i]
      /\ \A i \in k + 1 .. n : n2[j + q + i - k] = ns[i]
  BY <1>2 DEF Spliced
<1>6. /\ Len(c2) = j + q + (n - k)
      /\ \A i \in 1 .. j : c2[i] = cs[i]
      /\ \A i \in 1 .. q : c2[j + i] = mc[i]
      /\ \A i \in k + 1 .. n : c2[j + q + i - k] = cs[i]
  BY <1>1, <1>3 DEF Spliced
<1>7. ASSUME NEW x \in 1 .. Len(n2)
      PROVE  \/ x \in 1 .. j
             \/ \E a \in 1 .. q : x = j + a
             \/ \E i \in k + 1 .. n : x = j + q + i - k
  <2>1. CASE x <= j
    BY <2>1, <1>1
  <2>2. CASE j < x /\ x <= j + q
    <3>1. x - j \in 1 .. q /\ x = j + (x - j)
      BY <2>2, <1>1
    <3>2. QED
      BY <3>1
  <2>3. CASE j + q < x
    <3>1. x - j - q + k \in k + 1 .. n /\ x = j + q + (x - j - q + k) - k
      <4>1. Len(n2) = j + q + (n - k) /\ Len(n2) \in Nat
        BY <1>1, <1>5
      <4> DEFINE z == Len(n2)
      <4> HIDE DEF z, n, q
      <4>2. z = j + q + (n - k) /\ x \in 1 .. z
        BY <4>1 DEF z
      <4>3. QED
        BY <2>3, <1>1, <4>2
    <3>2. QED
      BY <3>1
  <2>4. QED
    BY <2>1, <2>2, <2>3, <1>1
<1>8. ASSUME NEW x \in 1 .. Len(n2)
      PROVE  n2[x] \in DOMAIN h2 /\ h2[n2[x]] = [items |-> c2[x], next |-> Follow(n2, x)]
  <2>1. CASE x \in 1 .. j /\ x # j
    <3>1. x \in 1 .. n /\ x < j /\ x \in 0 .. j - 1
      BY <2>1, <1>1
    <3>2. n2[x] = ns[x] /\ c2[x] = cs[x] /\ Follow(n2, x) = Follow(ns, x)
      BY <2>1, <3>1, <1>4, <1>5, <1>6
    <3>3. ns[x] \in DOMAIN h2 /\ h2[ns[x]] = h[ns[x]]
      BY <3>1 DEF Patch
    <3>4. h[ns[x]] = [items |-> cs[x], next |-> Follow(ns, x)]
      BY <3>1 DEF Links
    <3>5. QED
      BY <3>2, <3>3, <3>4
  <2>2. CASE x = j
    <3>1. j \in 1 .. n /\ j \in 1 .. j /\ j > 0 /\ 0 \in 0 .. q /\ j + 0 = j
      BY <2>2, <1>1
    <3>2. n2[j] = ns[j] /\ c2[j] = cs[j]
      BY <3>1, <1>5, <1>6
    <3>3. Follow(n2, j + 0) = After(ns, k, ms, 0)
      BY <3>1, <1>4
    <3>4. ns[j] \in DOMAIN h2 /\ h2[ns[j]] = [items |-> h[ns[j]].items, next |-> After(ns, k, ms, 0)]
      BY <3>1 DEF Patch
    <3>5. h[ns[j]].items = cs[j]
      <4>1. h[ns[j]] = [items |-> cs[j], next |-> Follow(ns, j)]
        BY <3>1 DEF Links
      <4>2. QED
        BY <4>1
    <3>6. QED
      BY <2>2, <3>1, <3>2, <3>3, <3>4, <3>5
  <2>3. CASE \E a \in 1 .. q : x = j + a
    <3>1. PICK a \in 1 .. q : x = j + a
      BY <2>3
    <3>2. n2[j + a] = ms[a] /\ c2[j + a] = mc[a] /\ Follow(n2, j + a) = After(ns, k, ms, a)
      BY <1>4, <1>5, <1>6
    <3>3. ms[a] \in DOMAIN h2 /\ h2[ms[a]] = [items |-> mc[a], next |-> After(ns, k, ms, a)]
      BY DEF Patch
    <3>4. QED
      BY <3>1, <3>2, <3>3
  <2>4. CASE \E i \in k + 1 .. n : x = j + q + i - k
    <3>1. PICK i \in k + 1 .. n : x = j + q + i - k
      BY <2>4
    <3>2. n2[j + q + i - k] = ns[i] /\ c2[j + q + i - k] = cs[i] /\ Follow(n2, j + q + i - k) = Follow(ns, i)
      BY <1>4, <1>5, <1>6
    <3>3. i \in 1 .. n /\ k < i
      BY <1>1
    <3>4. ns[i] \in DOMAIN h2 /\ h2[ns[i]] = h[ns[i]]
      BY <3>3 DEF Patch
    <3>5. h[ns[i]] = [items |-> cs[i], next |-> Follow(ns, i)]
      BY <3>3 DEF Links
    <3>6. QED
      BY <3>1, <3>2, <3>4, <3>5
  <2>5. QED
    BY <1>7, <2>1, <2>2, <2>3, <2>4
<1>9. /\ \A a, b \in 1 .. n : ns[a] = ns[b] => a = b
      /\ \A a, b \in 1 .. q : ms[a] = ms[b] => a = b
      /\ \A a \in 1 .. q, i \in 1 .. n : ms[a] = ns[i] => i \in j + 1 .. k
  BY DEF Links, Patch, Distinct, In
<1>10. ASSUME NEW x \in 1 .. Len(n2), NEW y \in 1 .. Len(n2), n2[x] = n2[y]
       PROVE  x = y
  <2> DEFINE Old(z) == \E i \in 1 .. n : n2[z] = ns[i] /\
                          ((i <= j /\ z = i) \/ (k < i /\ z = j + q + i - k))
             New(z) == \E a \in 1 .. q : n2[z] = ms[a] /\ z = j + a
  <2>1. ASSUME NEW z \in 1 .. Len(n2) PROVE Old(z) \/ New(z)
    <3>1. CASE z \in 1 .. j
      <4>1. z \in 1 .. n /\ z <= j
        BY <3>1, <1>1
      <4>2. n2[z] = ns[z]
        BY <3>1, <1>5
      <4>3. QED
        BY <4>1, <4>2
    <3>2. CASE \E a \in 1 .. q : z = j + a
      BY <3>2, <1>5
    <3>3. CASE \E i \in k + 1 .. n : z = j + q + i - k
      <4>1. PICK i \in k + 1 .. n : z = j + q + i - k
        BY <3>3
      <4>2. i \in 1 .. n /\ k < i /\ n2[z] = ns[i]
        BY <4>1, <1>1, <1>5
      <4>3. QED
        BY <4>1, <4>2
    <3>4. QED
      BY <1>7, <3>1, <3>2, <3>3
  <2>2. CASE Old(x) /\ Old(y)
    <3>1. PICK i \in 1 .. n : n2[x] = ns[i] /\ ((i <= j /\ x = i) \/ (k < i /\ x = j + q + i - k))
      BY <2>2
    <3>2. PICK b \in 1 .. n : n2[y] = ns[b] /\ ((b <= j /\ y = b) \/ (k < b /\ y = j + q + b - k))
      BY <2>2
    <3>3. i = b
      BY <3>1, <3>2, <1>9, <1>10
    <3>4. QED
      BY <3>1, <3>2, <3>3, <1>1, SMTT(20)
  <2>3. CASE New(x) /\ New(y)
    BY <2>3, <1>9, <1>10
  <2>4. ASSUME NEW u \in 1 .. Len(n2), NEW v \in 1 .. Len(n2), Old(u), New(v), n2[u] = n2[v] PROVE FALSE
    <3>1. PICK i \in 1 .. n : n2[u] = ns[i] /\ (i <= j \/ k < i)
      BY <2>4
    <3>2. PICK a \in 1 .. q : n2[v] = ms[a]
      BY <2>4
    <3>3. i \in j + 1 .. k
      BY <3>1, <3>2, <2>4, <1>9
    <3>4. QED
      BY <3>1, <3>3, <1>1
  <2> HIDE DEF Old, New
  <2>5. QED
    BY <2>1, <2>2, <2>3, <2>4, <1>10
<1>11. Len(n2) = Len(c2)
  BY <1>5, <1>6
<1>12. QED
  BY <1>2, <1>8, <1>10, <1>11 DEF Links, n2, c2

\* A list after such a patch, with the header it calls for.
LEMMA RightPatch ==
  ASSUME NEW L, NEW h, NEW ns, NEW cs, NEW off, NEW s, Right(L, h, ns, cs, off, s),
         NEW j \in 0 .. Len(ns), NEW k \in 0 .. Len(ns), j <= k,
         NEW ms, NEW mc, NEW mo, NEW m, Pieces(mc, mo, m),
         NEW h2, Patch(h, ns, j, k, ms, mc, h2), NEW L2 \in Header,
         L2.head = IF j > 0 THEN L.head ELSE After(ns, k, ms, 0),
         L2.tail = IF k < Len(ns) THEN L.tail ELSE IF Len(ms) > 0 THEN ms[Len(ms)]
                   ELSE IF j > 0 THEN ns[j] ELSE NULL,
         L2.n = off[j] + Len(m) + (Len(s) - off[k]),
         L2.last # NULL => AtCut(L2.last, L2.lastn, Splice(ns, j, k, ms),
                                 SpliceSums(off, Len(ns), j, k, mo, Len(ms)))
  PROVE  Right(L2, h2, Splice(ns, j, k, ms), Splice(cs, j, k, mc),
               SpliceSums(off, Len(ns), j, k, mo, Len(ms)), Splice(s, off[j], off[k], m))
<1> DEFINE n2 == Splice(ns, j, k, ms)
           s2 == Splice(s, off[j], off[k], m)
<1>1. Links(h, ns, cs) /\ Pieces(cs, off, s) /\ Len(ns) = Len(cs) /\ Len(ms) = Len(mc)
      /\ cs \in Seq(Seq(Int)) /\ mc \in Seq(Seq(Int)) /\ ns \in Seq(Nat \ {0}) /\ ms \in Seq(Nat \ {0})
      /\ s \in Seq(Int) /\ m \in Seq(Int)
  BY DEF Right, Links, Pieces, Cuts, Patch
<1>2. Links(h2, n2, Splice(cs, j, k, mc))
  BY <1>1, LinksPatch
<1>3. Pieces(Splice(cs, j, k, mc), SpliceSums(off, Len(ns), j, k, mo, Len(ms)), s2)
  BY <1>1, PiecesSplice
<1>4. /\ \A i \in 0 .. j - 1 : Follow(n2, i) = Follow(ns, i)
      /\ \A a \in 0 .. Len(ms) : Follow(n2, j + a) = After(ns, k, ms, a)
      /\ TailOf(n2) = IF k < Len(ns) THEN ns[Len(ns)] ELSE IF Len(ms) > 0 THEN ms[Len(ms)]
                        ELSE IF j > 0 THEN ns[j] ELSE NULL
  BY <1>1, SpliceEnds, ZenonT(40)
<1>5. L2.head = Follow(n2, 0)
  <2> HIDE DEF n2
  <2>1. CASE j > 0
    <3>1. 0 \in 0 .. j - 1
      BY <2>1
    <3>2. Follow(n2, 0) = Follow(ns, 0)
      BY <3>1, <1>4
    <3>3. QED
      BY <2>1, <3>2 DEF Right
  <2>2. CASE j = 0
    <3>1. 0 \in 0 .. Len(ms) /\ j + 0 = 0 /\ ~(j > 0)
      BY <2>2, <1>1
    <3>2. Follow(n2, j + 0) = After(ns, k, ms, 0)
      BY <3>1, <1>4
    <3>3. QED
      BY <3>1, <3>2
  <2>3. QED
    BY <2>1, <2>2
<1>6. L2.tail = TailOf(n2)
  <2> HIDE DEF n2
  <2>1. k < Len(ns) => L.tail = ns[Len(ns)]
    <3>1. k < Len(ns) => Len(ns) # 0
      BY <1>1
    <3>2. QED
      BY <3>1 DEF Right, TailOf
  <2>2. QED
    BY <2>1, <1>4
<1>7. L2.n = Len(s2)
  <2>1. off[j] \in Nat /\ off[k] \in Nat /\ off[j] <= off[k] /\ off[k] <= Len(s)
    BY <1>1, PiecesGrow
  <2>2. Spliced(s2, s, off[j], off[k], m)
    BY <2>1, <1>1, SpliceType
  <2> HIDE DEF s2
  <2>3. QED
    BY <2>2 DEF Spliced
<1>8. QED
  BY <1>2, <1>3, <1>5, <1>6, <1>7 DEF Right

\* A cut before the nodes that changed stays one.
LEMMA CutKept ==
  ASSUME NEW ns \in Seq(Nat \ {0}), NEW ms \in Seq(Nat \ {0}), NEW cs, NEW off, NEW s, Pieces(cs, off, s),
         Len(ns) = Len(cs), NEW mc, NEW mo, NEW m, Pieces(mc, mo, m), Len(ms) = Len(mc),
         NEW j \in 0 .. Len(ns), NEW k \in 0 .. Len(ns), j <= k,
         NEW i \in 1 .. j
  PROVE  AtCut(ns[i], off[i - 1], Splice(ns, j, k, ms), SpliceSums(off, Len(ns), j, k, mo, Len(ms)))
<1> DEFINE n2 == Splice(ns, j, k, ms)
           o2 == SpliceSums(off, Len(ns), j, k, mo, Len(ms))
<1>1. \A x \in 0 .. j : o2[x] = off[x]
  BY PiecesSplice
<1>2. Spliced(n2, ns, j, k, ms)
  BY SpliceType
<1> HIDE DEF n2, o2
<1>3. i - 1 \in 0 .. j /\ i \in 1 .. Len(n2) /\ n2[i] = ns[i]
  BY <1>2 DEF Spliced
<1>4. QED
  BY <1>1, <1>3 DEF AtCut, n2, o2

\* A cut at the first of the nodes that were put in.
LEMMA CutNew ==
  ASSUME NEW ns \in Seq(Nat \ {0}), NEW ms \in Seq(Nat \ {0}), NEW cs, NEW off, NEW s, Pieces(cs, off, s),
         Len(ns) = Len(cs), NEW mc, NEW mo, NEW m, Pieces(mc, mo, m), Len(ms) = Len(mc),
         NEW j \in 0 .. Len(ns), NEW k \in 0 .. Len(ns), j <= k, Len(ms) > 0
  PROVE  AtCut(ms[1], off[j], Splice(ns, j, k, ms), SpliceSums(off, Len(ns), j, k, mo, Len(ms)))
<1> DEFINE n2 == Splice(ns, j, k, ms)
           o2 == SpliceSums(off, Len(ns), j, k, mo, Len(ms))
<1>1. \A x \in 0 .. j : o2[x] = off[x]
  BY PiecesSplice
<1>2. Spliced(n2, ns, j, k, ms)
  BY SpliceType
<1> HIDE DEF n2, o2
<1>3. j \in 0 .. j /\ (j + 1) - 1 = j /\ 1 \in 1 .. Len(ms) /\ j + 1 \in 1 .. Len(n2) /\ n2[j + 1] = ms[1]
  BY <1>2 DEF Spliced
<1>4. n2[j + 1] = ms[1] /\ o2[(j + 1) - 1] = off[j]
  BY <1>1, <1>3
<1>5. QED
  BY <1>3, <1>4 DEF AtCut, n2, o2

\* A patch by fresh or replaced nodes, with nothing else changed.
LEMMA PatchElsewhere ==
  ASSUME NEW h, IsFiniteSet(DOMAIN h), NEW ns, NEW cs, Links(h, ns, cs),
         NEW j \in 0 .. Len(ns), NEW k \in 0 .. Len(ns), j <= k,
         NEW ms \in Seq(Nat \ {0}), NEW h2, IsFiniteSet(DOMAIN h2),
         \A p \in DOMAIN h2 : In(p, ms) \/ (p \in DOMAIN h /\ \A i \in j + 1 .. k : p # ns[i]),
         \A p \in DOMAIN h : p \in DOMAIN h2 \/ \E i \in j + 1 .. k : p = ns[i],
         \A p \in DOMAIN h : In(p, ms) => In(p, ns),
         \A p \in DOMAIN h2 : ~In(p, ns) /\ ~In(p, ms) => h2[p] = h[p]
  PROVE  Elsewhere(h, ns, h2, Splice(ns, j, k, ms))
<1> DEFINE n2 == Splice(ns, j, k, ms)
           n == Len(ns)
           q == Len(ms)
<1>1. n \in Nat /\ q \in Nat /\ j \in Nat /\ k \in Nat /\ k <= n /\ ns \in Seq(Nat \ {0})
  BY DEF Links
<1>2. Spliced(n2, ns, j, k, ms)
  BY <1>1, SpliceType
<1> HIDE DEF n2
<1>3. /\ Len(n2) = j + q + (n - k)
      /\ \A i \in 1 .. j : n2[i] = ns[i]
      /\ \A i \in 1 .. q : n2[j + i] = ms[i]
      /\ \A i \in k + 1 .. n : n2[j + q + i - k] = ns[i]
  BY <1>2 DEF Spliced
<1>4. ASSUME NEW p, In(p, n2) PROVE In(p, ns) \/ In(p, ms)
  <2>1. PICK x \in 1 .. Len(n2) : n2[x] = p
    BY <1>4 DEF In
  <2>2. CASE x <= j
    <3>1. x \in 1 .. n /\ x \in 1 .. j
      BY <2>2, <1>1
    <3>2. QED
      BY <3>1, <2>1, <1>3 DEF In
  <2>3. CASE j < x /\ x <= j + q
    <3>1. x - j \in 1 .. q /\ x = j + (x - j)
      BY <2>3, <1>1
    <3>2. QED
      BY <3>1, <2>1, <1>3 DEF In
  <2>4. CASE j + q < x
    <3>1. x - j - q + k \in k + 1 .. n /\ x = j + q + (x - j - q + k) - k
      <4> DEFINE z == Len(n2)
      <4> HIDE DEF z, n, q
      <4>1. z = j + q + (n - k) /\ x \in 1 .. z
        BY <1>3 DEF z
      <4>2. QED
        BY <2>4, <1>1, <4>1
    <3>2. x - j - q + k \in 1 .. n
      BY <3>1, <1>1
    <3>3. QED
      BY <3>1, <3>2, <2>1, <1>3 DEF In
  <2>5. QED
    BY <2>2, <2>3, <2>4, <1>1
<1>5. ASSUME NEW p, In(p, ms) PROVE In(p, n2)
  <2>1. PICK a \in 1 .. q : ms[a] = p
    BY <1>5 DEF In
  <2>2. n2[j + a] = p /\ j + a \in 1 .. Len(n2)
    BY <2>1, <1>1, <1>3
  <2>3. QED
    BY <2>2 DEF In
<1>6. ASSUME NEW i \in 1 .. n, i \notin j + 1 .. k PROVE In(ns[i], n2)
  <2>1. CASE i <= j
    <3>1. i \in 1 .. j /\ i \in 1 .. Len(n2)
      BY <2>1, <1>1, <1>3
    <3>2. QED
      BY <3>1, <1>3 DEF In
  <2>2. CASE k < i
    <3>1. i \in k + 1 .. n /\ j + q + i - k \in 1 .. Len(n2)
      BY <2>2, <1>1, <1>3
    <3>2. QED
      BY <3>1, <1>3 DEF In
  <2>3. QED
    BY <2>1, <2>2, <1>1, <1>6
<1>7. ASSUME NEW i \in j + 1 .. k PROVE In(ns[i], ns)
  <2>1. i \in 1 .. n
    BY <1>1
  <2>2. QED
    BY <2>1 DEF In
<1>8. ASSUME NEW p \in DOMAIN h, ~In(p, ns)
      PROVE  p \in DOMAIN h2 /\ ~In(p, n2) /\ h2[p] = h[p]
  <2>1. ~In(p, ms)
    BY <1>8
  <2>2. ~In(p, n2)
    BY <2>1, <1>4, <1>8
  <2>3. p \in DOMAIN h2
    BY <1>7, <1>8
  <2>4. QED
    BY <2>1, <2>2, <2>3, <1>8
<1>9. ASSUME NEW p \in DOMAIN h2, ~In(p, n2) PROVE p \in DOMAIN h /\ ~In(p, ns)
  <2>1. ~In(p, ms)
    BY <1>5, <1>9
  <2>2. p \in DOMAIN h /\ \A i \in j + 1 .. k : p # ns[i]
    BY <2>1
  <2>3. ~In(p, ns)
    <3>1. ASSUME In(p, ns) PROVE FALSE
      <4>1. PICK i \in 1 .. n : ns[i] = p
        BY <3>1 DEF In
      <4>2. i \notin j + 1 .. k
        BY <4>1, <2>2
      <4>3. QED
        BY <4>1, <4>2, <1>6, <1>9
    <3>2. QED
      BY <3>1
  <2>4. QED
    BY <2>2, <2>3
<1>10. QED
  BY <1>8, <1>9 DEF Elsewhere, n2

-----------------------------------------------------------------------------
(* All lists together *)

\* All lists together: each is right, no node is in two of them, and none is in no list.
Layout(h, ls, S, ns, cs, off) ==
    /\ IsFiniteSet(DOMAIN h)
    /\ ls \in [Lists -> Header] /\ S \in [Lists -> Seq(Int)]
    /\ \A l \in Lists : Right(ls[l], h, ns[l], cs[l], off[l], S[l])
    /\ \A l, m \in Lists : \A p : In(p, ns[l]) /\ In(p, ns[m]) => l = m
    /\ \A p \in DOMAIN h : \E l \in Lists : In(p, ns[l])

\* The heap h and the headers ls hold the sequences S.
Sound(h, ls, S) == \E ns, cs, off : Layout(h, ls, S, ns, cs, off)

\* The lists C change, and all others, with their nodes, stay.
Change(C, h, ls, S, ns, cs, off, h2, ls2, S2, ns2, cs2, off2) ==
    /\ IsFiniteSet(DOMAIN h2)
    /\ ls2 \in [Lists -> Header] /\ S2 \in [Lists -> Seq(Int)]
    /\ \A l \in C : Right(ls2[l], h2, ns2[l], cs2[l], off2[l], S2[l])
    /\ \A l \in Lists : l \notin C => /\ ls2[l] = ls[l] /\ S2[l] = S[l] /\ ns2[l] = ns[l]
                                     /\ cs2[l] = cs[l] /\ off2[l] = off[l]
    /\ \A l, m \in C : \A p : In(p, ns2[l]) /\ In(p, ns2[m]) => l = m
    /\ \A p \in DOMAIN h : (\A l \in C : ~In(p, ns[l])) =>
             p \in DOMAIN h2 /\ h2[p] = h[p] /\ \A l \in C : ~In(p, ns2[l])
    /\ \A p \in DOMAIN h2 : (\A l \in C : ~In(p, ns2[l])) =>
             p \in DOMAIN h /\ \A l \in C : ~In(p, ns[l])

\* When some lists change and are right again, all lists are.
LEMMA LayoutAfter ==
  ASSUME NEW h, NEW ls, NEW S, NEW ns, NEW cs, NEW off, Layout(h, ls, S, ns, cs, off),
         NEW C \in SUBSET Lists, NEW h2, NEW ls2, NEW S2, NEW ns2, NEW cs2, NEW off2,
         Change(C, h, ls, S, ns, cs, off, h2, ls2, S2, ns2, cs2, off2)
  PROVE  Layout(h2, ls2, S2, ns2, cs2, off2)
<1>1. /\ \A l \in Lists : Right(ls[l], h, ns[l], cs[l], off[l], S[l])
      /\ \A l, m \in Lists : \A p : In(p, ns[l]) /\ In(p, ns[m]) => l = m
      /\ \A p \in DOMAIN h : \E l \in Lists : In(p, ns[l])
  BY DEF Layout
<1> USE DEF Change
<1>2. ASSUME NEW l \in Lists, l \notin C, NEW p, In(p, ns[l])
      PROVE  p \in DOMAIN h /\ \A m \in C : ~In(p, ns[m])
  <2>1. p \in DOMAIN h
    <3>1. Links(h, ns[l], cs[l])
      BY <1>1 DEF Right
    <3>2. QED
      BY <3>1, <1>2, ZenonT(40) DEF Links, In
  <2>2. \A m \in C : ~In(p, ns[m])
    BY <1>1, <1>2
  <2>3. QED
    BY <2>1, <2>2
<1>3. ASSUME NEW l \in Lists PROVE Right(ls2[l], h2, ns2[l], cs2[l], off2[l], S2[l])
  <2>1. CASE l \in C
    BY <2>1
  <2>2. CASE l \notin C
    <3>1. Right(ls[l], h, ns[l], cs[l], off[l], S[l])
      BY <1>1
    <3>2. Links(h2, ns[l], cs[l])
      <4>1. Links(h, ns[l], cs[l])
        BY <3>1 DEF Right
      <4>2. ASSUME NEW k \in 1 .. Len(ns[l])
            PROVE  ns[l][k] \in DOMAIN h2 /\ h2[ns[l][k]] = [items |-> cs[l][k], next |-> Follow(ns[l], k)]
        <5>1. In(ns[l][k], ns[l])
          BY DEF In
        <5>2. ns[l][k] \in DOMAIN h /\ \A m \in C : ~In(ns[l][k], ns[m])
          BY <5>1, <1>2, <2>2
        <5>3. ns[l][k] \in DOMAIN h2 /\ h2[ns[l][k]] = h[ns[l][k]]
          BY <5>2
        <5>4. QED
          BY <5>3, <4>1 DEF Links
      <4>3. QED
        BY <4>1, <4>2 DEF Links
    <3>3. Right(ls[l], h2, ns[l], cs[l], off[l], S[l])
      BY <3>1, <3>2 DEF Right
    <3>4. QED
      BY <3>3, <2>2
  <2>3. QED
    BY <2>1, <2>2
<1>4. ASSUME NEW l \in Lists, NEW m \in Lists, NEW p, In(p, ns2[l]), In(p, ns2[m]) PROVE l = m
  <2>0. ASSUME NEW a \in Lists, NEW b \in Lists, a \in C, b \notin C, In(p, ns2[a]), In(p, ns2[b]) PROVE FALSE
    <3>1. In(p, ns[b])
      BY <2>0
    <3>2. p \in DOMAIN h /\ \A c \in C : ~In(p, ns[c])
      BY <3>1, <1>2, <2>0
    <3>3. ~In(p, ns2[a])
      BY <3>2, <2>0
    <3>4. QED
      BY <3>3, <2>0
  <2>1. CASE l \in C /\ m \in C
    BY <2>1, <1>4
  <2>2. CASE l \notin C /\ m \notin C
    BY <2>2, <1>1, <1>4
  <2>3. QED
    BY <2>0, <2>1, <2>2, <1>4
<1>5. ASSUME NEW p \in DOMAIN h2 PROVE \E l \in Lists : In(p, ns2[l])
  <2>1. CASE \E l \in C : In(p, ns2[l])
    BY <2>1
  <2>2. CASE \A l \in C : ~In(p, ns2[l])
    <3>1. p \in DOMAIN h /\ \A l \in C : ~In(p, ns[l])
      BY <2>2
    <3>2. PICK l \in Lists : In(p, ns[l])
      BY <3>1, <1>1
    <3>3. l \notin C
      BY <3>1, <3>2
    <3>4. QED
      BY <3>2, <3>3
  <2>3. QED
    BY <2>1, <2>2
<1>6. QED
  BY <1>3, <1>4, <1>5 DEF Layout

\* One list changes.
LEMMA OneList ==
  ASSUME NEW h, NEW ls, NEW S, NEW ns, NEW cs, NEW off, Layout(h, ls, S, ns, cs, off),
         NEW l \in Lists, NEW L2, NEW h2, NEW n2, NEW c2, NEW o2, NEW s2,
         Right(L2, h2, n2, c2, o2, s2), Elsewhere(h, ns[l], h2, n2)
  PROVE  Sound(h2, [ls EXCEPT ![l] = L2], [S EXCEPT ![l] = s2])
<1> DEFINE nsA == [m \in Lists |-> IF m = l THEN n2 ELSE ns[m]]
           csA == [m \in Lists |-> IF m = l THEN c2 ELSE cs[m]]
           ofA == [m \in Lists |-> IF m = l THEN o2 ELSE off[m]]
           lsA == [ls EXCEPT ![l] = L2]
           SA  == [S EXCEPT ![l] = s2]
<1>1. ls \in [Lists -> Header] /\ S \in [Lists -> Seq(Int)] /\ L2 \in Header /\ s2 \in Seq(Int)
  BY DEF Layout, Right, Pieces, Cuts
<1>2. lsA \in [Lists -> Header] /\ SA \in [Lists -> Seq(Int)] /\ lsA[l] = L2 /\ SA[l] = s2
      /\ \A m \in Lists : m # l => lsA[m] = ls[m] /\ SA[m] = S[m]
  BY <1>1
<1>3. nsA[l] = n2 /\ csA[l] = c2 /\ ofA[l] = o2
      /\ \A m \in Lists : m # l => nsA[m] = ns[m] /\ csA[m] = cs[m] /\ ofA[m] = off[m]
  OBVIOUS
<1> HIDE DEF nsA, csA, ofA, lsA, SA
<1>4. IsFiniteSet(DOMAIN h2) /\ {l} \in SUBSET Lists
  BY DEF Elsewhere
<1>5. \A m \in {l} : Right(lsA[m], h2, nsA[m], csA[m], ofA[m], SA[m])
  BY <1>2, <1>3
<1>6. \A m \in Lists : m \notin {l} => /\ lsA[m] = ls[m] /\ SA[m] = S[m] /\ nsA[m] = ns[m]
                                        /\ csA[m] = cs[m] /\ ofA[m] = off[m]
  BY <1>2, <1>3
<1>7. \A p \in DOMAIN h : (\A m \in {l} : ~In(p, ns[m])) =>
             p \in DOMAIN h2 /\ h2[p] = h[p] /\ \A m \in {l} : ~In(p, nsA[m])
  BY <1>3 DEF Elsewhere
<1>8. \A p \in DOMAIN h2 : (\A m \in {l} : ~In(p, nsA[m])) =>
             p \in DOMAIN h /\ \A m \in {l} : ~In(p, ns[m])
  BY <1>3 DEF Elsewhere
<1>9. \A m, k \in {l} : \A p : In(p, nsA[m]) /\ In(p, nsA[k]) => m = k
  OBVIOUS
<1>10. Change({l}, h, ls, S, ns, cs, off, h2, lsA, SA, nsA, csA, ofA)
  BY <1>2, <1>4, <1>5, <1>6, <1>7, <1>8, <1>9 DEF Change
<1>11. Layout(h2, lsA, SA, nsA, csA, ofA)
  BY <1>4, <1>10, LayoutAfter
<1>12. QED
  BY <1>11 DEF Sound, lsA, SA

\* Two lists change.
LEMMA TwoLists ==
  ASSUME NEW h, NEW ls, NEW S, NEW ns, NEW cs, NEW off, Layout(h, ls, S, ns, cs, off),
         NEW l \in Lists, NEW m \in Lists, l # m, NEW h2, IsFiniteSet(DOMAIN h2),
         NEW L2, NEW n2, NEW c2, NEW o2, NEW s2, Right(L2, h2, n2, c2, o2, s2),
         NEW M2, NEW n3, NEW c3, NEW o3, NEW s3, Right(M2, h2, n3, c3, o3, s3),
         \A p : ~(In(p, n2) /\ In(p, n3)),
         \A p \in DOMAIN h : ~In(p, ns[l]) /\ ~In(p, ns[m]) =>
             p \in DOMAIN h2 /\ h2[p] = h[p] /\ ~In(p, n2) /\ ~In(p, n3),
         \A p \in DOMAIN h2 : ~In(p, n2) /\ ~In(p, n3) => p \in DOMAIN h /\ ~In(p, ns[l]) /\ ~In(p, ns[m])
  PROVE  Sound(h2, [ls EXCEPT ![l] = L2, ![m] = M2], [S EXCEPT ![l] = s2, ![m] = s3])
<1> DEFINE nsA == [x \in Lists |-> IF x = l THEN n2 ELSE IF x = m THEN n3 ELSE ns[x]]
           csA == [x \in Lists |-> IF x = l THEN c2 ELSE IF x = m THEN c3 ELSE cs[x]]
           ofA == [x \in Lists |-> IF x = l THEN o2 ELSE IF x = m THEN o3 ELSE off[x]]
           lsA == [ls EXCEPT ![l] = L2, ![m] = M2]
           SA  == [S EXCEPT ![l] = s2, ![m] = s3]
           C == {l, m}
<1>1. ls \in [Lists -> Header] /\ S \in [Lists -> Seq(Int)]
      /\ L2 \in Header /\ s2 \in Seq(Int) /\ M2 \in Header /\ s3 \in Seq(Int)
  BY DEF Layout, Right, Pieces, Cuts
<1>2. lsA \in [Lists -> Header] /\ SA \in [Lists -> Seq(Int)]
      /\ lsA[l] = L2 /\ SA[l] = s2 /\ lsA[m] = M2 /\ SA[m] = s3
      /\ \A x \in Lists : x # l /\ x # m => lsA[x] = ls[x] /\ SA[x] = S[x]
  BY <1>1
<1>3. nsA[l] = n2 /\ csA[l] = c2 /\ ofA[l] = o2 /\ nsA[m] = n3 /\ csA[m] = c3 /\ ofA[m] = o3
      /\ \A x \in Lists : x # l /\ x # m => nsA[x] = ns[x] /\ csA[x] = cs[x] /\ ofA[x] = off[x]
  OBVIOUS
<1> HIDE DEF nsA, csA, ofA, lsA, SA
<1>4. C \in SUBSET Lists
  OBVIOUS
<1>5. \A x \in C : Right(lsA[x], h2, nsA[x], csA[x], ofA[x], SA[x])
  BY <1>2, <1>3
<1>6. \A x \in Lists : x \notin C => /\ lsA[x] = ls[x] /\ SA[x] = S[x] /\ nsA[x] = ns[x]
                                        /\ csA[x] = cs[x] /\ ofA[x] = off[x]
  BY <1>2, <1>3
<1>7. \A p \in DOMAIN h : (\A x \in C : ~In(p, ns[x])) =>
             p \in DOMAIN h2 /\ h2[p] = h[p] /\ \A x \in C : ~In(p, nsA[x])
  BY <1>3
<1>8. \A p \in DOMAIN h2 : (\A x \in C : ~In(p, nsA[x])) =>
             p \in DOMAIN h /\ \A x \in C : ~In(p, ns[x])
  BY <1>3
<1>9. \A x, k \in C : \A p : In(p, nsA[x]) /\ In(p, nsA[k]) => x = k
  BY <1>3
<1> HIDE DEF C
<1>10. Change(C, h, ls, S, ns, cs, off, h2, lsA, SA, nsA, csA, ofA)
  BY <1>2, <1>4, <1>5, <1>6, <1>7, <1>8, <1>9 DEF Change
<1>11. Layout(h2, lsA, SA, nsA, csA, ofA)
  BY <1>4, <1>10, LayoutAfter
<1>12. QED
  BY <1>11 DEF Sound, lsA, SA

\* What a function along linked nodes computes.
Along(h, ns, e, t, o) ==
    /\ \A l \in Lists : \A k \in 1 .. Len(ns[l]) :
          Rest(t[l], o[l][k - 1]) = e[ns[l][k]] \o Rest(t[l], o[l][k])
    /\ \A l \in Lists : Rest(t[l], o[l][Len(ns[l])]) = <<>>

-----------------------------------------------------------------------------
(* Functions along the linked nodes *)

\* f is what a function along linked nodes, that collects e, computes.
Goes(h, e, f) ==
    f = [q \in DOMAIN h \cup {NULL} |-> IF q = NULL THEN <<>> ELSE e[q] \o f[h[q].next]]

\* There is such a function: the lists have no cycles.
LEMMA AlongExists ==
  ASSUME NEW h, NEW ls, NEW S, NEW ns, NEW cs, NEW off, Layout(h, ls, S, ns, cs, off),
         NEW e, NEW t, NEW o, Along(h, ns, e, t, o)
  PROVE  \E f : Goes(h, e, f)
<1> DEFINE list(q) == CHOOSE l \in Lists : In(q, ns[l])
           at(q) == CHOOSE k \in 1 .. Len(ns[list(q)]) : ns[list(q)][k] = q
           f == [q \in DOMAIN h \cup {NULL} |->
                    IF q = NULL THEN <<>> ELSE Rest(t[list(q)], o[list(q)][at(q) - 1])]
<1>1. ASSUME NEW l \in Lists PROVE Links(h, ns[l], cs[l]) /\ Len(ns[l]) \in Nat
  BY DEF Layout, Right, Links
<1>2. ASSUME NEW l \in Lists, NEW k \in 1 .. Len(ns[l])
      PROVE  /\ ns[l][k] \in DOMAIN h /\ ns[l][k] # NULL
             /\ f[ns[l][k]] = Rest(t[l], o[l][k - 1])
  <2> DEFINE q == ns[l][k]
  <2>1. Links(h, ns[l], cs[l])
    BY <1>1
  <2>2. q \in DOMAIN h /\ q # NULL
    <3>1. ns[l] \in Seq(Nat \ {0}) /\ q \in DOMAIN h
      BY <2>1 DEF Links
    <3>2. q \in Nat \ {0}
      BY <3>1, ElementOfSeq
    <3>3. QED
      BY <3>1, <3>2 DEF NULL
  <2>3. In(q, ns[l])
    BY DEF In
  <2>4. list(q) = l
    <3>1. list(q) \in Lists /\ In(q, ns[list(q)])
      BY <2>3
    <3>2. QED
      BY <3>1, <2>3 DEF Layout
  <2>5. at(q) = k
    <3>1. at(q) \in 1 .. Len(ns[l]) /\ ns[l][at(q)] = q
      BY <2>4
    <3>2. QED
      BY <3>1, <2>1 DEF Links
  <2> HIDE DEF list, at
  <2>6. QED
    BY <2>2, <2>4, <2>5
<1>3. f[NULL] = <<>>
  OBVIOUS
<1> HIDE DEF f
<1>4. ASSUME NEW q \in DOMAIN h \cup {NULL}
      PROVE  f[q] = IF q = NULL THEN <<>> ELSE e[q] \o f[h[q].next]
  <2>1. CASE q = NULL
    BY <2>1, <1>3
  <2>2. CASE q # NULL
    <3>1. PICK l \in Lists : In(q, ns[l])
      BY <2>2 DEF Layout
    <3>2. PICK k \in 1 .. Len(ns[l]) : ns[l][k] = q
      BY <3>1 DEF In
    <3>3. f[q] = e[q] \o Rest(t[l], o[l][k])
      BY <3>2, <1>2 DEF Along
    <3>4. h[q].next = Follow(ns[l], k)
      <4>1. h[q] = [items |-> cs[l][k], next |-> Follow(ns[l], k)]
        BY <3>2, <1>1 DEF Links
      <4>2. QED
        BY <4>1
    <3>5. f[Follow(ns[l], k)] = Rest(t[l], o[l][k])
      <4>1. CASE k < Len(ns[l])
        <5>1. k + 1 \in 1 .. Len(ns[l]) /\ (k + 1) - 1 = k
          BY <4>1, <1>1
        <5>2. f[ns[l][k + 1]] = Rest(t[l], o[l][(k + 1) - 1])
          BY <5>1, <1>2
        <5>3. QED
          BY <5>1, <5>2, <4>1 DEF Follow
      <4>2. CASE k = Len(ns[l])
        <5>1. ~(k < Len(ns[l]))
          BY <4>2, <1>1
        <5>2. QED
          BY <5>1, <4>2, <1>3 DEF Along, Follow
      <4>3. QED
        BY <4>1, <4>2, <1>1
    <3>6. QED
      BY <2>2, <3>3, <3>4, <3>5
  <2>3. QED
    BY <2>1, <2>2
<1>5. f = [q \in DOMAIN h \cup {NULL} |-> f[q]]
  BY DEF f
<1>6. f = [q \in DOMAIN h \cup {NULL} |-> IF q = NULL THEN <<>> ELSE e[q] \o f[h[q].next]]
  BY <1>4, <1>5
<1>7. QED
  BY <1>6 DEF Goes

\* Any such function gives the rest of what the list holds, from every node on.
LEMMA AlongUnique ==
  ASSUME NEW h, NEW ls, NEW S, NEW ns, NEW cs, NEW off, Layout(h, ls, S, ns, cs, off),
         NEW e, NEW t, NEW o, Along(h, ns, e, t, o), NEW f, Goes(h, e, f),
         NEW l \in Lists
  PROVE  \A k \in 0 .. Len(ns[l]) : f[Follow(ns[l], k)] = Rest(t[l], o[l][k])
<1> DEFINE n == Len(ns[l])
           Bad == {d \in 0 .. n : f[Follow(ns[l], n - d)] # Rest(t[l], o[l][n - d])}
<1>1. Links(h, ns[l], cs[l]) /\ n \in Nat
  BY DEF Layout, Right, Links
<1>2. Bad = {}
  <2>1. SUFFICES ASSUME Bad # {} PROVE FALSE
    OBVIOUS
  <2>2. Bad \subseteq Nat
    <3>1. Bad \subseteq 0 .. n
      OBVIOUS
    <3> HIDE DEF Bad, n
    <3>2. QED
      BY <3>1, <1>1
  <2>3. PICK d \in Bad : \A x \in Bad : d <= x
    <3> HIDE DEF Bad
    <3>1. QED
      BY <2>1, <2>2, NatMin
  <2>4. CASE d = 0
    <3>1. n - d = n /\ ~(n < n)
      BY <2>4, <1>1
    <3>2. Follow(ns[l], n) = NULL
      BY <3>1 DEF Follow
    <3>3. f[NULL] = <<>>
      BY DEF Goes
    <3>4. QED
      BY <3>1, <3>2, <3>3, <2>3 DEF Along
  <2>5. CASE d # 0
    <3> DEFINE k == n - d
    <3>1. d \in 1 .. n /\ d - 1 \in 0 .. n /\ k \in 0 .. n - 1 /\ k + 1 \in 1 .. n /\ (k + 1) - 1 = k
          /\ n - (d - 1) = k + 1 /\ ~(d <= d - 1)
      BY <2>3, <2>5, <1>1
    <3> HIDE DEF k
    <3>2. f[Follow(ns[l], k + 1)] = Rest(t[l], o[l][k + 1])
      <4>1. d - 1 \notin Bad
        BY <2>3, <3>1
      <4>2. QED
        BY <4>1, <3>1
    <3>3. Follow(ns[l], k) = ns[l][k + 1]
      BY <3>1, <1>1 DEF Follow
    <3>4. ns[l][k + 1] \in DOMAIN h /\ ns[l][k + 1] # NULL /\ h[ns[l][k + 1]].next = Follow(ns[l], k + 1)
      <4>1. /\ ns[l][k + 1] \in DOMAIN h
            /\ h[ns[l][k + 1]] = [items |-> cs[l][k + 1], next |-> Follow(ns[l], k + 1)]
            /\ ns[l][k + 1] # NULL
        <5>1. ns[l] \in Seq(Nat \ {0})
          BY <1>1 DEF Links
        <5>2. ns[l][k + 1] \in Nat \ {0}
          BY <3>1, <5>1, ElementOfSeq
        <5>3. QED
          BY <3>1, <1>1, <5>2 DEF Links, NULL
      <4>2. QED
        BY <4>1
    <3>5. f[ns[l][k + 1]] = e[ns[l][k + 1]] \o f[h[ns[l][k + 1]].next]
      BY <3>4 DEF Goes
    <3>6. Rest(t[l], o[l][(k + 1) - 1]) = e[ns[l][k + 1]] \o Rest(t[l], o[l][k + 1])
      BY <3>1 DEF Along
    <3>7. f[Follow(ns[l], k)] = Rest(t[l], o[l][k])
      BY <3>1, <3>2, <3>3, <3>4, <3>5, <3>6
    <3>8. QED
      BY <3>7, <2>3 DEF k
  <2>6. QED
    BY <2>4, <2>5
<1>3. ASSUME NEW k \in 0 .. n PROVE f[Follow(ns[l], k)] = Rest(t[l], o[l][k])
  <2>1. n - k \in 0 .. n /\ n - (n - k) = k /\ n - k \notin Bad
    <3> HIDE DEF Bad, n
    <3>1. QED
      BY <1>1, <1>2
  <2>2. QED
    BY <2>1
<1>4. QED
  BY <1>3

\* What is known of a list that is right.
LEMMA ListFacts ==
  ASSUME NEW L, NEW h, NEW ns, NEW cs, NEW off, NEW s, Right(L, h, ns, cs, off, s)
  PROVE  /\ ns \in Seq(Nat \ {0}) /\ Len(ns) \in Nat /\ Len(cs) = Len(ns) /\ s \in Seq(Int) /\ Len(s) \in Nat
         /\ cs \in Seq(Seq(Int))
         /\ \A k \in 0 .. Len(ns) : off[k] \in Nat /\ off[k] <= Len(s)
         /\ \A j, k \in 0 .. Len(ns) : j <= k => off[j] <= off[k]
         /\ \A j, k \in 0 .. Len(ns) : j < k => off[j] < off[k]
         /\ off[0] = 0 /\ off[Len(ns)] = Len(s) /\ L.n = Len(s)
<1>1. Links(h, ns, cs) /\ Pieces(cs, off, s) /\ L.n = Len(s)
  BY DEF Right
<1>2. /\ ns \in Seq(Nat \ {0}) /\ Len(ns) \in Nat /\ Len(cs) = Len(ns) /\ s \in Seq(Int) /\ Len(s) \in Nat
      /\ off[0] = 0 /\ off[Len(ns)] = Len(s) /\ cs \in Seq(Seq(Int))
  BY <1>1 DEF Links, Pieces, Cuts
<1>3. /\ \A k \in 0 .. Len(ns) : off[k] \in Nat /\ off[k] <= Len(s)
      /\ \A j, k \in 0 .. Len(ns) : j <= k => off[j] <= off[k]
      /\ \A j, k \in 0 .. Len(ns) : j < k => off[j] < off[k]
  BY <1>1, <1>2, PiecesGrow
<1>4. QED
  BY <1>1, <1>2, <1>3

\* What is known of its k-th node.
NodeAt(h, ns, cs, off, s, k) ==
         /\ ns[k] \in DOMAIN h /\ ns[k] \in Nat /\ ns[k] # NULL
         /\ h[ns[k]].items = cs[k] /\ h[ns[k]].next = Follow(ns, k)
         /\ h[ns[k]] = [items |-> cs[k], next |-> Follow(ns, k)]
         /\ cs[k] \in Seq(Int) /\ Len(cs[k]) \in Nat /\ Len(cs[k]) \in 1 .. BlockSize
         /\ off[k] = off[k - 1] + Len(cs[k]) /\ off[k - 1] \in Nat /\ off[k] \in Nat
         /\ off[k] <= Len(s) /\ SameFrom(s, off[k - 1], cs[k])
         /\ k \in 0 .. Len(ns) /\ k - 1 \in 0 .. Len(ns)

\* Every node of a list that is right is such a node.
LEMMA NodeFacts ==
  ASSUME NEW L, NEW h, NEW ns, NEW cs, NEW off, NEW s, Right(L, h, ns, cs, off, s), NEW k \in 1 .. Len(ns)
  PROVE  NodeAt(h, ns, cs, off, s, k)
<1>1. Links(h, ns, cs) /\ Pieces(cs, off, s)
  BY DEF Right
<1>2. ns \in Seq(Nat \ {0}) /\ Len(ns) \in Nat /\ Len(cs) = Len(ns) /\ cs \in Seq(Seq(Int))
  BY <1>1 DEF Links, Pieces, Cuts
<1>3. ns[k] \in DOMAIN h /\ h[ns[k]] = [items |-> cs[k], next |-> Follow(ns, k)]
  BY <1>1 DEF Links
<1>4. ns[k] \in Nat \ {0}
  BY <1>2, ElementOfSeq
<1>5. cs[k] \in Seq(Int)
  BY <1>2, ElementOfSeq
<1>6. Len(cs[k]) \in 1 .. BlockSize /\ off[k] = off[k - 1] + Len(cs[k]) /\ SameFrom(s, off[k - 1], cs[k])
  BY <1>1, <1>2 DEF Pieces, Cuts, SameFrom
<1>7. k \in 0 .. Len(ns) /\ k - 1 \in 0 .. Len(ns)
  BY <1>2
<1>8. off[k] \in Nat /\ off[k - 1] \in Nat /\ Len(cs[k]) \in Nat /\ off[k] <= Len(s)
  <2>1. off[k] \in Nat /\ off[k - 1] \in Nat /\ off[k] <= Len(s)
    BY <1>7, ListFacts
  <2>2. Len(cs[k]) \in Nat
    BY <1>5
  <2>3. QED
    BY <2>1, <2>2
<1>9. h[ns[k]].items = cs[k] /\ h[ns[k]].next = Follow(ns, k)
  BY <1>3
<1>10. QED
  BY <1>3, <1>4, <1>5, <1>6, <1>7, <1>8, <1>9 DEF NULL, NodeAt

\* Nodes finds the nodes of a list, from each of them on.
LEMMA NodesAt ==
  ASSUME NEW h, NEW ls, NEW S, NEW ns, NEW cs, NEW off, Layout(h, ls, S, ns, cs, off),
         NEW l \in Lists
  PROVE  \A k \in 0 .. Len(ns[l]) : Nodes(h, Follow(ns[l], k)) = Rest(ns[l], k)
<1> DEFINE e == [q \in DOMAIN h |-> <<q>>]
           o == [m \in Lists |-> [k \in 0 .. Len(ns[m]) |-> k]]
           Step(f) == [q \in DOMAIN h \cup {NULL} |-> IF q = NULL THEN <<>> ELSE <<q>> \o f[h[q].next]]
           f == CHOOSE f : f = Step(f)
<1>1. Along(h, ns, e, ns, o)
  <2>1. ASSUME NEW m \in Lists, NEW k \in 1 .. Len(ns[m])
        PROVE  Rest(ns[m], o[m][k - 1]) = e[ns[m][k]] \o Rest(ns[m], o[m][k])
    <3>1. Right(ls[m], h, ns[m], cs[m], off[m], S[m])
      BY DEF Layout
    <3>2. ns[m] \in Seq(Nat \ {0}) /\ Len(ns[m]) \in Nat /\ ns[m][k] \in DOMAIN h /\ ns[m][k] \in Nat \ {0}
      <4>1. NodeAt(h, ns[m], cs[m], off[m], S[m], k)
        BY <3>1, NodeFacts
      <4>2. QED
        BY <3>1, <4>1, ListFacts DEF NULL, NodeAt
    <3>3. o[m][k - 1] = k - 1 /\ o[m][k] = k /\ k - 1 \in 0 .. Len(ns[m]) /\ k \in 0 .. Len(ns[m])
      BY <3>2
    <3>4. e[ns[m][k]] = <<ns[m][k]>>
      BY <3>2
    <3> DEFINE c == <<ns[m][k]>>
    <3>5. c \in Seq(Nat \ {0}) /\ Len(c) = 1 /\ c[1] = ns[m][k]
      BY <3>2
    <3> HIDE DEF c
    <3>6. k = (k - 1) + Len(c) /\ SameFrom(ns[m], k - 1, c)
      <4>1. \A i \in 1 .. Len(c) : i = 1 /\ (k - 1) + i = k
        BY <3>5
      <4>2. QED
        BY <4>1, <3>5 DEF SameFrom
    <3>7. Rest(ns[m], k - 1) = c \o Rest(ns[m], k)
      <4> DEFINE a == k - 1
                 w == ns[m]
      <4>1. a \in 0 .. Len(w) /\ k \in 0 .. Len(w) /\ k = a + Len(c) /\ SameFrom(w, a, c) /\ w \in Seq(Nat \ {0})
        BY <3>2, <3>3, <3>6
      <4> HIDE DEF a, w
      <4>2. Rest(w, a) = c \o Rest(w, k)
        BY <3>5, <4>1, RestConcat
      <4>3. QED
        BY <4>2 DEF a, w
    <3>8. QED
      BY <3>3, <3>4, <3>7 DEF c
  <2>2. ASSUME NEW m \in Lists PROVE Rest(ns[m], o[m][Len(ns[m])]) = <<>>
    <3>1. Right(ls[m], h, ns[m], cs[m], off[m], S[m])
      BY DEF Layout
    <3>2. ns[m] \in Seq(Nat \ {0}) /\ Len(ns[m]) \in Nat
      BY <3>1, ListFacts
    <3>3. o[m][Len(ns[m])] = Len(ns[m])
      BY <3>2
    <3>4. QED
      BY <3>2, <3>3, RestEnds
  <2> HIDE DEF e, o
  <2>3. QED
    BY <2>1, <2>2 DEF Along
<1>2. \A g : [q \in DOMAIN h \cup {NULL} |-> IF q = NULL THEN <<>> ELSE e[q] \o g[h[q].next]] = Step(g)
  OBVIOUS
<1>3. \E g : g = Step(g)
  <2>1. \E g : Goes(h, e, g)
    <3> HIDE DEF e, o
    <3>1. QED
      BY <1>1, AlongExists
  <2>2. QED
    BY <1>2, <2>1 DEF Goes
<1>4. f = Step(f)
  <2> HIDE DEF Step
  <2>1. QED
    BY <1>3
<1>5. Goes(h, e, f)
  <2> HIDE DEF f
  <2>1. QED
    BY <1>2, <1>4 DEF Goes
<1>6. \A k \in 0 .. Len(ns[l]) : f[Follow(ns[l], k)] = Rest(ns[l], o[l][k])
  <2> HIDE DEF f, e, o, Step
  <2>1. QED
    BY <1>1, <1>5, AlongUnique
<1>7. \A p : Nodes(h, p) = f[p]
  BY DEF Nodes
<1>8. \A k \in 0 .. Len(ns[l]) : o[l][k] = k
  OBVIOUS
<1> HIDE DEF f, o
<1>9. QED
  BY <1>6, <1>7, <1>8

\* Items finds the elements of a list, from each node on.
LEMMA ItemsAt ==
  ASSUME NEW h, NEW ls, NEW S, NEW ns, NEW cs, NEW off, Layout(h, ls, S, ns, cs, off),
         NEW l \in Lists
  PROVE  \A k \in 0 .. Len(ns[l]) : Items(h, Follow(ns[l], k)) = Rest(S[l], off[l][k])
<1> DEFINE e == [q \in DOMAIN h |-> h[q].items]
           Step(f) == [q \in DOMAIN h \cup {NULL} |-> IF q = NULL THEN <<>> ELSE h[q].items \o f[h[q].next]]
           f == CHOOSE f : f = Step(f)
<1>1. Along(h, ns, e, S, off)
  <2>1. ASSUME NEW m \in Lists, NEW k \in 1 .. Len(ns[m])
        PROVE  Rest(S[m], off[m][k - 1]) = e[ns[m][k]] \o Rest(S[m], off[m][k])
    <3>1. Right(ls[m], h, ns[m], cs[m], off[m], S[m])
      BY DEF Layout
    <3>2. S[m] \in Seq(Int) /\ Len(S[m]) \in Nat
      BY <3>1, ListFacts
    <3>3. /\ ns[m][k] \in DOMAIN h /\ h[ns[m][k]].items = cs[m][k] /\ cs[m][k] \in Seq(Int)
          /\ Len(cs[m][k]) \in Nat
          /\ off[m][k] = off[m][k - 1] + Len(cs[m][k]) /\ off[m][k - 1] \in Nat /\ off[m][k] \in Nat
          /\ off[m][k] <= Len(S[m]) /\ SameFrom(S[m], off[m][k - 1], cs[m][k])
      <4>1. NodeAt(h, ns[m], cs[m], off[m], S[m], k)
        BY <3>1, NodeFacts
      <4>2. QED
        BY <4>1 DEF NodeAt
    <3>5. off[m][k] \in 0 .. Len(S[m]) /\ off[m][k - 1] \in 0 .. Len(S[m])
      BY <3>2, <3>3
    <3>6. e[ns[m][k]] = cs[m][k]
      BY <3>3
    <3> HIDE DEF e
    <3>7. Rest(S[m], off[m][k - 1]) = cs[m][k] \o Rest(S[m], off[m][k])
      BY <3>2, <3>3, <3>5, RestConcat, ZenonT(40)
    <3>8. QED
      BY <3>6, <3>7
  <2>2. ASSUME NEW m \in Lists PROVE Rest(S[m], off[m][Len(ns[m])]) = <<>>
    <3>1. Right(ls[m], h, ns[m], cs[m], off[m], S[m])
      BY DEF Layout
    <3>2. S[m] \in Seq(Int) /\ off[m][Len(ns[m])] = Len(S[m])
      BY <3>1, ListFacts
    <3>4. QED
      BY <3>2, RestEnds
  <2> HIDE DEF e
  <2>3. QED
    BY <2>1, <2>2 DEF Along
<1>2. \A g : [q \in DOMAIN h \cup {NULL} |-> IF q = NULL THEN <<>> ELSE e[q] \o g[h[q].next]] = Step(g)
  OBVIOUS
<1>3. \E g : g = Step(g)
  <2>1. \E g : Goes(h, e, g)
    <3> HIDE DEF e
    <3>1. QED
      BY <1>1, AlongExists
  <2>2. QED
    BY <1>2, <2>1 DEF Goes
<1>4. f = Step(f)
  <2> HIDE DEF Step
  <2>1. QED
    BY <1>3
<1>5. Goes(h, e, f)
  <2> HIDE DEF f
  <2>1. QED
    BY <1>2, <1>4 DEF Goes
<1>6. \A k \in 0 .. Len(ns[l]) : f[Follow(ns[l], k)] = Rest(S[l], off[l][k])
  <2> HIDE DEF f, e, Step
  <2>1. QED
    BY <1>1, <1>5, AlongUnique
<1>7. \A p : Items(h, p) = f[p]
  BY DEF Items
<1> HIDE DEF f
<1>9. QED
  BY <1>6, <1>7

\* What Skipped counts, from any function that counts it.
LEMMA SkippedIs ==
  ASSUME NEW h, NEW w, Len(w) \in Nat, NEW o \in [0 .. Len(w) -> Nat], o[0] = 0,
         \A k \in 1 .. Len(w) : o[k] = o[k - 1] + Len(h[w[k]].items)
  PROVE  Skipped(h, w) = o
<1> DEFINE n == Len(w)
           Step(f) == [k \in 0 .. n |-> IF k = 0 THEN 0 ELSE f[k - 1] + Len(h[w[k]].items)]
           f == CHOOSE f : f = Step(f)
<1>1. o = Step(o)
  <2>1. \A k \in 0 .. n : o[k] = IF k = 0 THEN 0 ELSE o[k - 1] + Len(h[w[k]].items)
    OBVIOUS
  <2>2. o = [k \in 0 .. n |-> o[k]]
    OBVIOUS
  <2>3. QED
    BY <2>1, <2>2
<1>2. f = Step(f)
  <2> HIDE DEF Step
  <2>1. QED
    BY <1>1
<1>3. Skipped(h, w) = f
  BY DEF Skipped
<1> HIDE DEF f
<1> DEFINE Bad == {k \in 0 .. n : f[k] # o[k]}
<1>4. Bad = {}
  <2>1. SUFFICES ASSUME Bad # {} PROVE FALSE
    OBVIOUS
  <2>2. Bad \subseteq Nat
    OBVIOUS
  <2>3. PICK b \in Bad : \A x \in Bad : b <= x
    <3> HIDE DEF Bad
    <3>1. QED
      BY <2>1, <2>2, NatMin
  <2>4. f[0] = 0
    BY <1>2
  <2>5. b \in 1 .. n /\ b - 1 \in 0 .. n /\ b - 1 \notin Bad
    <3>1. b # 0
      BY <2>3, <2>4
    <3>2. QED
      BY <2>3, <3>1
  <2>6. f[b] = f[b - 1] + Len(h[w[b]].items)
    BY <1>2, <2>5
  <2>7. QED
    BY <2>3, <2>5, <2>6
<1>5. \A k \in 0 .. n : f[k] = o[k]
  BY <1>4
<1>6. f = [k \in 0 .. n |-> f[k]]
  BY <1>2
<1>7. f = o
  BY <1>5, <1>6
<1>8. QED
  BY <1>3, <1>7

\* The counts along the nodes from ns[j + 1] on.
Counts(off, n, j) == [i \in 0 .. n - j |-> off[j + i] - off[j]]

\* What Skipped counts from the node j + 1 on.
LEMMA SkippedRest ==
  ASSUME NEW L, NEW h, NEW ns, NEW cs, NEW off, NEW s, Right(L, h, ns, cs, off, s),
         NEW j \in 0 .. Len(ns)
  PROVE  Skipped(h, Rest(ns, j)) = Counts(off, Len(ns), j)
<1> DEFINE n == Len(ns)
           w == Rest(ns, j)
           o == Counts(off, n, j)
<1>1. n \in Nat /\ j \in Nat /\ j <= n /\ n - j \in Nat /\ ns \in Seq(Nat \ {0})
  BY ListFacts
<1>2. Len(w) = n - j /\ \A i \in 1 .. n - j : w[i] = ns[j + i]
  BY <1>1, RestType
<1> HIDE DEF w
<1>3. \A i \in 0 .. n - j : o[i] \in Nat
  <2> SUFFICES ASSUME NEW i \in 0 .. n - j PROVE o[i] \in Nat
    OBVIOUS
  <2>1. j + i \in 0 .. n /\ j \in 0 .. n /\ j <= j + i
    BY <1>1
  <2>2. off[j + i] \in Nat /\ off[j] \in Nat /\ off[j] <= off[j + i]
    BY <2>1, ListFacts
  <2>3. QED
    BY <2>2 DEF Counts
<1>4. o \in [0 .. Len(w) -> Nat]
  BY <1>2, <1>3 DEF Counts
<1>5. o[0] = 0
  <2>1. off[j] \in Nat /\ j + 0 = j
    BY <1>1, ListFacts
  <2>2. QED
    BY <1>1, <2>1 DEF Counts
<1>6. ASSUME NEW k \in 1 .. Len(w) PROVE o[k] = o[k - 1] + Len(h[w[k]].items)
  <2> DEFINE i == j + k
  <2>1. i \in 1 .. n /\ i - 1 = j + (k - 1) /\ w[k] = ns[i] /\ k \in 0 .. n - j /\ k - 1 \in 0 .. n - j
    BY <1>1, <1>2
  <2>2. o[k] = off[i] - off[j] /\ o[k - 1] = off[i - 1] - off[j]
    BY <2>1 DEF Counts
  <2> HIDE DEF i, o
  <2>3. NodeAt(h, ns, cs, off, s, i)
    BY <2>1, NodeFacts
  <2>4. off[j] \in Nat
    BY ListFacts
  <2> DEFINE a == off[i]
             b == off[i - 1]
             d == off[j]
             e == Len(cs[i])
  <2>5. a \in Nat /\ b \in Nat /\ d \in Nat /\ e \in Nat /\ a = b + e /\ h[ns[i]].items = cs[i]
    BY <2>3, <2>4 DEF NodeAt
  <2>6. o[k] = a - d /\ o[k - 1] = b - d /\ Len(h[w[k]].items) = e
    BY <2>1, <2>2, <2>5
  <2> HIDE DEF a, b, d, e
  <2>7. QED
    BY <2>5, <2>6
<1> HIDE DEF o
<1>7. Skipped(h, w) = o
  <2>1. Len(w) \in Nat
    BY <1>1, <1>2
  <2>2. QED
    BY <2>1, <1>4, <1>5, <1>6, SkippedIs
<1>8. QED
  BY <1>7 DEF w, o

\* The cut c is where element n is.
Found(c, ns, off, k, n) ==
    k \in 1 .. Len(ns) /\ c = <<ns[k], off[k - 1]>> /\ off[k - 1] <= n /\ n < off[k]

\* Walk goes from a node to the one of element n.
LEMMA WalkFinds ==
  ASSUME NEW ls, NEW S, NEW ns, NEW cs, NEW off, Layout(heap, ls, S, ns, cs, off), NEW l \in Lists,
         NEW j \in 1 .. Len(ns[l]), NEW k \in 1 .. Len(ns[l]), NEW n \in Nat,
         off[l][j - 1] <= n, off[l][k - 1] <= n, n < off[l][k]
  PROVE  Walk(<<ns[l][j], off[l][j - 1]>>, n) = <<ns[l][k], off[l][k - 1]>>
<1> DEFINE N == Len(ns[l])
           o == off[l]
           c == <<ns[l][j], o[j - 1]>>
           w == Rest(ns[l], j - 1)
           q == Counts(o, N, j - 1)
           X == {i \in DOMAIN w : n < c[2] + q[i]}
           x == k - (j - 1)
<1>1. Right(ls[l], heap, ns[l], cs[l], o, S[l])
  BY DEF Layout
<1>2. /\ ns[l] \in Seq(Nat \ {0}) /\ N \in Nat
      /\ \A i \in 0 .. N : o[i] \in Nat
      /\ \A a, b \in 0 .. N : a <= b => o[a] <= o[b]
  BY <1>1, ListFacts
<1>3. j - 1 \in 0 .. N /\ N - (j - 1) \in Nat /\ j - 1 < N
  BY <1>2
<1>4. Nodes(heap, c[1]) = w
  <2>1. Follow(ns[l], j - 1) = ns[l][j]
    BY <1>2, <1>3 DEF Follow
  <2>2. Nodes(heap, Follow(ns[l], j - 1)) = w
    BY <1>3, NodesAt
  <2>3. QED
    BY <2>1, <2>2
<1>5. Skipped(heap, w) = q
  BY <1>1, <1>3, SkippedRest
<1>6. w \in Seq(Nat \ {0}) /\ Len(w) = N - (j - 1) /\ \A i \in 1 .. N - (j - 1) : w[i] = ns[l][(j - 1) + i]
  BY <1>2, <1>3, RestType
<1> HIDE DEF w
<1>7. \A i \in 0 .. N - (j - 1) : c[2] + q[i] = o[(j - 1) + i]
  <2> SUFFICES ASSUME NEW i \in 0 .. N - (j - 1) PROVE c[2] + q[i] = o[(j - 1) + i]
    OBVIOUS
  <2>1. (j - 1) + i \in 0 .. N
    BY <1>2, <1>3
  <2>2. o[(j - 1) + i] \in Nat /\ o[j - 1] \in Nat
    BY <1>2, <1>3, <2>1
  <2>3. q[i] = o[(j - 1) + i] - o[j - 1]
    BY DEF Counts
  <2>4. QED
    BY <2>2, <2>3
<1>8. j <= k
  <2>1. SUFFICES ASSUME k < j PROVE FALSE
    BY <1>2
  <2>2. k \in 0 .. N /\ k <= j - 1
    BY <1>2, <1>3, <2>1
  <2>3. o[k] <= o[j - 1] /\ o[k] \in Nat /\ o[j - 1] \in Nat
    BY <1>2, <1>3, <2>2
  <2>4. QED
    BY <2>3
<1> HIDE DEF q
<1>9. x \in 1 .. N - (j - 1) /\ x - 1 \in 0 .. N - (j - 1) /\ (j - 1) + x = k /\ (j - 1) + (x - 1) = k - 1
  BY <1>2, <1>3, <1>8
<1>10. DOMAIN w = 1 .. N - (j - 1)
  BY <1>6, LenProperties
<1>11. w[x] = ns[l][k] /\ c[2] + q[x] = o[k] /\ c[2] + q[x - 1] = o[k - 1]
  BY <1>6, <1>7, <1>9
<1>12. Min(X) = x
  <2>1. x \in X
    BY <1>9, <1>10, <1>11
  <2>2. ASSUME NEW y \in X PROVE x <= y
    <3>1. y \in 1 .. N - (j - 1) /\ n < c[2] + q[y]
      BY <1>10
    <3>2. SUFFICES ASSUME y < x PROVE FALSE
      BY <3>1, <1>9
    <3>3. (j - 1) + y \in 0 .. N /\ (j - 1) + y <= k - 1 /\ k - 1 \in 0 .. N
      <4> HIDE DEF N, x
      <4>1. y \in Nat /\ x \in Nat /\ y <= x - 1 /\ k \in 1 .. N /\ N \in Nat /\ j \in Nat /\ k \in Nat
        <5>1. N \in Nat /\ k \in 1 .. N /\ j \in 1 .. N
          BY <1>2 DEF N
        <5>2. j \in Nat /\ k \in Nat /\ N - (j - 1) \in Nat
          BY <5>1, <1>3
        <5> DEFINE D == N - (j - 1)
        <5>3. y \in 1 .. D /\ x \in 1 .. D /\ D \in Nat
          BY <5>2, <1>9, <3>1
        <5> HIDE DEF D
        <5>4. y \in Nat /\ x \in Nat /\ y <= x - 1
          BY <5>3, <3>2
        <5>5. QED
          BY <5>1, <5>2, <5>4
      <4>2. (j - 1) + y <= k - 1
        BY <4>1, <1>9, <1>3
      <4>3. QED
        BY <4>1, <4>2, <1>3, <3>1
    <3>4. c[2] + q[y] = o[(j - 1) + y]
      BY <1>7, <3>1
    <3>5. o[(j - 1) + y] <= o[k - 1] /\ o[(j - 1) + y] \in Nat /\ o[k - 1] \in Nat
      BY <1>2, <3>3
    <3>6. QED
      BY <3>1, <3>4, <3>5
  <2>3. X \in SUBSET Int
    BY <1>10
  <2> HIDE DEF X, x
  <2>4. QED
    BY <2>1, <2>2, <2>3, LeastIs
<1>13. Walk(c, n) = <<w[x], c[2] + q[x - 1]>>
  BY <1>4, <1>5, <1>12 DEF Walk
<1>14. QED
  BY <1>11, <1>13

\* From the shortcut or the head on, the node of element n.
LEMMA FindNodeFinds ==
  ASSUME NEW ls, NEW S, NEW ns, NEW cs, NEW off, Layout(heap, ls, S, ns, cs, off), NEW l \in Lists,
         NEW n \in Nat, n < Len(S[l])
  PROVE  \E k \in 1 .. Len(ns[l]) : /\ Found(FindNode(ls[l], n), ns[l], off[l], k, n)
                                    /\ Found(Walk(<<ls[l].head, 0>>, n), ns[l], off[l], k, n)
<1>1. Right(ls[l], heap, ns[l], cs[l], off[l], S[l])
  BY DEF Layout
<1>2. Len(ns[l]) \in Nat /\ Len(cs[l]) = Len(ns[l]) /\ Pieces(cs[l], off[l], S[l])
      /\ off[l][0] = 0
  BY <1>1, ListFacts DEF Right
<1>3. PICK k \in 1 .. Len(ns[l]) : off[l][k - 1] <= n /\ n < off[l][k]
  BY <1>2, PiecesFind
<1>4. Walk(<<ls[l].head, 0>>, n) = <<ns[l][k], off[l][k - 1]>>
  <2>1. 1 \in 1 .. Len(ns[l]) /\ 1 - 1 = 0 /\ off[l][1 - 1] <= n /\ ls[l].head = ns[l][1]
    BY <1>1, <1>2, <1>3 DEF Right, Follow
  <2>2. Walk(<<ns[l][1], off[l][1 - 1]>>, n) = <<ns[l][k], off[l][k - 1]>>
    BY <1>3, <2>1, WalkFinds
  <2>3. QED
    BY <1>2, <2>1, <2>2
<1>5. FindNode(ls[l], n) = <<ns[l][k], off[l][k - 1]>>
  <2>1. CASE ls[l].last # NULL /\ n >= ls[l].lastn
    <3>1. PICK j \in 1 .. Len(ns[l]) : ls[l].last = ns[l][j] /\ ls[l].lastn = off[l][j - 1]
      BY <1>1, <2>1 DEF Right, AtCut
    <3>2. off[l][j - 1] <= n
      <4>1. ls[l].lastn \in Nat
        BY <1>1 DEF Right, Header
      <4>2. QED
        BY <2>1, <3>1, <4>1
    <3>3. Walk(<<ns[l][j], off[l][j - 1]>>, n) = <<ns[l][k], off[l][k - 1]>>
      BY <1>3, <3>2, WalkFinds
    <3>4. QED
      BY <2>1, <3>1, <3>3 DEF FindNode
  <2>2. CASE ~(ls[l].last # NULL /\ n >= ls[l].lastn)
    BY <1>4, <2>2 DEF FindNode
  <2>3. QED
    BY <2>1, <2>2
<1>6. QED
  BY <1>3, <1>4, <1>5 DEF Found

\* The nodes, the elements and the counts of a list, from its head on.
LEMMA HeadNodes ==
  ASSUME NEW h, NEW ls, NEW S, NEW ns, NEW cs, NEW off, Layout(h, ls, S, ns, cs, off), NEW l \in Lists
  PROVE  /\ Nodes(h, ls[l].head) = ns[l] /\ Items(h, ls[l].head) = S[l]
         /\ Skipped(h, ns[l]) = off[l]
         /\ \A p : p \in Range(ns[l]) <=> In(p, ns[l])
<1>1. Right(ls[l], h, ns[l], cs[l], off[l], S[l])
  BY DEF Layout
<1>2. ns[l] \in Seq(Nat \ {0}) /\ Len(ns[l]) \in Nat /\ S[l] \in Seq(Int) /\ off[l][0] = 0
      /\ Len(cs[l]) = Len(ns[l])
  BY <1>1, ListFacts
<1>3. 0 \in 0 .. Len(ns[l]) /\ ls[l].head = Follow(ns[l], 0)
  BY <1>1, <1>2 DEF Right
<1>4. Nodes(h, ls[l].head) = ns[l]
  <2>1. Nodes(h, ls[l].head) = Rest(ns[l], 0)
    BY <1>3, NodesAt
  <2>2. QED
    BY <2>1, <1>2, RestEnds
<1>5. Items(h, ls[l].head) = S[l]
  <2>1. Items(h, ls[l].head) = Rest(S[l], off[l][0])
    BY <1>3, ItemsAt
  <2>2. QED
    BY <2>1, <1>2, RestEnds
<1>6. \A p : p \in Range(ns[l]) <=> In(p, ns[l])
  <2>1. DOMAIN ns[l] = 1 .. Len(ns[l])
    BY <1>2, LenProperties
  <2>2. QED
    BY <2>1 DEF Range, In
<1>7. Skipped(h, ns[l]) = off[l]
  <2>1. Pieces(cs[l], off[l], S[l])
    BY <1>1 DEF Right
  <2>2. off[l] \in [0 .. Len(ns[l]) -> Nat]
    BY <2>1, <1>2 DEF Pieces, Cuts
  <2>3. \A k \in 1 .. Len(ns[l]) : off[l][k] = off[l][k - 1] + Len(h[ns[l][k]].items)
    <3>1. \A k \in 1 .. Len(ns[l]) : NodeAt(h, ns[l], cs[l], off[l], S[l], k)
      BY <1>1, NodeFacts
    <3>2. QED
      BY <3>1 DEF NodeAt
  <2>4. QED
    BY <1>2, <2>2, <2>3, SkippedIs, SMTT(20)
<1>8. QED
  BY <1>4, <1>5, <1>6, <1>7

\* The node before the k-th one is the one before it.
LEMMA PreviousIs ==
  ASSUME NEW ls, NEW S, NEW ns, NEW cs, NEW off, Layout(heap, ls, S, ns, cs, off), NEW l \in Lists,
         NEW L, L.head = ls[l].head, NEW k \in 1 .. Len(ns[l])
  PROVE  Previous(L, ns[l][k]) = IF k = 1 THEN NULL ELSE ns[l][k - 1]
<1> DEFINE w == ns[l]
           N == Len(w)
<1>1. Right(ls[l], heap, w, cs[l], off[l], S[l])
  BY DEF Layout
<1>2. w \in Seq(Nat \ {0}) /\ N \in Nat /\ \A i, j \in 1 .. N : w[i] = w[j] => i = j
  <2>1. Links(heap, w, cs[l])
    BY <1>1 DEF Right
  <2>2. w \in Seq(Nat \ {0}) /\ N \in Nat
    BY <1>1, ListFacts
  <2>3. QED
    BY <2>1, <2>2 DEF Links
<1>3. L.head = w[1] /\ 1 \in 1 .. N
  BY <1>1, <1>2 DEF Right, Follow
<1>4. CASE k = 1
  BY <1>3, <1>4 DEF Previous
<1>5. CASE k # 1
  <2>1. w[k] # L.head
    BY <1>2, <1>3, <1>5
  <2>2. k - 1 \in 1 .. N /\ k \in 1 .. N
    BY <1>2, <1>5
  <2> DEFINE R == Range(Nodes(heap, L.head))
  <2>3. \A p : p \in R <=> In(p, w)
    BY HeadNodes
  <2> HIDE DEF R
  <2>4. ASSUME NEW q \in R, heap[q].next = w[k] PROVE q = w[k - 1]
    <3>1. PICK i \in 1 .. N : w[i] = q
      BY <2>3, <2>4 DEF In
    <3>2. NodeAt(heap, w, cs[l], off[l], S[l], i)
      BY <1>1, <3>1, NodeFacts
    <3>3. Follow(w, i) = w[k]
      BY <3>1, <3>2, <2>4 DEF NodeAt
    <3>4. NodeAt(heap, w, cs[l], off[l], S[l], k)
      BY <1>1, NodeFacts
    <3>5. i < N /\ w[i + 1] = w[k]
      BY <3>3, <3>4 DEF Follow, NodeAt
    <3>6. i + 1 = k
      <4>1. i + 1 \in 1 .. N
        BY <1>2, <3>1, <3>5
      <4>2. QED
        BY <1>2, <4>1, <3>5, <2>2
    <3>7. i = k - 1
      BY <3>1, <3>6
    <3>8. QED
      BY <3>1, <3>7
  <2>5. w[k - 1] \in R /\ heap[w[k - 1]].next = w[k]
    <3>1. w[k - 1] \in R
      BY <2>2, <2>3 DEF In
    <3>2. NodeAt(heap, w, cs[l], off[l], S[l], k - 1)
      BY <1>1, <2>2, NodeFacts
    <3>3. Follow(w, k - 1) = w[k]
      BY <1>2, <2>2 DEF Follow
    <3>4. QED
      BY <3>1, <3>2, <3>3 DEF NodeAt
  <2>6. (CHOOSE q \in R : heap[q].next = w[k]) = w[k - 1]
    BY <2>4, <2>5
  <2>7. QED
    BY <2>1, <2>6, <1>5 DEF Previous, R
<1>6. QED
  BY <1>4, <1>5

-----------------------------------------------------------------------------
(* New nodes, shortcuts and elements *)

\* There is always a node to allocate.
LEMMA NewNodeFresh ==
  ASSUME IsFiniteSet(DOMAIN heap)
  PROVE  NewNode \in Nat \ {0} /\ NewNode \notin DOMAIN heap
<1> DEFINE c == Cardinality(DOMAIN heap)
           X == 1 .. c + 1 \ DOMAIN heap
<1>1. c \in Nat
  BY FS_CardinalityType
<1>2. X # {}
  <2>1. SUFFICES ASSUME X = {} PROVE FALSE
    OBVIOUS
  <2>2. (1 .. c + 1) \in SUBSET DOMAIN heap
    BY <2>1
  <2>3. Cardinality(1 .. c + 1) <= c
    BY <2>2, FS_Subset
  <2>4. c + 1 \in Nat
    BY <1>1
  <2>5. Cardinality(1 .. c + 1) = c + 1
    BY <2>4, IntervalSize
  <2>6. QED
    BY <1>1, <2>3, <2>5
<1>3. X \subseteq Nat /\ X \subseteq Nat \ {0} /\ \A x \in X : x \notin DOMAIN heap
  BY <1>1
<1>4. NewNode = Min(X)
  BY DEF NewNode
<1> HIDE DEF X
<1>5. Min(X) \in X
  <2>1. \E m \in X : \A k \in X : m <= k
    BY <1>2, <1>3, NatMin
  <2>2. QED
    BY <2>1 DEF Min
<1>6. QED
  BY <1>3, <1>4, <1>5

\* Memory for n nodes gives that many different addresses that are not in use.
LEMMA MemoryFresh ==
  ASSUME NEW h, IsFiniteSet(DOMAIN h), NEW n \in Nat
  PROVE  LET ps == SubSeq(Memory(h, n), 1, n) IN
         /\ ps \in Seq(Nat \ {0}) /\ Len(ps) = n /\ Distinct(ps)
         /\ \A i \in 1 .. n : ps[i] \notin DOMAIN h
<1> DEFINE c == Cardinality(DOMAIN h)
           X == 1 .. c + n \ DOMAIN h
           a == Increasing(X)
           ps == SubSeq(a, 1, n)
<1>1. c \in Nat /\ c + n \in Nat
  BY FS_CardinalityType
<1>2. IsFiniteSet(1 .. c + n) /\ Cardinality(1 .. c + n) = c + n
  BY <1>1, IntervalSize
<1>3. X \in SUBSET Int /\ X \subseteq Nat \ {0} /\ \A x \in X : x \notin DOMAIN h
  BY <1>1
<1>4. IsFiniteSet(X) /\ Cardinality(X) >= n /\ Cardinality(X) \in Nat
  <2>1. IsFiniteSet(X) /\ Cardinality(X) = Cardinality(1 .. c + n) - Cardinality((1 .. c + n) \cap DOMAIN h)
    BY <1>2, FS_Difference
  <2>2. (1 .. c + n) \cap DOMAIN h \in SUBSET DOMAIN h
    OBVIOUS
  <2> DEFINE Y == (1 .. c + n) \cap DOMAIN h
  <2>3. Cardinality(Y) <= c /\ IsFiniteSet(Y)
    BY <2>2, FS_Subset
  <2>4. Cardinality(Y) \in Nat
    BY <2>3, FS_CardinalityType
  <2>5. Cardinality(X) \in Nat
    BY <2>1, FS_CardinalityType
  <2> HIDE DEF X, Y, c
  <2>6. Cardinality(X) = (c + n) - Cardinality(Y)
    BY <2>1, <1>2 DEF X, Y
  <2>7. QED
    BY <1>1, <2>1, <2>3, <2>4, <2>5, <2>6
<1>5. Memory(h, n) = a
  BY DEF Memory
<1> HIDE DEF X
<1>6. /\ a \in Seq(X) /\ Len(a) \in Nat /\ Len(a) >= n
      /\ \A i \in 1 .. Len(a) : a[i] \in X
      /\ \A i, j \in 1 .. Len(a) : a[i] = a[j] => i = j
  BY <1>3, <1>4, IncreasingNumbers
<1> HIDE DEF a
<1>7. 1 \in 1 .. Len(a) + 1 /\ \A i \in 1 .. n : i \in 1 .. Len(a)
  BY <1>6
<1>8. ps \in Seq(X) /\ Len(ps) = n /\ \A i \in 1 .. n : ps[i] = a[i]
  <2>1. \A i \in 1 .. n : a[i] \in X
    BY <1>6, <1>7
  <2>2. ps \in Seq(X) /\ Len(ps) = IF 1 <= n THEN n - 1 + 1 ELSE 0
    BY <2>1, SubSeqProperties
  <2>3. Len(ps) = n
    BY <2>2
  <2>4. \A i \in 1 .. n : ps[i] = a[i]
    OBVIOUS
  <2>5. QED
    BY <2>2, <2>3, <2>4
<1> HIDE DEF ps
<1>9. ps \in Seq(Nat \ {0})
  BY <1>3, <1>8, SeqMonotonic
<1>10. Distinct(ps)
  BY <1>6, <1>7, <1>8 DEF Distinct
<1>11. \A i \in 1 .. n : ps[i] \notin DOMAIN h
  BY <1>3, <1>6, <1>7, <1>8
<1>12. QED
  BY <1>5, <1>8, <1>9, <1>10, <1>11 DEF ps

\* The shortcut moves to a cut, or to none.
LEMMA CacheRight ==
  ASSUME NEW L, NEW h, NEW ns, NEW cs, NEW off, NEW s, Right(L, h, ns, cs, off, s),
         NEW c, c[1] \in Nat, c[2] \in Nat, c[1] # NULL => AtCut(c[1], c[2], ns, off)
  PROVE  Right(Cached(L, c), h, ns, cs, off, s)
<1> DEFINE L2 == Cached(L, c)
<1>1. L \in Header
  BY DEF Right
<1>2. L2 \in Header /\ L2.head = L.head /\ L2.tail = L.tail /\ L2.n = L.n /\ L2.last = c[1] /\ L2.lastn = c[2]
  BY <1>1 DEF Cached, Header
<1> HIDE DEF L2
<1>3. QED
  BY <1>2 DEF Right, L2

\* The same for all lists.
LEMMA CacheLayout ==
  ASSUME NEW h, NEW ls, NEW S, NEW ns, NEW cs, NEW off, Layout(h, ls, S, ns, cs, off), NEW l \in Lists,
         NEW c, c[1] \in Nat, c[2] \in Nat, c[1] # NULL => AtCut(c[1], c[2], ns[l], off[l])
  PROVE  Layout(h, [ls EXCEPT ![l] = Cached(ls[l], c)], S, ns, cs, off)
<1> DEFINE L2 == Cached(ls[l], c)
           l2 == [ls EXCEPT ![l] = L2]
<1>1. Right(ls[l], h, ns[l], cs[l], off[l], S[l])
  BY DEF Layout
<1>2. Right(L2, h, ns[l], cs[l], off[l], S[l])
  BY <1>1, CacheRight
<1>3. L2 \in Header
  BY <1>2 DEF Right
<1> HIDE DEF L2
<1>4. l2 \in [Lists -> Header] /\ l2[l] = L2 /\ \A m \in Lists : m # l => l2[m] = ls[m]
  BY <1>3 DEF Layout
<1> HIDE DEF l2
<1>5. ASSUME NEW m \in Lists PROVE Right(l2[m], h, ns[m], cs[m], off[m], S[m])
  BY <1>2, <1>4 DEF Layout
<1>6. QED
  BY <1>4, <1>5 DEF Layout, l2, L2

\* Where element n is found, there is a cut.
LEMMA FoundCut ==
  ASSUME NEW L, NEW h, NEW ns, NEW cs, NEW off, NEW s, Right(L, h, ns, cs, off, s),
         NEW c, NEW k, NEW n, Found(c, ns, off, k, n)
  PROVE  c[1] \in Nat /\ c[1] # NULL /\ c[2] \in Nat /\ AtCut(c[1], c[2], ns, off)
         /\ c[1] = ns[k] /\ c[2] = off[k - 1] /\ k \in 1 .. Len(ns)
<1>1. k \in 1 .. Len(ns) /\ c[1] = ns[k] /\ c[2] = off[k - 1]
  BY DEF Found
<1>2. NodeAt(h, ns, cs, off, s, k)
  BY <1>1, NodeFacts
<1>3. QED
  BY <1>1, <1>2 DEF NodeAt, AtCut

\* The element of a node, counted from its cut.
LEMMA ElementIs ==
  ASSUME NEW L, NEW ns, NEW cs, NEW off, NEW s, Right(L, heap, ns, cs, off, s),
         NEW c, NEW k, NEW n \in Nat, Found(c, ns, off, k, n)
  PROVE  Element(c, n) = s[n + 1] /\ n - c[2] + 1 \in 1 .. Len(cs[k]) /\ n - c[2] \in 0 .. Len(cs[k]) - 1
         /\ cs[k][n - c[2] + 1] = s[n + 1]
<1>1. k \in 1 .. Len(ns) /\ c[1] = ns[k] /\ c[2] = off[k - 1] /\ off[k - 1] <= n /\ n < off[k]
  BY DEF Found
<1>2. NodeAt(heap, ns, cs, off, s, k)
  BY <1>1, NodeFacts
<1> DEFINE a == off[k - 1]
           b == off[k]
           e == Len(cs[k])
           i == (n - a) + 1
<1>3. a \in Nat /\ b \in Nat /\ e \in Nat /\ b = a + e /\ a <= n /\ n < b /\ c[2] = a
  BY <1>1, <1>2 DEF NodeAt
<1>4. heap[c[1]].items = cs[k] /\ SameFrom(s, a, cs[k])
  BY <1>1, <1>2 DEF NodeAt
<1>5. i \in 1 .. e /\ a + i = n + 1 /\ n - c[2] + 1 = i /\ n - c[2] \in 0 .. e - 1
  <2> HIDE DEF a, b, e
  <2>1. QED
    BY <1>3
<1> HIDE DEF i
<1>6. s[a + i] = cs[k][i]
  BY <1>4, <1>5 DEF SameFrom
<1>7. QED
  BY <1>4, <1>5, <1>6 DEF Element

\* The nodes from ns[j + 1] to ns[k] give way to the nodes ms, which hold mc.
Rewritten(h, ns, cs, j, k, ms, mc, h2) ==
    /\ ms \in Seq(Nat \ {0}) /\ Len(ms) = Len(mc) /\ Distinct(ms)
    /\ \A a \in 1 .. Len(ms) : ms[a] \notin DOMAIN h \/ \E i \in j + 1 .. k : ms[a] = ns[i]
    /\ \A p : p \in DOMAIN h2 <=> In(p, ms) \/ (p \in DOMAIN h /\ \A i \in j + 1 .. k : p # ns[i])
    /\ IsFiniteSet(DOMAIN h2)
    /\ \A a \in 1 .. Len(ms) : h2[ms[a]] = [items |-> mc[a], next |-> After(ns, k, ms, a)]
    /\ j > 0 => h2[ns[j]] = [items |-> cs[j], next |-> After(ns, k, ms, 0)]
    /\ \A p \in DOMAIN h : ~In(p, ms) /\ (\A i \in j .. k : i > 0 => p # ns[i]) => h2[p] = h[p]

\* The shortcut is at one of the first j nodes, or at the first new one.
Shortcut(L2, ns, off, j, ms) ==
    L2.last # NULL => \/ \E i \in 1 .. j : L2.last = ns[i] /\ L2.lastn = off[i - 1]
                      \/ Len(ms) > 0 /\ L2.last = ms[1] /\ L2.lastn = off[j]

\* The list's header afterwards.
Headed(L2, L, ns, off, s, j, k, ms, m) ==
    /\ L2 \in Header
    /\ L2.head = IF j > 0 THEN L.head ELSE After(ns, k, ms, 0)
    /\ L2.tail = IF k < Len(ns) THEN L.tail ELSE IF Len(ms) > 0 THEN ms[Len(ms)]
                 ELSE IF j > 0 THEN ns[j] ELSE NULL
    /\ L2.n = off[j] + Len(m) + (Len(s) - off[k])
    /\ Shortcut(L2, ns, off, j, ms)

-----------------------------------------------------------------------------
(* Nodes written, added and left out *)

\* A list some of whose nodes give way to others, and its elements with them.
LEMMA Rewriting ==
  ASSUME NEW h, NEW ls, NEW S, NEW ns, NEW cs, NEW off, Layout(h, ls, S, ns, cs, off), NEW l \in Lists,
         NEW j \in 0 .. Len(ns[l]), NEW k \in 0 .. Len(ns[l]), j <= k,
         NEW ms, NEW mc, NEW mo, NEW m, Pieces(mc, mo, m),
         NEW h2, Rewritten(h, ns[l], cs[l], j, k, ms, mc, h2),
         NEW L2, Headed(L2, ls[l], ns[l], off[l], S[l], j, k, ms, m)
  PROVE  Sound(h2, [ls EXCEPT ![l] = L2], [S EXCEPT ![l] = Splice(S[l], off[l][j], off[l][k], m)])
<1> DEFINE w == ns[l]
           n2 == Splice(w, j, k, ms)
           o2 == SpliceSums(off[l], Len(w), j, k, mo, Len(ms))
<1>1. Right(ls[l], h, w, cs[l], off[l], S[l]) /\ IsFiniteSet(DOMAIN h)
  BY DEF Layout
<1>2. /\ Links(h, w, cs[l]) /\ Pieces(cs[l], off[l], S[l]) /\ w \in Seq(Nat \ {0}) /\ Len(w) \in Nat
      /\ Len(cs[l]) = Len(w)
      /\ \A a, b \in 1 .. Len(w) : w[a] = w[b] => a = b
      /\ \A a \in 1 .. Len(w) : w[a] \in DOMAIN h /\ h[w[a]].items = cs[l][a]
  <2>1. Links(h, w, cs[l]) /\ Pieces(cs[l], off[l], S[l])
    BY <1>1 DEF Right
  <2>2. w \in Seq(Nat \ {0}) /\ Len(w) \in Nat /\ Len(cs[l]) = Len(w)
    BY <1>1, ListFacts
  <2>3. \A a, b \in 1 .. Len(w) : w[a] = w[b] => a = b
    BY <2>1 DEF Links
  <2>4. ASSUME NEW a \in 1 .. Len(w) PROVE w[a] \in DOMAIN h /\ h[w[a]].items = cs[l][a]
    <3>1. NodeAt(h, w, cs[l], off[l], S[l], a)
      BY <1>1, NodeFacts
    <3>2. QED
      BY <3>1 DEF NodeAt
  <2>5. QED
    BY <2>1, <2>2, <2>3, <2>4
<1>3. /\ ms \in Seq(Nat \ {0}) /\ Len(ms) \in Nat /\ Len(ms) = Len(mc) /\ Distinct(ms)
      /\ \A a \in 1 .. Len(ms) : ms[a] \notin DOMAIN h \/ \E i \in j + 1 .. k : ms[a] = w[i]
      /\ \A p : p \in DOMAIN h2 <=> In(p, ms) \/ (p \in DOMAIN h /\ \A i \in j + 1 .. k : p # w[i])
      /\ IsFiniteSet(DOMAIN h2)
      /\ \A a \in 1 .. Len(ms) : h2[ms[a]] = [items |-> mc[a], next |-> After(w, k, ms, a)]
      /\ j > 0 => h2[w[j]] = [items |-> cs[l][j], next |-> After(w, k, ms, 0)]
      /\ \A p \in DOMAIN h : ~In(p, ms) /\ (\A i \in j .. k : i > 0 => p # w[i]) => h2[p] = h[p]
  BY DEF Rewritten
<1>4. \A i \in 1 .. Len(w) : In(w[i], ms) => i \in j + 1 .. k
  <2> SUFFICES ASSUME NEW i \in 1 .. Len(w), NEW a \in 1 .. Len(ms), ms[a] = w[i]
               PROVE  i \in j + 1 .. k
    BY DEF In
  <2>1. PICK x \in j + 1 .. k : ms[a] = w[x]
    BY <1>2, <1>3
  <2>2. x \in 1 .. Len(w)
    BY <1>2
  <2>3. QED
    BY <1>2, <2>1, <2>2
<1>5. Patch(h, w, j, k, ms, mc, h2)
  <2>1. \A a \in 1 .. Len(ms) : ms[a] \in DOMAIN h2
    BY <1>3 DEF In
  <2>2. \A i \in 1 .. Len(w) : i <= j \/ k < i => w[i] \in DOMAIN h2
    <3> SUFFICES ASSUME NEW i \in 1 .. Len(w), i <= j \/ k < i PROVE w[i] \in DOMAIN h2
      OBVIOUS
    <3>1. \A x \in j + 1 .. k : w[i] # w[x]
      <4> SUFFICES ASSUME NEW x \in j + 1 .. k, w[i] = w[x] PROVE FALSE
        OBVIOUS
      <4>1. x \in 1 .. Len(w)
        BY <1>2
      <4>2. i = x
        BY <1>2, <4>1
      <4>3. QED
        BY <4>2
    <3>2. QED
      BY <1>2, <1>3, <3>1
  <2>3. ASSUME NEW i \in 1 .. Len(w), i < j \/ k < i PROVE h2[w[i]] = h[w[i]]
    <3>1. ~In(w[i], ms)
      <4>1. i \notin j + 1 .. k
        BY <2>3
      <4>2. QED
        BY <1>4, <4>1
    <3>2. \A x \in j .. k : x > 0 => w[i] # w[x]
      <4> SUFFICES ASSUME NEW x \in j .. k, x > 0, w[i] = w[x] PROVE FALSE
        OBVIOUS
      <4>1. x \in 1 .. Len(w)
        BY <1>2
      <4>2. i = x
        BY <1>2, <4>1
      <4>3. QED
        BY <4>2, <2>3
    <3>3. w[i] \in DOMAIN h
      BY <1>2
    <3>4. QED
      BY <1>3, <3>1, <3>2, <3>3
  <2>4. j > 0 => w[j] \in DOMAIN h2 /\ h2[w[j]] = [items |-> h[w[j]].items, next |-> After(w, k, ms, 0)]
    <3>1. j > 0 => j \in 1 .. Len(w)
      OBVIOUS
    <3>2. QED
      BY <3>1, <1>2, <1>3, <2>2
  <2>5. QED
    BY <1>3, <1>4, <2>1, <2>2, <2>3, <2>4 DEF Patch
<1>6. Elsewhere(h, w, h2, n2)
  <2>1. \A p \in DOMAIN h2 : In(p, ms) \/ (p \in DOMAIN h /\ \A i \in j + 1 .. k : p # w[i])
    BY <1>3
  <2>2. \A p \in DOMAIN h : p \in DOMAIN h2 \/ \E i \in j + 1 .. k : p = w[i]
    BY <1>3
  <2>3. \A p \in DOMAIN h : In(p, ms) => In(p, w)
    <3> SUFFICES ASSUME NEW p \in DOMAIN h, NEW a \in 1 .. Len(ms), ms[a] = p PROVE In(p, w)
      BY DEF In
    <3>1. PICK x \in j + 1 .. k : ms[a] = w[x]
      BY <1>3
    <3>2. x \in 1 .. Len(w)
      BY <1>2
    <3>3. QED
      BY <3>1, <3>2 DEF In
  <2>4. \A p \in DOMAIN h2 : ~In(p, w) /\ ~In(p, ms) => h2[p] = h[p]
    <3> SUFFICES ASSUME NEW p \in DOMAIN h2, ~In(p, w), ~In(p, ms) PROVE h2[p] = h[p]
      OBVIOUS
    <3>1. p \in DOMAIN h
      BY <1>3
    <3>2. \A i \in j .. k : i > 0 => p # w[i]
      <4> SUFFICES ASSUME NEW i \in j .. k, i > 0, p = w[i] PROVE FALSE
        OBVIOUS
      <4>1. i \in 1 .. Len(w)
        BY <1>2
      <4>2. QED
        BY <4>1 DEF In
    <3>3. QED
      BY <1>3, <3>1, <3>2
  <2>5. QED
    BY <1>1, <1>2, <1>3, <2>1, <2>2, <2>3, <2>4, PatchElsewhere
<1>7. /\ L2 \in Header
      /\ L2.head = IF j > 0 THEN ls[l].head ELSE After(w, k, ms, 0)
      /\ L2.tail = IF k < Len(w) THEN ls[l].tail ELSE IF Len(ms) > 0 THEN ms[Len(ms)]
                   ELSE IF j > 0 THEN w[j] ELSE NULL
      /\ L2.n = off[l][j] + Len(m) + (Len(S[l]) - off[l][k])
  BY DEF Headed
<1>8. L2.last # NULL => AtCut(L2.last, L2.lastn, n2, o2)
  <2>1. SUFFICES ASSUME L2.last # NULL PROVE AtCut(L2.last, L2.lastn, n2, o2)
    OBVIOUS
  <2>2. CASE \E i \in 1 .. j : L2.last = w[i] /\ L2.lastn = off[l][i - 1]
    <3>1. PICK i \in 1 .. j : L2.last = w[i] /\ L2.lastn = off[l][i - 1]
      BY <2>2
    <3>2. AtCut(w[i], off[l][i - 1], n2, o2)
      BY <1>2, <1>3, CutKept
    <3>3. QED
      BY <3>1, <3>2
  <2>3. CASE Len(ms) > 0 /\ L2.last = ms[1] /\ L2.lastn = off[l][j]
    <3>1. AtCut(ms[1], off[l][j], n2, o2)
      BY <1>2, <1>3, <2>3, CutNew
    <3>2. QED
      BY <2>3, <3>1
  <2>4. QED
    BY <2>1, <2>2, <2>3 DEF Headed, Shortcut
<1>9. Right(L2, h2, n2, Splice(cs[l], j, k, mc), o2, Splice(S[l], off[l][j], off[l][k], m))
  BY <1>1, <1>5, <1>7, <1>8, RightPatch
<1> HIDE DEF w, n2, o2
<1>10. QED
  BY <1>6, <1>9, OneList DEF w

\* What no node, one and two nodes hold.
LEMMA NoPiece == Pieces(<<>>, [i \in 0 .. 0 |-> 0], <<>>)
BY ListAssumption, NoCut DEF Pieces

\* What one node holds.
LEMMA OnePiece ==
  ASSUME NEW c \in Seq(Int), Len(c) \in 1 .. BlockSize
  PROVE  Pieces(<<c>>, [i \in 0 .. 1 |-> IF i = 0 THEN 0 ELSE Len(c)], c)
BY ListAssumption, OneCut DEF Pieces

\* What two nodes hold.
LEMMA TwoPieces ==
  ASSUME NEW c \in Seq(Int), Len(c) \in 1 .. BlockSize, NEW d \in Seq(Int), Len(d) \in 1 .. BlockSize
  PROVE  Pieces(<<c, d>>, [i \in 0 .. 2 |-> IF i = 0 THEN 0 ELSE IF i = 1 THEN Len(c) ELSE Len(c) + Len(d)],
                c \o d)
BY ListAssumption, TwoCuts DEF Pieces

\* The node p gets the elements c, and all else stays.
Edited(h, p, c, next, h2) ==
    /\ DOMAIN h2 = DOMAIN h /\ h2[p] = [items |-> c, next |-> next]
    /\ \A q \in DOMAIN h : q # p => h2[q] = h[q]

\* The ends of the list stay, and the shortcut is at one of the first k nodes.
Kept(L2, L, ns, off, k) ==
    /\ L2 \in Header /\ L2.head = L.head
    /\ L2.last # NULL => \E i \in 1 .. k : L2.last = ns[i] /\ L2.lastn = off[i - 1]

\* A shortcut at ms[1], as one at ns[k], when ms[1] is ns[k].
LEMMA KeptShortcut ==
  ASSUME NEW L2, NEW L, NEW ns, NEW off, NEW k \in Nat, k >= 1, Kept(L2, L, ns, off, k),
         NEW ms, Len(ms) > 0, ms[1] = ns[k]
  PROVE  Shortcut(L2, ns, off, k - 1, ms)
<1>1. SUFFICES ASSUME L2.last # NULL
               PROVE \/ \E i \in 1 .. k - 1 : L2.last = ns[i] /\ L2.lastn = off[i - 1]
                     \/ Len(ms) > 0 /\ L2.last = ms[1] /\ L2.lastn = off[k - 1]
  BY DEF Shortcut
<1>2. PICK i \in 1 .. k : L2.last = ns[i] /\ L2.lastn = off[i - 1]
  BY <1>1 DEF Kept
<1>3. CASE i = k
  BY <1>2, <1>3
<1>4. CASE i # k
  <2>1. i \in 1 .. k - 1
    BY <1>4
  <2>2. QED
    BY <1>2, <2>1
<1>5. QED
  BY <1>3, <1>4

\* The node k of a list gets other elements.
LEMMA WriteNode ==
  ASSUME NEW h, NEW ls, NEW S, NEW ns, NEW cs, NEW off, Layout(h, ls, S, ns, cs, off), NEW l \in Lists,
         NEW k \in 1 .. Len(ns[l]), NEW c \in Seq(Int), Len(c) \in 1 .. BlockSize,
         NEW h2, Edited(h, ns[l][k], c, Follow(ns[l], k), h2),
         NEW L2, Kept(L2, ls[l], ns[l], off[l], k), L2.tail = ls[l].tail,
         L2.n = off[l][k - 1] + Len(c) + (Len(S[l]) - off[l][k])
  PROVE  Sound(h2, [ls EXCEPT ![l] = L2], [S EXCEPT ![l] = Splice(S[l], off[l][k - 1], off[l][k], c)])
<1> DEFINE w == ns[l]
           N == Len(w)
           ms == <<w[k]>>
           mc == <<c>>
           mo == [i \in 0 .. 1 |-> IF i = 0 THEN 0 ELSE Len(c)]
           j == k - 1
<1>1. Right(ls[l], h, w, cs[l], off[l], S[l]) /\ IsFiniteSet(DOMAIN h)
  BY DEF Layout
<1>2. N \in Nat /\ w \in Seq(Nat \ {0}) /\ k \in 0 .. N /\ j \in 0 .. N /\ j <= k /\ k \in Nat /\ j \in Nat
      /\ j + 1 = k
  BY <1>1, ListFacts
<1>3. Links(h, w, cs[l])
  BY <1>1 DEF Right
<1>4. \A a, b \in 1 .. N : w[a] = w[b] => a = b
  BY <1>3 DEF Links
<1>5. NodeAt(h, w, cs[l], off[l], S[l], k)
  BY <1>1, NodeFacts
<1>6. w[k] \in DOMAIN h /\ w[k] \in Nat \ {0}
  BY <1>5 DEF NodeAt, NULL
<1>7. ms \in Seq(Nat \ {0}) /\ Len(ms) = 1 /\ ms[1] = w[k] /\ Len(mc) = 1 /\ mc[1] = c
  BY <1>6
<1>8. Pieces(mc, mo, c)
  BY OnePiece
<1> HIDE DEF ms, mc, mo
<1>9. \A p : In(p, ms) <=> p = w[k]
  BY <1>7 DEF In
<1>10. After(w, k, ms, 0) = w[k] /\ After(w, k, ms, 1) = Follow(w, k)
  BY <1>7 DEF After
<1>11. Rewritten(h, w, cs[l], j, k, ms, mc, h2)
  <2>1. Distinct(ms)
    BY <1>7 DEF Distinct
  <2>2. \A i \in j + 1 .. k : i = k
    BY <1>2
  <2>3. k \in j + 1 .. k
    BY <1>2
  <2>4. \A p : p \in DOMAIN h2 <=> In(p, ms) \/ (p \in DOMAIN h /\ \A i \in j + 1 .. k : p # w[i])
    BY <1>6, <1>9, <2>2, <2>3 DEF Edited
  <2>5. \A a \in 1 .. Len(ms) : h2[ms[a]] = [items |-> mc[a], next |-> After(w, k, ms, a)]
    BY <1>7, <1>10 DEF Edited
  <2>6. ASSUME j > 0 PROVE h2[w[j]] = [items |-> cs[l][j], next |-> After(w, k, ms, 0)]
    <3>1. j \in 1 .. N /\ j # k
      BY <1>2, <2>6
    <3>2. NodeAt(h, w, cs[l], off[l], S[l], j)
      BY <1>1, <3>1, NodeFacts
    <3>3. Follow(w, j) = w[k]
      BY <1>2 DEF Follow
    <3>4. w[j] # w[k]
      BY <1>4, <3>1
    <3>5. h2[w[j]] = h[w[j]]
      BY <3>2, <3>4 DEF Edited, NodeAt
    <3>6. QED
      BY <1>10, <3>2, <3>3, <3>5 DEF NodeAt
  <2>7. \A p \in DOMAIN h : ~In(p, ms) /\ (\A i \in j .. k : i > 0 => p # w[i]) => h2[p] = h[p]
    BY <1>9 DEF Edited
  <2>8. IsFiniteSet(DOMAIN h2)
    BY <1>1 DEF Edited
  <2>9. \A a \in 1 .. Len(ms) : \E i \in j + 1 .. k : ms[a] = w[i]
    BY <1>7, <2>3
  <2>10. QED
    BY <1>7, <2>1, <2>4, <2>5, <2>6, <2>7, <2>8, <2>9 DEF Rewritten
<1>12. Headed(L2, ls[l], w, off[l], S[l], j, k, ms, c)
  <2>1. L2.head = IF j > 0 THEN ls[l].head ELSE After(w, k, ms, 0)
    <3>1. j = 0 => ls[l].head = w[k]
      <4>1. j = 0 => k = 1 /\ 0 < N
        BY <1>2
      <4>2. ls[l].head = Follow(w, 0)
        BY <1>1 DEF Right
      <4>3. QED
        BY <4>1, <4>2 DEF Follow
    <3>2. QED
      BY <3>1, <1>2, <1>10 DEF Kept
  <2>2. L2.tail = IF k < N THEN ls[l].tail ELSE ms[Len(ms)]
    <3>1. ~(k < N) => ls[l].tail = w[k]
      <4>1. ls[l].tail = TailOf(w)
        BY <1>1 DEF Right
      <4>2. ~(k < N) => k = N /\ N # 0
        BY <1>2
      <4>3. QED
        BY <4>1, <4>2 DEF TailOf
    <3>2. QED
      BY <3>1, <1>7
  <2>3. Shortcut(L2, w, off[l], j, ms)
    <3>1. k >= 1 /\ Len(ms) > 0
      BY <1>2, <1>7
    <3>2. QED
      BY <1>2, <1>7, <3>1, KeptShortcut
  <2>4. L2 \in Header
    BY DEF Kept
  <2>5. QED
    BY <1>7, <2>1, <2>2, <2>3, <2>4 DEF Headed
<1> HIDE DEF w, j
<1>13. Sound(h2, [ls EXCEPT ![l] = L2], [S EXCEPT ![l] = Splice(S[l], off[l][j], off[l][k], c)])
  BY <1>2, <1>8, <1>11, <1>12, Rewriting DEF w
<1>14. QED
  BY <1>13 DEF j

\* A part of what a node holds gives way to x.
LEMMA EditNode ==
  ASSUME NEW h, NEW ls, NEW S, NEW ns, NEW cs, NEW off, Layout(h, ls, S, ns, cs, off), NEW l \in Lists,
         NEW k \in 1 .. Len(ns[l]), NEW a \in Nat, NEW b \in Nat, a <= b, b <= Len(cs[l][k]),
         NEW x \in Seq(Int), NEW c, c = Splice(cs[l][k], a, b, x),
         Len(cs[l][k]) + Len(x) - (b - a) \in 1 .. BlockSize,
         NEW h2, Edited(h, ns[l][k], c, Follow(ns[l], k), h2),
         NEW L2, Kept(L2, ls[l], ns[l], off[l], k), L2.tail = ls[l].tail,
         L2.n = Len(S[l]) + Len(x) - (b - a)
  PROVE  Sound(h2, [ls EXCEPT ![l] = L2],
               [S EXCEPT ![l] = Splice(S[l], off[l][k - 1] + a, off[l][k - 1] + b, x)])
<1>1. Right(ls[l], h, ns[l], cs[l], off[l], S[l])
  BY DEF Layout
<1>2. NodeAt(h, ns[l], cs[l], off[l], S[l], k)
  BY <1>1, NodeFacts
<1> DEFINE p == off[l][k - 1]
           q == off[l][k]
           d == cs[l][k]
           s == S[l]
<1>3. p \in Nat /\ q \in Nat /\ q = p + Len(d) /\ d \in Seq(Int) /\ Len(d) \in Nat /\ q <= Len(s) /\ SameFrom(s, p, d)
  BY <1>2 DEF NodeAt
<1>4. s \in Seq(Int) /\ Len(s) \in Nat
  BY <1>1, ListFacts
<1>5. c \in Seq(Int) /\ Len(c) = a + Len(x) + (Len(d) - b)
  <2>1. Splice(d, a, b, x) \in Seq(Int) /\ Spliced(Splice(d, a, b, x), d, a, b, x)
    <3> HIDE DEF d
    <3>1. d \in Seq(Int) /\ b <= Len(d)
      BY <1>3 DEF d
    <3>2. QED
      BY <3>1, SpliceType
  <2>2. c = Splice(d, a, b, x)
    OBVIOUS
  <2>3. QED
    BY <2>1, <2>2 DEF Spliced
<1>6. Splice(s, p, q, c) = Splice(s, p + a, p + b, x)
  <2>1. p <= q
    <3> DEFINE m == Len(d)
    <3>1. p \in Nat /\ q = p + m /\ m \in Nat
      BY <1>3
    <3> HIDE DEF p, q, m
    <3>2. QED
      BY <3>1
  <2> HIDE DEF p, q, s, d
  <2>2. Splice(s, p, q, Splice(d, a, b, x)) = Splice(s, p + a, p + b, x)
    <3>1. b <= Len(d)
      BY DEF d
    <3>2. QED
      BY <1>3, <1>4, <2>1, <3>1, SpliceWithin
  <2>3. QED
    BY <2>2 DEF d
<1>7. Len(c) \in 1 .. BlockSize /\ L2.n = p + Len(c) + (Len(s) - q)
  <2> DEFINE X == Len(x)
             D == Len(d)
             C == Len(c)
             Z == Len(s)
  <2>1. X \in Nat /\ D \in Nat /\ C = a + X + (D - b) /\ Z \in Nat /\ q = p + D /\ p \in Nat /\ q \in Nat
    BY <1>3, <1>4, <1>5
  <2>0. D + X - (b - a) \in 1 .. BlockSize /\ L2.n = Z + X - (b - a) /\ b <= D
    OBVIOUS
  <2> HIDE DEF X, D, C, Z, p, q
  <2>2. C = D + X - (b - a) /\ L2.n = p + C + (Z - q)
    <3>1. C = D + X - (b - a)
      BY <2>1
    <3>2. L2.n = Z + X - (b - a)
      BY <2>0
    <3>3. p + C + (Z - q) = Z + X - (b - a)
      BY <2>1
    <3>4. QED
      BY <3>1, <3>2, <3>3
  <2>3. C \in 1 .. BlockSize
    BY <2>0, <2>2
  <2>4. QED
    BY <2>2, <2>3 DEF C, Z
<1>8. Sound(h2, [ls EXCEPT ![l] = L2], [S EXCEPT ![l] = Splice(S[l], off[l][k - 1], off[l][k], c)])
  BY <1>5, <1>7, WriteNode
<1>9. QED
  BY <1>6, <1>8

\* The shortcut is at one of the first k nodes.
Behind(L2, ns, off, k) == L2.last # NULL => \E i \in 1 .. k : L2.last = ns[i] /\ L2.lastn = off[i - 1]

\* The node r comes after the last one.
Added(h, ns, cs, r, c, h2) ==
    /\ r \in Nat \ {0} /\ r \notin DOMAIN h /\ DOMAIN h2 = DOMAIN h \cup {r}
    /\ h2[r] = [items |-> c, next |-> NULL]
    /\ Len(ns) > 0 => h2[ns[Len(ns)]] = [items |-> cs[Len(ns)], next |-> r]
    /\ \A q \in DOMAIN h : (Len(ns) > 0 => q # ns[Len(ns)]) => h2[q] = h[q]

\* A node is appended to a list.
LEMMA AddNode ==
  ASSUME NEW h, NEW ls, NEW S, NEW ns, NEW cs, NEW off, Layout(h, ls, S, ns, cs, off), NEW l \in Lists,
         NEW c \in Seq(Int), Len(c) \in 1 .. BlockSize, NEW r,
         NEW h2, Added(h, ns[l], cs[l], r, c, h2),
         NEW L2 \in Header, L2.head = IF Len(ns[l]) > 0 THEN ls[l].head ELSE r, L2.tail = r,
         L2.n = Len(S[l]) + Len(c), Behind(L2, ns[l], off[l], Len(ns[l]))
  PROVE  Sound(h2, [ls EXCEPT ![l] = L2], [S EXCEPT ![l] = S[l] \o c])
<1> DEFINE w == ns[l]
           N == Len(w)
           ms == <<r>>
           mc == <<c>>
           mo == [i \in 0 .. 1 |-> IF i = 0 THEN 0 ELSE Len(c)]
<1>1. Right(ls[l], h, w, cs[l], off[l], S[l]) /\ IsFiniteSet(DOMAIN h)
  BY DEF Layout
<1>2. N \in Nat /\ w \in Seq(Nat \ {0}) /\ N \in 0 .. N /\ N <= N /\ off[l][N] = Len(S[l]) /\ S[l] \in Seq(Int)
  BY <1>1, ListFacts
<1>3. /\ r \in Nat \ {0} /\ r \notin DOMAIN h /\ DOMAIN h2 = DOMAIN h \cup {r}
      /\ h2[r] = [items |-> c, next |-> NULL]
      /\ N > 0 => h2[w[N]] = [items |-> cs[l][N], next |-> r]
      /\ \A q \in DOMAIN h : (N > 0 => q # w[N]) => h2[q] = h[q]
  BY DEF Added
<1>4. ms \in Seq(Nat \ {0}) /\ Len(ms) = 1 /\ ms[1] = r /\ Len(mc) = 1 /\ mc[1] = c
  BY <1>3
<1>5. Pieces(mc, mo, c)
  BY OnePiece
<1> HIDE DEF ms, mc, mo
<1>6. \A p : In(p, ms) <=> p = r
  BY <1>4 DEF In
<1>7. After(w, N, ms, 0) = r /\ After(w, N, ms, 1) = NULL
  BY <1>2, <1>4 DEF After, Follow
<1>8. Rewritten(h, w, cs[l], N, N, ms, mc, h2)
  <2>1. Distinct(ms)
    BY <1>4 DEF Distinct
  <2>2. \A i \in N + 1 .. N : FALSE
    BY <1>2
  <2>3. \A a \in 1 .. Len(ms) : ms[a] \notin DOMAIN h
    BY <1>3, <1>4
  <2>4. \A p : p \in DOMAIN h2 <=> In(p, ms) \/ (p \in DOMAIN h /\ \A i \in N + 1 .. N : p # w[i])
    BY <1>3, <1>6, <2>2
  <2>5. \A a \in 1 .. Len(ms) : h2[ms[a]] = [items |-> mc[a], next |-> After(w, N, ms, a)]
    BY <1>3, <1>4, <1>7
  <2>6. N > 0 => h2[w[N]] = [items |-> cs[l][N], next |-> After(w, N, ms, 0)]
    BY <1>3, <1>7
  <2>7. \A p \in DOMAIN h : ~In(p, ms) /\ (\A i \in N .. N : i > 0 => p # w[i]) => h2[p] = h[p]
    <3>1. N \in N .. N
      BY <1>2
    <3>2. QED
      BY <1>3, <3>1
  <2>8. IsFiniteSet(DOMAIN h2)
    BY <1>1, <1>3, FS_AddElement
  <2>9. QED
    BY <1>4, <2>1, <2>3, <2>4, <2>5, <2>6, <2>7, <2>8 DEF Rewritten
<1>9. Headed(L2, ls[l], w, off[l], S[l], N, N, ms, c)
  <2>1. L2.head = IF N > 0 THEN ls[l].head ELSE After(w, N, ms, 0)
    BY <1>7
  <2>2. L2.n = off[l][N] + Len(c) + (Len(S[l]) - off[l][N])
    <3> DEFINE x == Len(S[l])
               y == Len(c)
    <3>1. x \in Nat /\ y \in Nat /\ L2.n = x + y /\ off[l][N] = x
      BY <1>2
    <3> HIDE DEF x, y
    <3>2. L2.n = x + y + (x - x)
      BY <3>1
    <3>3. QED
      BY <3>1, <3>2 DEF x, y
  <2>3. Shortcut(L2, w, off[l], N, ms)
    BY DEF Shortcut, Behind
  <2>4. ~(N < N) /\ Len(ms) > 0 /\ ms[Len(ms)] = r
    BY <1>2, <1>4
  <2>5. QED
    BY <2>1, <2>2, <2>3, <2>4 DEF Headed
<1> HIDE DEF w, N
<1>10. Sound(h2, [ls EXCEPT ![l] = L2], [S EXCEPT ![l] = Splice(S[l], off[l][N], off[l][N], c)])
  BY <1>2, <1>5, <1>8, <1>9, Rewriting DEF w, N
<1>11. Splice(S[l], Len(S[l]), Len(S[l]), c) = S[l] \o c
  BY <1>2, JoinSplices
<1>12. QED
  BY <1>2, <1>10, <1>11

\* The node k of the list is gone.
Dropped(h, ns, cs, k, h2) ==
    /\ DOMAIN h2 = DOMAIN h \ {ns[k]}
    /\ k > 1 => h2[ns[k - 1]] = [items |-> cs[k - 1], next |-> Follow(ns, k)]
    /\ \A q \in DOMAIN h2 : (k > 1 => q # ns[k - 1]) => h2[q] = h[q]

\* A node leaves a list.
LEMMA DropNode ==
  ASSUME NEW h, NEW ls, NEW S, NEW ns, NEW cs, NEW off, Layout(h, ls, S, ns, cs, off), NEW l \in Lists,
         NEW k \in 1 .. Len(ns[l]), NEW h2, Dropped(h, ns[l], cs[l], k, h2),
         NEW L2 \in Header, L2.head = IF k > 1 THEN ls[l].head ELSE Follow(ns[l], k),
         L2.tail = IF k < Len(ns[l]) THEN ls[l].tail ELSE IF k > 1 THEN ns[l][k - 1] ELSE NULL,
         L2.n = off[l][k - 1] + (Len(S[l]) - off[l][k]), Behind(L2, ns[l], off[l], k - 1)
  PROVE  Sound(h2, [ls EXCEPT ![l] = L2], [S EXCEPT ![l] = Splice(S[l], off[l][k - 1], off[l][k], <<>>)])
<1> DEFINE w == ns[l]
           N == Len(w)
           ms == <<>>
           mc == <<>>
           c == <<>>
           mo == [i \in 0 .. 0 |-> 0]
           j == k - 1
<1>1. Right(ls[l], h, w, cs[l], off[l], S[l]) /\ IsFiniteSet(DOMAIN h)
  BY DEF Layout
<1>2. N \in Nat /\ w \in Seq(Nat \ {0}) /\ k \in 0 .. N /\ j \in 0 .. N /\ j <= k /\ k \in Nat /\ j \in Nat
      /\ j + 1 = k /\ (j > 0 <=> k > 1) /\ Len(S[l]) \in Nat /\ off[l][j] \in Nat /\ off[l][k] \in Nat
  <2>1. N \in Nat /\ w \in Seq(Nat \ {0})
    BY <1>1, ListFacts
  <2>2. k \in 0 .. N /\ j \in 0 .. N /\ j <= k /\ k \in Nat /\ j \in Nat /\ j + 1 = k /\ (j > 0 <=> k > 1)
    BY <2>1
  <2>3. QED
    BY <1>1, <2>1, <2>2, ListFacts
<1>3. /\ DOMAIN h2 = DOMAIN h \ {w[k]}
      /\ j > 0 => h2[w[j]] = [items |-> cs[l][j], next |-> Follow(w, k)]
      /\ \A q \in DOMAIN h2 : (j > 0 => q # w[j]) => h2[q] = h[q]
  BY <1>2 DEF Dropped
<1>4. ms \in Seq(Nat \ {0}) /\ Len(ms) = 0 /\ Len(mc) = 0 /\ c \in Seq(Int) /\ Len(c) = 0
  BY EmptySeq
<1>5. Pieces(mc, mo, c)
  BY NoPiece
<1> HIDE DEF ms, mc, mo, c
<1>6. \A p : ~In(p, ms)
  BY <1>4 DEF In
<1>7. After(w, k, ms, 0) = Follow(w, k)
  BY <1>4 DEF After
<1>8. Rewritten(h, w, cs[l], j, k, ms, mc, h2)
  <2>1. Distinct(ms)
    BY <1>4 DEF Distinct
  <2>2. \A i \in j + 1 .. k : i = k
    BY <1>2
  <2>3. k \in j + 1 .. k /\ k \in j .. k /\ k > 0 /\ j \in j .. k
    BY <1>2
  <2>4. \A p : p \in DOMAIN h2 <=> In(p, ms) \/ (p \in DOMAIN h /\ \A i \in j + 1 .. k : p # w[i])
    BY <1>3, <1>6, <2>2, <2>3
  <2>5. \A a \in 1 .. Len(ms) : FALSE
    BY <1>4
  <2>6. j > 0 => h2[w[j]] = [items |-> cs[l][j], next |-> After(w, k, ms, 0)]
    BY <1>3, <1>7
  <2>7. \A p \in DOMAIN h : ~In(p, ms) /\ (\A i \in j .. k : i > 0 => p # w[i]) => h2[p] = h[p]
    BY <1>3, <2>3
  <2>8. IsFiniteSet(DOMAIN h2)
    <3>1. DOMAIN h \ {w[k]} \in SUBSET DOMAIN h
      OBVIOUS
    <3>2. IsFiniteSet(DOMAIN h \ {w[k]})
      BY <1>1, <3>1, FS_Subset
    <3>3. QED
      BY <1>3, <3>2
  <2>9. QED
    BY <1>4, <2>1, <2>4, <2>5, <2>6, <2>7, <2>8 DEF Rewritten
<1>9. Headed(L2, ls[l], w, off[l], S[l], j, k, ms, c)
  <2>1. L2.head = IF j > 0 THEN ls[l].head ELSE After(w, k, ms, 0)
    BY <1>2, <1>7
  <2>2. L2.n = off[l][j] + Len(c) + (Len(S[l]) - off[l][k])
    <3> DEFINE x == Len(S[l])
               y == off[l][k]
               z == off[l][j]
    <3>1. x \in Nat /\ y \in Nat /\ z \in Nat /\ L2.n = z + (x - y)
      BY <1>2
    <3> HIDE DEF x, y, z
    <3>2. L2.n = z + Len(c) + (x - y)
      BY <3>1, <1>4
    <3>3. QED
      BY <3>2 DEF x, y, z
  <2>3. Shortcut(L2, w, off[l], j, ms)
    BY DEF Shortcut, Behind
  <2>4. ~(Len(ms) > 0)
    BY <1>4
  <2>5. L2.tail = IF k < N THEN ls[l].tail ELSE IF j > 0 THEN w[j] ELSE NULL
    BY <1>2
  <2>6. QED
    BY <2>1, <2>2, <2>3, <2>4, <2>5 DEF Headed
<1> HIDE DEF w, j
<1>10. Sound(h2, [ls EXCEPT ![l] = L2], [S EXCEPT ![l] = Splice(S[l], off[l][j], off[l][k], c)])
  BY <1>2, <1>5, <1>8, <1>9, Rewriting DEF w
<1>11. QED
  BY <1>10 DEF j, c

\* The node p of the list gets the elements c, and the node r, the next one or a new
\* one, gets the elements d.
WrittenTwo(h, p, r, c, d, next, h2) ==
    /\ DOMAIN h2 = DOMAIN h \cup {r}
    /\ h2[p] = [items |-> c, next |-> r] /\ h2[r] = [items |-> d, next |-> next]
    /\ \A q \in DOMAIN h : q # p /\ q # r => h2[q] = h[q]

\* Two nodes, the second one new or the next one, get other elements.
LEMMA WriteTwo ==
  ASSUME NEW h, NEW ls, NEW S, NEW ns, NEW cs, NEW off, Layout(h, ls, S, ns, cs, off), NEW l \in Lists,
         NEW k \in 1 .. Len(ns[l]), NEW e \in k .. k + 1, e <= Len(ns[l]), NEW r \in Nat \ {0},
         IF e = k THEN r \notin DOMAIN h ELSE r = ns[l][e],
         NEW c \in Seq(Int), Len(c) \in 1 .. BlockSize, NEW d \in Seq(Int), Len(d) \in 1 .. BlockSize,
         NEW h2, WrittenTwo(h, ns[l][k], r, c, d, Follow(ns[l], e), h2),
         NEW L2, Kept(L2, ls[l], ns[l], off[l], k),
         L2.tail = IF e < Len(ns[l]) THEN ls[l].tail ELSE r,
         L2.n = off[l][k - 1] + (Len(c) + Len(d)) + (Len(S[l]) - off[l][e])
  PROVE  Sound(h2, [ls EXCEPT ![l] = L2], [S EXCEPT ![l] = Splice(S[l], off[l][k - 1], off[l][e], c \o d)])
<1> DEFINE w == ns[l]
           N == Len(w)
           ms == <<w[k], r>>
           mc == <<c, d>>
           m == c \o d
           mo == [i \in 0 .. 2 |-> IF i = 0 THEN 0 ELSE IF i = 1 THEN Len(c) ELSE Len(c) + Len(d)]
           j == k - 1
<1>1. Right(ls[l], h, w, cs[l], off[l], S[l]) /\ IsFiniteSet(DOMAIN h)
  BY DEF Layout
<1>2. N \in Nat /\ w \in Seq(Nat \ {0}) /\ k \in 0 .. N /\ j \in 0 .. N /\ j <= k /\ k \in Nat /\ j \in Nat
      /\ j + 1 = k /\ e \in Nat /\ e \in 1 .. N /\ e \in 0 .. N /\ j <= e /\ (e = k \/ e = k + 1)
  <2>1. N \in Nat /\ w \in Seq(Nat \ {0})
    BY <1>1, ListFacts
  <2>2. k \in 0 .. N /\ j \in 0 .. N /\ j <= k /\ k \in Nat /\ j \in Nat /\ j + 1 = k
    <3>1. k \in 1 .. N
      OBVIOUS
    <3> HIDE DEF N
    <3>2. k \in Nat /\ 1 <= k /\ k <= N /\ N \in Nat
      BY <2>1, <3>1
    <3>3. QED
      BY <3>2
  <2>3. e \in Nat /\ (e = k \/ e = k + 1)
    BY <2>2
  <2>4. e \in 1 .. N /\ e \in 0 .. N /\ j <= e
    BY <2>1, <2>2, <2>3
  <2>5. QED
    BY <2>1, <2>2, <2>3, <2>4
<1>3. Links(h, w, cs[l])
  BY <1>1 DEF Right
<1>4. \A a, b \in 1 .. N : w[a] = w[b] => a = b
  BY <1>3 DEF Links
<1>5. NodeAt(h, w, cs[l], off[l], S[l], k)
  BY <1>1, NodeFacts
<1>6. w[k] \in DOMAIN h /\ w[k] \in Nat \ {0}
  BY <1>5 DEF NodeAt, NULL
<1>7. ms \in Seq(Nat \ {0}) /\ Len(ms) = 2 /\ ms[1] = w[k] /\ ms[2] = r
      /\ Len(mc) = 2 /\ mc[1] = c /\ mc[2] = d
  BY <1>6
<1>8. Pieces(mc, mo, m) /\ Len(m) = Len(c) + Len(d)
  <2>1. Pieces(mc, mo, m)
    BY TwoPieces
  <2>2. Len(m) = Len(c) + Len(d)
    BY ConcatProperties
  <2>3. QED
    BY <2>1, <2>2
<1> HIDE DEF ms, mc, mo, m
<1>9. \A a \in 1 .. Len(ms) : a = 1 \/ a = 2
  BY <1>7
<1>10. 1 \in 1 .. Len(ms) /\ 2 \in 1 .. Len(ms)
  BY <1>7
<1>11. \A p : In(p, ms) <=> p = w[k] \/ p = r
  BY <1>7, <1>9, <1>10 DEF In
<1>12. After(w, e, ms, 0) = w[k] /\ After(w, e, ms, 1) = r /\ After(w, e, ms, 2) = Follow(w, e)
  BY <1>7 DEF After
<1>13. w[k] # r
  <2>1. CASE e = k
    BY <1>6, <2>1
  <2>2. CASE e = k + 1
    <3>1. r = w[e] /\ e # k /\ k \in 1 .. N /\ e \in 1 .. N
      BY <1>2, <2>2
    <3>2. QED
      BY <1>4, <3>1
  <2>3. QED
    BY <2>1, <2>2, <1>2
<1>14. /\ \A i \in j + 1 .. e : w[i] = w[k] \/ w[i] = r
       /\ r \notin DOMAIN h \/ \E i \in j + 1 .. e : r = w[i]
       /\ k \in j + 1 .. e /\ k \in j .. e /\ k > 0
  <2>1. CASE e = k
    <3>1. \A i \in j + 1 .. e : i = k
      BY <1>2, <2>1
    <3>2. k \in j + 1 .. e /\ k \in j .. e /\ k > 0
      BY <1>2, <2>1
    <3>3. QED
      BY <2>1, <3>1, <3>2
  <2>2. CASE e = k + 1
    <3>1. \A i \in j + 1 .. e : i = k \/ i = e
      <4> HIDE DEF j
      <4>1. j \in Int /\ k \in Int /\ e \in Int /\ j + 1 = k
        BY <1>2
      <4>2. QED
        BY <4>1, <2>2
    <3>2. e \in j + 1 .. e /\ r = w[e] /\ k \in j + 1 .. e /\ k \in j .. e /\ k > 0
      BY <1>2, <2>2
    <3>3. QED
      BY <3>1, <3>2
  <2>3. QED
    BY <2>1, <2>2, <1>2
<1>15. Rewritten(h, w, cs[l], j, e, ms, mc, h2)
  <2>1. Distinct(ms)
    BY <1>7, <1>9, <1>13 DEF Distinct
  <2>2. \A a \in 1 .. Len(ms) : ms[a] \notin DOMAIN h \/ \E i \in j + 1 .. e : ms[a] = w[i]
    BY <1>7, <1>9, <1>14
  <2>4. \A p : p \in DOMAIN h2 <=> In(p, ms) \/ (p \in DOMAIN h /\ \A i \in j + 1 .. e : p # w[i])
    BY <1>6, <1>11, <1>14 DEF WrittenTwo
  <2>5. \A a \in 1 .. Len(ms) : h2[ms[a]] = [items |-> mc[a], next |-> After(w, e, ms, a)]
    BY <1>7, <1>9, <1>12 DEF WrittenTwo
  <2>6. ASSUME j > 0 PROVE h2[w[j]] = [items |-> cs[l][j], next |-> After(w, e, ms, 0)]
    <3>1. j \in 1 .. N /\ j # k /\ j # e
      <4> HIDE DEF j, N
      <4>1. j \in Nat /\ j > 0 /\ j <= N /\ N \in Nat /\ j + 1 = k
        BY <1>2, <2>6
      <4>2. j \in 1 .. N /\ j # k /\ j # k + 1
        BY <4>1
      <4>3. e = k \/ e = k + 1
        BY <1>2
      <4>4. QED
        BY <4>2, <4>3, Zenon
    <3>2. NodeAt(h, w, cs[l], off[l], S[l], j)
      BY <1>1, <3>1, NodeFacts
    <3>3. Follow(w, j) = w[k]
      BY <1>2 DEF Follow
    <3>4. w[j] # w[k] /\ w[j] # r
      <4>1. w[j] \in DOMAIN h
        BY <3>2 DEF NodeAt
      <4>2. w[j] # w[k] /\ w[j] # w[e]
        BY <1>2, <1>4, <3>1
      <4>3. QED
        BY <4>1, <4>2
    <3>5. h2[w[j]] = h[w[j]]
      BY <3>2, <3>4 DEF WrittenTwo, NodeAt
    <3>6. QED
      BY <1>12, <3>2, <3>3, <3>5 DEF NodeAt
  <2>7. \A p \in DOMAIN h : ~In(p, ms) /\ (\A i \in j .. e : i > 0 => p # w[i]) => h2[p] = h[p]
    BY <1>11 DEF WrittenTwo
  <2>8. IsFiniteSet(DOMAIN h2)
    BY <1>1, FS_AddElement, SMTT(20) DEF WrittenTwo
  <2>9. QED
    BY <1>7, <2>1, <2>2, <2>4, <2>5, <2>6, <2>7, <2>8 DEF Rewritten
<1>16. Headed(L2, ls[l], w, off[l], S[l], j, e, ms, m)
  <2>1. L2.head = IF j > 0 THEN ls[l].head ELSE After(w, e, ms, 0)
    <3>1. j = 0 => ls[l].head = w[k]
      <4>1. j = 0 => k = 1 /\ 0 < N
        BY <1>2
      <4>2. ls[l].head = Follow(w, 0)
        BY <1>1 DEF Right
      <4>3. QED
        BY <4>1, <4>2 DEF Follow
    <3>2. QED
      BY <3>1, <1>2, <1>12, SMTT(20) DEF Kept
  <2>2. L2.n = off[l][j] + Len(m) + (Len(S[l]) - off[l][e])
    BY <1>8
  <2>3. Shortcut(L2, w, off[l], j, ms)
    <3>1. k >= 1 /\ Len(ms) > 0
      BY <1>2, <1>7
    <3>2. QED
      BY <1>2, <1>7, <3>1, KeptShortcut
  <2>4. L2 \in Header
    BY DEF Kept
  <2>5. QED
    BY <1>7, <2>1, <2>2, <2>3, <2>4 DEF Headed
<1> HIDE DEF w, j
<1>17. Sound(h2, [ls EXCEPT ![l] = L2], [S EXCEPT ![l] = Splice(S[l], off[l][j], off[l][e], m)])
  BY <1>2, <1>8, <1>15, <1>16, Rewriting DEF w
<1>18. QED
  BY <1>17 DEF j, m

\* A node whose elements are assigned.
LEMMA ItemsExcept ==
  ASSUME NEW h, NEW p \in DOMAIN h, NEW c, NEW next, h[p] = [items |-> c, next |-> next], NEW d
  PROVE  Edited(h, p, d, next, [h EXCEPT ![p].items = d])
<1>1. [h[p] EXCEPT !.items = d] = [items |-> d, next |-> next]
  OBVIOUS
<1>2. QED
  BY <1>1 DEF Edited

\* The header and what the shortcut is allowed to be.
LEMMA KeptSame ==
  ASSUME NEW L, NEW h, NEW ns, NEW cs, NEW off, NEW s, Right(L, h, ns, cs, off, s),
         NEW L2 \in Header, L2.last = L.last, L2.lastn = L.lastn
  PROVE  Behind(L2, ns, off, Len(ns))
BY DEF Behind, Right, AtCut

\* bl_append puts v behind the others.
LEMMA AppendSound ==
  ASSUME NEW ls, NEW S, NEW ns, NEW cs, NEW off, Layout(heap, ls, S, ns, cs, off), NEW l \in Lists,
         NEW v \in Int
  PROVE  Sound(BlAppend(ls[l], v)[2], [ls EXCEPT ![l] = BlAppend(ls[l], v)[1]],
               [S EXCEPT ![l] = Append(S[l], v)])
<1> DEFINE L == ls[l]
           w == ns[l]
           N == Len(w)
           c == <<v>>
           r == NewNode
           s == S[l]
<1>1. Right(L, heap, w, cs[l], off[l], s) /\ IsFiniteSet(DOMAIN heap)
  BY DEF Layout
<1>2. N \in Nat /\ w \in Seq(Nat \ {0}) /\ s \in Seq(Int) /\ Len(s) \in Nat /\ L.n = Len(s) /\ off[l][N] = Len(s)
  BY <1>1, ListFacts
<1>3. r \in Nat \ {0} /\ r \notin DOMAIN heap
  BY <1>1, NewNodeFresh
<1>4. c \in Seq(Int) /\ Len(c) = 1 /\ Len(c) \in 1 .. BlockSize
  BY Small
<1>5. L \in Header /\ L.tail = TailOf(w) /\ L.head = Follow(w, 0)
  BY <1>1 DEF Right
<1>6. s \o c = Append(s, v)
  BY <1>2, AppendIsConcat
<1>7. CASE N = 0
  <2> DEFINE L2 == [L EXCEPT !.n = @ + 1, !.tail = r, !.head = r]
             h2 == Write(heap, r, c, NULL)
  <2>1. L.tail = NULL
    BY <1>5, <1>7 DEF TailOf
  <2>2. BlAppend(L, v) = <<L2, h2>>
    BY <2>1, <1>5 DEF BlAppend, Header
  <2>3. L2 \in Header /\ L2.head = r /\ L2.tail = r /\ L2.n = Len(s) + Len(c) /\ L2.last = L.last /\ L2.lastn = L.lastn
    <3>1. r \in Nat /\ L.n + 1 \in Nat /\ L.n + 1 = Len(s) + Len(c)
      BY <1>2, <1>3, <1>4
    <3> HIDE DEF r, s, c, L
    <3>2. QED
      BY <3>1, <1>5 DEF Header
  <2>4. Behind(L2, w, off[l], N)
    BY <1>1, <2>3, KeptSame
  <2>5. Added(heap, w, cs[l], r, c, h2)
    <3>1. ~(Len(w) > 0)
      BY <1>7
    <3>2. \A q \in DOMAIN heap : h2[q] = heap[q]
      BY <1>3 DEF Write
    <3>3. DOMAIN h2 = DOMAIN heap \cup {r} /\ h2[r] = [items |-> c, next |-> NULL]
      BY DEF Write
    <3> HIDE DEF r, c, h2
    <3>4. QED
      BY <1>3, <3>1, <3>2, <3>3 DEF Added
  <2>6. L2.head = IF Len(w) > 0 THEN L.head ELSE r
    BY <1>7, <2>3
  <2> HIDE DEF L2, h2, c, r
  <2>7. Sound(h2, [ls EXCEPT ![l] = L2], [S EXCEPT ![l] = s \o c])
    BY <1>4, <2>3, <2>4, <2>5, <2>6, AddNode, ZenonT(40)
  <2>8. QED
    BY <2>2, <2>7, <1>6
<1>8. ASSUME N > 0
      PROVE /\ N \in 1 .. N /\ L.tail = w[N] /\ w[N] # NULL
            /\ NodeAt(heap, w, cs[l], off[l], s, N) /\ Follow(w, N) = NULL
  <2>1. N \in 1 .. N
    BY <1>2, <1>8
  <2>2. NodeAt(heap, w, cs[l], off[l], s, N)
    BY <1>1, <2>1, NodeFacts
  <2>3. QED
    BY <1>2, <1>5, <1>8, <2>1, <2>2 DEF TailOf, NodeAt, Follow
<1>9. CASE N > 0 /\ Len(heap[L.tail].items) = BlockSize
  <2> DEFINE L2 == [L EXCEPT !.n = @ + 1, !.tail = r]
             h1 == Write(heap, r, c, NULL)
             h2 == [h1 EXCEPT ![L.tail].next = r]
  <2>1. L.tail # NULL /\ L.tail = w[N] /\ NodeAt(heap, w, cs[l], off[l], s, N)
    BY <1>8, <1>9
  <2>2. BlAppend(L, v) = <<L2, h2>>
    BY <2>1, <1>9 DEF BlAppend
  <2>3. L2 \in Header /\ L2.head = L.head /\ L2.tail = r /\ L2.n = Len(s) + Len(c) /\ L2.last = L.last /\ L2.lastn = L.lastn
    <3>1. r \in Nat /\ L.n + 1 \in Nat /\ L.n + 1 = Len(s) + Len(c)
      BY <1>2, <1>3, <1>4
    <3> HIDE DEF r, s, c, L
    <3>2. QED
      BY <3>1, <1>5 DEF Header
  <2>4. Behind(L2, w, off[l], N)
    BY <1>1, <2>3, KeptSame
  <2>5. Added(heap, w, cs[l], r, c, h2)
    <3>1. DOMAIN h1 = DOMAIN heap \cup {r} /\ h1[r] = [items |-> c, next |-> NULL]
          /\ \A q \in DOMAIN heap : h1[q] = heap[q]
      BY <1>3 DEF Write
    <3>2. w[N] \in DOMAIN heap /\ heap[w[N]] = [items |-> cs[l][N], next |-> Follow(w, N)]
      BY <2>1 DEF NodeAt
    <3> HIDE DEF h1, r, c
    <3>3. h2[w[N]] = [items |-> cs[l][N], next |-> r]
      BY <2>1, <3>1, <3>2
    <3>4. \A q \in DOMAIN h1 : q # w[N] => h2[q] = h1[q]
      BY <2>1
    <3>5. DOMAIN h2 = DOMAIN h1
      OBVIOUS
    <3> HIDE DEF h2
    <3>6. r # w[N]
      BY <1>3, <3>2
    <3>7. h2[r] = [items |-> c, next |-> NULL]
      BY <3>1, <3>4, <3>6
    <3>8. \A q \in DOMAIN heap : (N > 0 => q # w[N]) => h2[q] = heap[q]
      BY <1>9, <3>1, <3>4
    <3>9. QED
      BY <1>3, <3>1, <3>3, <3>5, <3>7, <3>8 DEF Added
  <2>6. L2.head = IF Len(w) > 0 THEN L.head ELSE r
    BY <1>9, <2>3
  <2> HIDE DEF L2, h2, c, r
  <2>7. Sound(h2, [ls EXCEPT ![l] = L2], [S EXCEPT ![l] = s \o c])
    BY <1>4, <2>3, <2>4, <2>5, <2>6, AddNode
  <2>8. QED
    BY <2>2, <2>7, <1>6
<1>10. CASE N > 0 /\ Len(heap[L.tail].items) # BlockSize
  <2> DEFINE L2 == [L EXCEPT !.n = @ + 1]
             d == cs[l][N]
             h2 == [heap EXCEPT ![L.tail].items = Append(@, v)]
             e == Len(d)
             y == Append(d, v)
  <2>1. L.tail # NULL /\ L.tail = w[N] /\ NodeAt(heap, w, cs[l], off[l], s, N) /\ N \in 1 .. N
    BY <1>8, <1>10
  <2>2. BlAppend(L, v) = <<L2, h2>>
    BY <2>1, <1>10 DEF BlAppend
  <2>3. L2 \in Header /\ L2.head = L.head /\ L2.tail = L.tail /\ L2.n = Len(s) + 1 /\ L2.last = L.last /\ L2.lastn = L.lastn
    <3>1. L.n + 1 \in Nat /\ L.n + 1 = Len(s) + 1
      BY <1>2
    <3> HIDE DEF s, L
    <3>2. QED
      BY <3>1, <1>5 DEF Header
  <2>4. Behind(L2, w, off[l], N)
    BY <1>1, <2>3, KeptSame
  <2>5. Kept(L2, L, w, off[l], N)
    BY <2>3, <2>4 DEF Kept, Behind
  <2>6. d \in Seq(Int) /\ e \in Nat /\ e \in 1 .. BlockSize /\ e # BlockSize /\ heap[w[N]].items = d
        /\ w[N] \in DOMAIN heap /\ heap[w[N]] = [items |-> d, next |-> Follow(w, N)]
        /\ off[l][N] = off[l][N - 1] + e /\ off[l][N - 1] \in Nat
    BY <1>10, <2>1 DEF NodeAt
  <2>7. y = Splice(d, e, e, c)
    BY <2>6, AppendSplices
  <2>8. h2 = [heap EXCEPT ![w[N]].items = y]
    BY <2>1, <2>6
  <2> HIDE DEF h2, y
  <2>9. Edited(heap, w[N], y, Follow(w, N), h2)
    BY <2>6, <2>8, ItemsExcept
  <2> HIDE DEF L2, c, d
  <2>10. e <= e /\ e <= Len(d) /\ Len(d) + Len(c) - (e - e) \in 1 .. BlockSize
         /\ L2.n = Len(s) + Len(c) - (e - e)
    <3>1. e \in Nat /\ e + 1 - (e - e) = e + 1 /\ Len(s) + 1 - (e - e) = Len(s) + 1 /\ e + 1 \in 1 .. BlockSize
      BY <1>2, <2>6, Small
    <3>2. QED
      BY <3>1, <2>3, <1>4
  <2>11. Sound(h2, [ls EXCEPT ![l] = L2], [S EXCEPT ![l] = Splice(s, off[l][N - 1] + e, off[l][N - 1] + e, c)])
    BY <1>4, <2>1, <2>3, <2>5, <2>6, <2>7, <2>9, <2>10, EditNode DEF d
  <2>12. Splice(s, Len(s), Len(s), c) = s \o c
    BY <1>2, <1>4, JoinSplices
  <2>13. off[l][N - 1] + e = Len(s)
    BY <1>2, <2>6
  <2>14. QED
    <3>1. Splice(s, off[l][N - 1] + e, off[l][N - 1] + e, c) = Append(s, v)
      BY <2>12, <2>13, <1>6 DEF c
    <3>2. Sound(h2, [ls EXCEPT ![l] = L2], [S EXCEPT ![l] = Append(s, v)])
      BY <2>11, <3>1
    <3>3. QED
      BY <2>2, <3>2
<1>11. QED
  BY <1>2, <1>7, <1>9, <1>10

\* The list is longer by one, its tail is t, and its shortcut is not behind node k.
Longer(L2, L, ns, off, s, k, t) == Kept(L2, L, ns, off, k) /\ L2.tail = t /\ L2.n = Len(s) + 1

\* The header after an insertion at element i, found in node k.
LEMMA InsertHeader ==
  ASSUME NEW L, NEW h, NEW ns, NEW cs, NEW off, NEW s, Right(L, h, ns, cs, off, s),
         NEW c, NEW k, NEW i, Found(c, ns, off, k, i), NEW t \in Nat
  PROVE  /\ Longer([Cached(L, c) EXCEPT !.n = @ + 1], L, ns, off, s, k, L.tail)
         /\ Longer([[Cached(L, c) EXCEPT !.n = @ + 1] EXCEPT !.tail = t], L, ns, off, s, k, t)
<1> DEFINE L1 == [Cached(L, c) EXCEPT !.n = @ + 1]
           L2 == [L1 EXCEPT !.tail = t]
<1>1. c[1] \in Nat /\ c[2] \in Nat /\ c[1] = ns[k] /\ c[2] = off[k - 1] /\ k \in 1 .. Len(ns)
  BY FoundCut
<1>2. Len(s) \in Nat /\ L.n = Len(s) /\ L \in Header
  BY ListFacts DEF Right
<1>3. /\ L1 \in Header /\ L1.head = L.head /\ L1.tail = L.tail /\ L1.n = Len(s) + 1
      /\ L1.last = c[1] /\ L1.lastn = c[2]
  <2> DEFINE C == Cached(L, c)
  <2>1. C \in Header /\ C.head = L.head /\ C.tail = L.tail /\ C.n = L.n /\ C.last = c[1] /\ C.lastn = c[2]
    BY <1>1, <1>2 DEF Header, Cached
  <2>2. C.n + 1 \in Nat /\ C.n + 1 = Len(s) + 1
    BY <1>2, <2>1
  <2> HIDE DEF C
  <2>3. /\ [C EXCEPT !.n = @ + 1] \in Header /\ [C EXCEPT !.n = @ + 1].head = C.head
        /\ [C EXCEPT !.n = @ + 1].tail = C.tail /\ [C EXCEPT !.n = @ + 1].n = C.n + 1
        /\ [C EXCEPT !.n = @ + 1].last = C.last /\ [C EXCEPT !.n = @ + 1].lastn = C.lastn
    BY <2>1, <2>2 DEF Header
  <2>4. QED
    BY <2>1, <2>2, <2>3 DEF C
<1> HIDE DEF L1
<1>4. /\ L2 \in Header /\ L2.head = L.head /\ L2.tail = t /\ L2.n = Len(s) + 1
      /\ L2.last = c[1] /\ L2.lastn = c[2]
  BY <1>3 DEF Header
<1>5. k \in 1 .. k
  BY <1>1
<1> HIDE DEF L2
<1>6. Kept(L1, L, ns, off, k) /\ Kept(L2, L, ns, off, k)
  BY <1>1, <1>3, <1>4, <1>5 DEF Kept
<1>7. QED
  BY <1>3, <1>4, <1>6 DEF L1, L2, Longer

\* Two nodes written one after the other.
LEMMA WriteTwice ==
  ASSUME NEW h, NEW p \in DOMAIN h, NEW r, r # p, NEW c, NEW d, NEW next
  PROVE  WrittenTwo(h, p, r, c, d, next, Write(Write(h, r, d, next), p, c, r))
<1> DEFINE h1 == Write(h, r, d, next)
           h2 == Write(h1, p, c, r)
<1>1. DOMAIN h1 = DOMAIN h \cup {r} /\ h1[r] = [items |-> d, next |-> next]
      /\ \A q \in DOMAIN h : q # r => h1[q] = h[q]
  BY DEF Write
<1> HIDE DEF h1
<1>2. DOMAIN h2 = DOMAIN h1 \cup {p} /\ h2[p] = [items |-> c, next |-> r]
      /\ \A q \in DOMAIN h1 : q # p => h2[q] = h1[q]
  BY DEF Write
<1> HIDE DEF h2
<1>3. QED
  BY <1>1, <1>2 DEF WrittenTwo, h1, h2

\* bl_insert puts v before element i, whether its node has room, the next one has, or
\* neither.
LEMMA InsertSound ==
  ASSUME NEW ls, NEW S, NEW ns, NEW cs, NEW off, Layout(heap, ls, S, ns, cs, off), NEW l \in Lists,
         NEW i \in 0 .. Len(S[l]), NEW v \in Int
  PROVE  Sound(BlInsert(ls[l], i, v)[2], [ls EXCEPT ![l] = BlInsert(ls[l], i, v)[1]],
               [S EXCEPT ![l] = InsertAt(S[l], i + 1, v)])
<1> DEFINE L == ls[l]
           w == ns[l]
           N == Len(w)
           s == S[l]
           x == <<v>>
<1>1. Right(L, heap, w, cs[l], off[l], s) /\ IsFiniteSet(DOMAIN heap)
  BY DEF Layout
<1>2. N \in Nat /\ w \in Seq(Nat \ {0}) /\ s \in Seq(Int) /\ Len(s) \in Nat /\ L.n = Len(s) /\ i \in Nat /\ i <= Len(s)
      /\ x \in Seq(Int) /\ Len(x) = 1
  BY <1>1, ListFacts
<1>3. InsertAt(s, i + 1, v) = Splice(s, i, i, x)
  <2>1. i + 1 \in 1 .. Len(s) + 1 /\ (i + 1) - 1 = i
    BY <1>2
  <2>2. InsertAt(s, i + 1, v) = Splice(s, (i + 1) - 1, (i + 1) - 1, x)
    BY <1>2, <2>1, InsertSplices
  <2>3. QED
    BY <2>1, <2>2
<1>4. CASE i = L.n
  <2>1. BlInsert(L, i, v) = BlAppend(L, v)
    BY <1>4 DEF BlInsert
  <2>2. InsertAt(s, i + 1, v) = Append(s, v)
    <3>1. Append(s, v) = Splice(s, Len(s), Len(s), x)
      BY <1>2, AppendSplices
    <3>2. QED
      BY <1>2, <1>3, <1>4, <3>1
  <2>3. QED
    BY <2>1, <2>2, AppendSound
<1>5. CASE i # L.n
  <2> DEFINE c == FindNode(L, i)
             p == c[1]
             q == heap[p].next
             a == i - c[2]
             items == InsertAt(heap[p].items, i - c[2] + 1, v)
             L1 == [Cached(L, c) EXCEPT !.n = @ + 1]
             r == NewNode
             f == Front(items)
             e == Last(items)
  <2>0. i < Len(s)
    BY <1>2, <1>5
  <2>1. PICK k \in 1 .. N : Found(c, w, off[l], k, i)
    BY <1>2, <2>0, FindNodeFinds
  <2> HIDE DEF c
  <2>2. c[1] = w[k] /\ c[2] = off[l][k - 1] /\ NodeAt(heap, w, cs[l], off[l], s, k)
    BY <1>1, <2>1, FoundCut, NodeFacts
  <2> DEFINE b == cs[l][k]
             o == off[l][k - 1]
             z == off[l][k]
  <2>3. /\ b \in Seq(Int) /\ Len(b) \in Nat /\ Len(b) \in 1 .. BlockSize /\ heap[p].items = b
        /\ q = Follow(w, k) /\ w[k] \in DOMAIN heap /\ z = o + Len(b) /\ o \in Nat /\ z \in Nat /\ z <= Len(s)
        /\ SameFrom(s, o, b)
    BY <2>2 DEF NodeAt
  <2>4. a \in 0 .. Len(b) - 1 /\ a \in Nat /\ a <= Len(b) /\ a + 1 \in 1 .. Len(b) + 1 /\ o + a = i /\ a <= a
    <3>1. o <= i /\ i < z /\ c[2] = o
      BY <2>1, <2>2 DEF Found
    <3> DEFINE B == Len(b)
    <3>2. B \in Nat /\ o \in Nat /\ z = o + B /\ a = i - o /\ i \in Nat
      BY <1>2, <2>3, <3>1
    <3> HIDE DEF B, o, z, a
    <3>3. a \in 0 .. B - 1 /\ a \in Nat /\ a <= B /\ a + 1 \in 1 .. B + 1 /\ o + a = i /\ a <= a
      BY <3>1, <3>2
    <3>4. QED
      BY <3>3 DEF B
  <2>5. items = Splice(b, a, a, x) /\ items \in Seq(Int) /\ Len(items) = Len(b) + 1
    <3>1. (a + 1) - 1 = a /\ items = InsertAt(b, a + 1, v)
      BY <2>3, <2>4
    <3>2. InsertAt(b, a + 1, v) = Splice(b, (a + 1) - 1, (a + 1) - 1, x)
      BY <2>3, <2>4, InsertSplices
    <3>3. items = Splice(b, a, a, x)
      BY <3>1, <3>2
    <3> HIDE DEF items, a, b, x
    <3>4. Splice(b, a, a, x) \in Seq(Int) /\ Spliced(Splice(b, a, a, x), b, a, a, x)
      BY <1>2, <2>3, <2>4, SpliceType
    <3>5. Len(Splice(b, a, a, x)) = a + Len(x) + (Len(b) - a)
      BY <3>4 DEF Spliced
    <3>6. a + 1 + (Len(b) - a) = Len(b) + 1
      BY <2>3, <2>4
    <3>7. QED
      BY <3>3, <3>4, <3>5, <3>6, <1>2
  <2>6. Splice(s, o, z, items) = Splice(s, i, i, x)
    <3>1. z <= Len(s) /\ o <= z
      BY <2>3
    <3> HIDE DEF items, a, b, x, s, o, z
    <3>2. /\ s \in Seq(Int) /\ b \in Seq(Int) /\ x \in Seq(Int) /\ z = o + Len(b) /\ SameFrom(s, o, b)
          /\ o \in Nat /\ z \in Nat /\ a \in Nat /\ a <= a /\ a <= Len(b)
      BY <1>2, <2>3, <2>4
    <3>3. Splice(s, o, z, Splice(b, a, a, x)) = Splice(s, o + a, o + a, x)
      BY <3>1, <3>2, SpliceWithin
    <3>4. QED
      BY <2>4, <2>5, <3>3
  <2>7. r \in Nat \ {0} /\ r \notin DOMAIN heap /\ r # w[k] /\ r \in Nat
    BY <1>1, <2>3, NewNodeFresh
  <2>8. /\ Kept(L1, L, w, off[l], k) /\ L1.tail = L.tail /\ L1.n = Len(s) + 1
        /\ Kept([L1 EXCEPT !.tail = r], L, w, off[l], k) /\ [L1 EXCEPT !.tail = r].tail = r
        /\ [L1 EXCEPT !.tail = r].n = Len(s) + 1
    <3> HIDE DEF r
    <3>1. Longer(L1, L, w, off[l], s, k, L.tail) /\ Longer([L1 EXCEPT !.tail = r], L, w, off[l], s, k, r)
      BY <1>1, <2>1, <2>7, InsertHeader
    <3> HIDE DEF L1
    <3>2. QED
      BY <3>1 DEF Longer
  <2> HIDE DEF L1, items, a
  <2>9. CASE Len(items) <= BlockSize
    <3> DEFINE h2 == Write(heap, p, items, q)
    <3>1. BlInsert(L, i, v) = <<L1, h2>>
      BY <1>5, <2>9 DEF BlInsert, L1, items, c
    <3>2. Edited(heap, w[k], items, Follow(w, k), h2)
      <4>1. p \in DOMAIN heap /\ p = w[k] /\ q = Follow(w, k)
        BY <2>2, <2>3
      <4> HIDE DEF p, q
      <4>2. DOMAIN h2 = DOMAIN heap \cup {p} /\ h2[p] = [items |-> items, next |-> q]
            /\ \A y \in DOMAIN heap : y # p => h2[y] = heap[y]
        BY DEF Write
      <4> HIDE DEF h2
      <4>3. QED
        BY <4>1, <4>2 DEF Edited
    <3> HIDE DEF h2
    <3>3. Len(items) \in 1 .. BlockSize /\ L1.n = o + Len(items) + (Len(s) - z)
      <4> DEFINE I == Len(items)
                 B == Len(b)
                 Z == Len(s)
      <4>1. I = B + 1 /\ B \in Nat /\ Z \in Nat /\ z = o + B /\ o \in Nat /\ L1.n = Z + 1 /\ I <= BlockSize
            /\ BlockSize \in Nat
        BY <1>2, <2>3, <2>5, <2>8, <2>9, Small
      <4> HIDE DEF I, B, Z, z, o
      <4>2. I \in 1 .. BlockSize /\ L1.n = o + I + (Z - z)
        BY <4>1
      <4>3. QED
        BY <4>2 DEF I, Z
    <3>4. Sound(h2, [ls EXCEPT ![l] = L1], [S EXCEPT ![l] = Splice(s, o, z, items)])
      BY <2>5, <2>8, <3>2, <3>3, WriteNode
    <3>5. Sound(h2, [ls EXCEPT ![l] = L1], [S EXCEPT ![l] = InsertAt(s, i + 1, v)])
      BY <1>3, <2>6, <3>4
    <3>6. QED
      BY <3>1, <3>5
  <2>10. ASSUME ~(Len(items) <= BlockSize)
         PROVE  /\ Len(b) = BlockSize /\ Len(items) = BlockSize + 1
                /\ f \in Seq(Int) /\ Len(f) = BlockSize /\ Len(f) \in 1 .. BlockSize /\ e \in Int
                /\ f \o <<e>> = items /\ \A d \in Seq(Int) : f \o (<<e>> \o d) = items \o d
    <3>1. BlockSize \in Nat /\ Len(b) \in 1 .. BlockSize /\ Len(items) = Len(b) + 1
      BY <2>3, <2>5, Small
    <3>2. Len(b) = BlockSize /\ Len(items) = BlockSize + 1 /\ Len(items) >= 1 /\ Len(items) - 1 = BlockSize
          /\ BlockSize \in 1 .. BlockSize
      BY <3>1, <2>10
    <3>3. /\ f \in Seq(Int) /\ Len(f) = Len(items) - 1 /\ e \in Int /\ f \o <<e>> = items
          /\ Rejoins(Int, items)
      BY <2>5, <3>2, FrontAndLast
    <3>0. \A d \in Seq(Int) : f \o (<<e>> \o d) = items \o d
      BY <3>3 DEF Rejoins
    <3> HIDE DEF f, e
    <3>4. QED
      BY <3>0, <3>2, <3>3
  <2> HIDE DEF f, e
  <2>11. CASE ~(Len(items) <= BlockSize) /\ q # NULL /\ Len(heap[q].items) < BlockSize
    <3> DEFINE d == cs[l][k + 1]
               d2 == <<e>> \o d
               h2 == Write(Write(heap, q, <<e>> \o heap[q].items, heap[q].next), p, f, q)
               y == off[l][k + 1]
    <3>1. BlInsert(L, i, v) = <<L1, h2>>
      BY <1>5, <2>11 DEF BlInsert, L1, items, c, f, e
    <3>2. k + 1 \in 1 .. N /\ q = w[k + 1] /\ k + 1 \in k .. k + 1 /\ k + 1 <= N /\ (k + 1) - 1 = k
      BY <1>2, <2>3, <2>11 DEF Follow
    <3>3. NodeAt(heap, w, cs[l], off[l], s, k + 1)
      BY <1>1, <3>2, NodeFacts
    <3>4. /\ d \in Seq(Int) /\ Len(d) \in Nat /\ Len(d) \in 1 .. BlockSize /\ Len(d) < BlockSize
          /\ heap[q].items = d /\ heap[q].next = Follow(w, k + 1) /\ y = z + Len(d) /\ y <= Len(s)
          /\ SameFrom(s, z, d) /\ y \in Nat
      BY <2>11, <3>2, <3>3 DEF NodeAt
    <3>5. w[k + 1] # w[k] /\ q \in Nat \ {0}
      <4>1. Links(heap, w, cs[l])
        BY <1>1 DEF Right
      <4>2. \A g, j \in 1 .. N : w[g] = w[j] => g = j
        BY <4>1 DEF Links
      <4>3. k + 1 # k
        OBVIOUS
      <4>4. q \in Nat \ {0}
        BY <3>2, <3>3 DEF NodeAt, NULL
      <4>5. QED
        BY <3>2, <4>2, <4>3, <4>4
    <3>6. WrittenTwo(heap, w[k], q, f, d2, Follow(w, k + 1), h2)
      <4>1. h2 = Write(Write(heap, q, d2, Follow(w, k + 1)), w[k], f, q)
        BY <2>2, <3>4
      <4> HIDE DEF h2, d2, q
      <4>2. q # w[k]
        BY <3>2, <3>5
      <4>3. QED
        BY <2>3, <4>1, <4>2, WriteTwice
    <3>7. d2 \in Seq(Int) /\ Len(d2) = 1 + Len(d) /\ Len(d2) \in 1 .. BlockSize /\ f \o d2 = items \o d
      <4>1. <<e>> \in Seq(Int) /\ Len(<<e>>) = 1
        BY <2>10, <2>11
      <4>2. d2 \in Seq(Int) /\ Len(d2) = 1 + Len(d)
        BY <3>4, <4>1, ConcatProperties
      <4>3. Len(d2) \in 1 .. BlockSize
        BY <3>4, <4>2, Small
      <4>4. QED
        BY <2>10, <2>11, <3>4, <4>2, <4>3
    <3> HIDE DEF h2, d2
    <3>8. L1.n = o + (Len(f) + Len(d2)) + (Len(s) - y)
      <4> DEFINE B == Len(b)
                 Z == Len(s)
                 F == Len(f)
                 D == Len(d)
                 D2 == Len(d2)
      <4>1. F = B /\ B \in Nat /\ Z \in Nat /\ D \in Nat /\ z = o + B /\ o \in Nat /\ L1.n = Z + 1
            /\ y = z + D /\ D2 = 1 + D
        BY <1>2, <2>3, <2>8, <2>10, <2>11, <3>4, <3>7
      <4> HIDE DEF F, B, Z, z, o, y, D, D2
      <4>2. L1.n = o + (F + D2) + (Z - y)
        BY <4>1
      <4>3. QED
        BY <4>2 DEF F, D2, Z
    <3>9. Splice(s, o, y, f \o d2) = Splice(s, o, z, items)
      <4>1. o <= z
        BY <2>3
      <4>0. s \in Seq(Int) /\ o \in Nat /\ z \in Nat /\ items \in Seq(Int) /\ d \in Seq(Int) /\ SameFrom(s, z, d)
            /\ y = z + Len(d) /\ y <= Len(s)
        BY <1>2, <2>3, <2>5, <3>4
      <4> HIDE DEF s, o, y, z, d
      <4>2. Splice(s, o, z + Len(d), items \o d) = Splice(s, o, z, items)
        BY <4>0, <4>1, SpliceKeeps
      <4>3. QED
        BY <3>7, <4>0, <4>2
    <3>10. IF k + 1 = k THEN q \notin DOMAIN heap ELSE q = w[k + 1]
      <4>1. k + 1 # k
        OBVIOUS
      <4>2. QED
        BY <3>2, <4>1
    <3>11. L1.tail = IF k + 1 < N THEN L.tail ELSE q
      <4>1. CASE k + 1 < N
        BY <2>8, <4>1
      <4>2. CASE ~(k + 1 < N)
        <5>1. k + 1 = N /\ N # 0
          BY <1>2, <3>2, <4>2
        <5>2. L.tail = w[N]
          BY <1>1, <5>1 DEF Right, TailOf
        <5>3. QED
          BY <2>8, <3>2, <4>2, <5>1, <5>2
      <4>3. QED
        BY <4>1, <4>2
    <3> HIDE DEF q
    <3>12. Sound(h2, [ls EXCEPT ![l] = L1], [S EXCEPT ![l] = Splice(s, o, y, f \o d2)])
      BY <2>8, <2>10, <2>11, <3>2, <3>5, <3>6, <3>7, <3>8, <3>10, <3>11, WriteTwo
    <3>13. Sound(h2, [ls EXCEPT ![l] = L1], [S EXCEPT ![l] = InsertAt(s, i + 1, v)])
      BY <1>3, <2>6, <3>9, <3>12
    <3>14. QED
      BY <3>1, <3>13
  <2>12. CASE ~(Len(items) <= BlockSize) /\ ~(q # NULL /\ Len(heap[q].items) < BlockSize)
    <3> DEFINE d2 == <<e>>
               h2 == Write(Write(heap, r, <<e>>, q), p, f, r)
               L2 == [L1 EXCEPT !.tail = IF q = NULL THEN r ELSE @]
    <3>1. BlInsert(L, i, v) = <<L2, h2>>
      BY <1>5, <2>12 DEF BlInsert, L1, items, c, f, e
    <3>2. Kept(L2, L, w, off[l], k) /\ L2.n = Len(s) + 1 /\ L2.tail = IF k < N THEN L.tail ELSE r
      <4>1. CASE q = NULL
        <5>1. ~(k < N)
          <6>1. k < N => k + 1 \in 1 .. N
            BY <1>2
          <6>2. k < N => w[k + 1] # NULL
            <7>1. SUFFICES ASSUME k < N PROVE w[k + 1] # NULL
              OBVIOUS
            <7>2. NodeAt(heap, w, cs[l], off[l], s, k + 1)
              BY <1>1, <6>1, <7>1, NodeFacts
            <7>3. QED
              BY <7>2 DEF NodeAt
          <6>3. QED
            BY <2>3, <4>1, <6>2 DEF Follow
        <5>2. L2 = [L1 EXCEPT !.tail = r]
          BY <4>1
        <5>3. QED
          BY <2>8, <5>1, <5>2
      <4>2. CASE q # NULL
        <5>1. k < N
          BY <2>3, <4>2 DEF Follow
        <5>2. L2 = [L1 EXCEPT !.tail = L1.tail]
          BY <4>2
        <5>3. L2 = L1
          <6>1. L1 \in Header
            BY <2>8 DEF Kept
          <6>2. QED
            BY <5>2, <6>1 DEF Header
        <5>4. QED
          BY <2>8, <5>1, <5>3
      <4>3. QED
        BY <4>1, <4>2
    <3>3. WrittenTwo(heap, w[k], r, f, d2, Follow(w, k), h2)
      <4>1. h2 = Write(Write(heap, r, d2, Follow(w, k)), w[k], f, r)
        BY <2>2, <2>3
      <4> HIDE DEF h2, d2, r
      <4>2. QED
        BY <2>3, <2>7, <4>1, WriteTwice
    <3>4. d2 \in Seq(Int) /\ Len(d2) = 1 /\ Len(d2) \in 1 .. BlockSize /\ f \o d2 = items
      BY <2>10, <2>12, Small, SMTT(20)
    <3> HIDE DEF h2, d2, L2
    <3>5. L2.n = o + (Len(f) + Len(d2)) + (Len(s) - z)
      <4> DEFINE B == Len(b)
                 Z == Len(s)
                 F == Len(f)
                 D2 == Len(d2)
      <4>1. F = B /\ B \in Nat /\ Z \in Nat /\ z = o + B /\ o \in Nat /\ L2.n = Z + 1 /\ D2 = 1
        BY <1>2, <2>3, <2>10, <2>12, <3>2, <3>4
      <4> HIDE DEF F, B, Z, z, o, D2
      <4>2. L2.n = o + (F + D2) + (Z - z)
        BY <4>1
      <4>3. QED
        BY <4>2 DEF F, D2, Z
    <3>6. k \in k .. k + 1 /\ k <= N /\ IF k = k THEN r \notin DOMAIN heap ELSE r = w[k]
      BY <1>2, <2>7
    <3> HIDE DEF r
    <3>7. Sound(h2, [ls EXCEPT ![l] = L2], [S EXCEPT ![l] = Splice(s, o, z, f \o d2)])
      <4>1. f \in Seq(Int) /\ Len(f) \in 1 .. BlockSize
        BY <2>10, <2>12
      <4>2. Kept(L2, L, w, off[l], k) /\ L2.tail = IF k < N THEN L.tail ELSE r
        BY <3>2
      <4>3. QED
        BY <2>7, <3>3, <3>4, <3>5, <3>6, <4>1, <4>2, WriteTwo
    <3>8. Sound(h2, [ls EXCEPT ![l] = L2], [S EXCEPT ![l] = InsertAt(s, i + 1, v)])
      BY <1>3, <2>6, <3>4, <3>7
    <3>9. QED
      BY <3>1, <3>8 DEF r
  <2>13. QED
    BY <2>9, <2>11, <2>12
<1>6. QED
  BY <1>4, <1>5

-----------------------------------------------------------------------------
(* Removal of an element *)

\* A header without its shortcut.
LEMMA ForgetIs ==
  ASSUME NEW L \in Header
  PROVE  /\ Forget(L) \in Header /\ Forget(L).head = L.head /\ Forget(L).tail = L.tail
         /\ Forget(L).n = L.n /\ Forget(L).last = NULL /\ Forget(L).lastn = 0
BY DEF Forget, Cached, Header, NULL

\* The fields of a header.
LEMMA HeaderTypes ==
  ASSUME NEW L \in Header
  PROVE  L.head \in Nat /\ L.tail \in Nat /\ L.n \in Nat /\ L.last \in Nat /\ L.lastn \in Nat
BY DEF Header

\* The header L2 has these fields, and no shortcut.
Fields(L2, head, tail, n) ==
    L2 \in Header /\ L2.head = head /\ L2.tail = tail /\ L2.n = n /\ L2.last = NULL

\* The headers that the removals leave.
LEMMA FieldsExcept ==
  ASSUME NEW L \in Header, L.last = NULL, NEW n \in Nat, NEW a \in Nat, NEW b \in Nat
  PROVE  /\ Fields([L EXCEPT !.n = n], L.head, L.tail, n)
         /\ Fields([[L EXCEPT !.n = n] EXCEPT !.head = a, !.tail = b], a, b, n)
         /\ Fields([[L EXCEPT !.n = n] EXCEPT !.tail = b], L.head, b, n)
BY DEF Fields, Header, NULL

\* bl_remove_from_node removes the i-th element of the node k, and the node if it was the
\* only one there.
LEMMA RemoveSound ==
  ASSUME NEW ls, NEW S, NEW ns, NEW cs, NEW off, Layout(heap, ls, S, ns, cs, off), NEW l \in Lists,
         NEW k \in 1 .. Len(ns[l]), NEW i \in 1 .. Len(cs[l][k]),
         NEW prev, prev = IF k = 1 THEN NULL ELSE ns[l][k - 1],
         NEW Lh, Lh = RemoveFrom(Forget(ls[l]), ns[l][k], prev, i)
  PROVE  Sound(Lh[2], [ls EXCEPT ![l] = Lh[1]], [S EXCEPT ![l] = RemoveAt(S[l], off[l][k - 1] + i)])
<1> DEFINE L == Forget(ls[l])
           w == ns[l]
           N == Len(w)
           s == S[l]
           p == w[k]
           next == heap[p].next
           L1 == [L EXCEPT !.n = @ - 1]
           d == cs[l][k]
           o == off[l][k - 1]
           z == off[l][k]
           x == <<>>
<1>1. Right(ls[l], heap, w, cs[l], off[l], s) /\ IsFiniteSet(DOMAIN heap)
  BY DEF Layout
<1>2. N \in Nat /\ w \in Seq(Nat \ {0}) /\ s \in Seq(Int) /\ Len(s) \in Nat /\ ls[l].n = Len(s)
  BY <1>1, ListFacts
<1>3. NodeAt(heap, w, cs[l], off[l], s, k)
  BY <1>1, NodeFacts
<1>4. /\ d \in Seq(Int) /\ Len(d) \in Nat /\ Len(d) \in 1 .. BlockSize /\ heap[p].items = d /\ p # NULL
      /\ next = Follow(w, k) /\ p \in DOMAIN heap /\ z = o + Len(d) /\ o \in Nat /\ z \in Nat /\ z <= Len(s)
      /\ heap[p] = [items |-> d, next |-> Follow(w, k)]
  BY <1>3 DEF NodeAt
<1>5. ls[l] \in Header /\ ls[l].tail = TailOf(w) /\ ls[l].head = Follow(w, 0)
  BY <1>1 DEF Right
<1>6. L \in Header /\ L.head = ls[l].head /\ L.tail = ls[l].tail /\ L.n = Len(s) /\ L.last = NULL
  BY <1>2, <1>5, ForgetIs
<1>7. Len(s) - 1 \in Nat /\ o + i \in 1 .. Len(s) /\ (o + i) - 1 = o + (i - 1) /\ i - 1 \in Nat /\ i \in Nat
      /\ i <= Len(d) /\ i - 1 <= i
  <2> DEFINE D == Len(d)
             Z == Len(s)
  <2>1. D \in Nat /\ Z \in Nat /\ z = o + D /\ o \in Nat /\ z <= Z /\ i \in 1 .. D
    BY <1>2, <1>4
  <2> HIDE DEF D, Z, o, z
  <2>2. Z - 1 \in Nat /\ o + i \in 1 .. Z /\ (o + i) - 1 = o + (i - 1) /\ i - 1 \in Nat /\ i \in Nat
        /\ i <= D /\ i - 1 <= i
    BY <2>1
  <2>3. QED
    BY <2>2 DEF D, Z
<1>8. x \in Seq(Int) /\ Len(x) = 0
  BY EmptySeq
<1>9. RemoveAt(s, o + i) = Splice(s, o + (i - 1), o + i, x)
  <2> HIDE DEF o, x
  <2>1. RemoveAt(s, o + i) = Splice(s, (o + i) - 1, o + i, <<>>)
    BY <1>2, <1>7, RemoveSplices
  <2>2. QED
    BY <1>7, <2>1 DEF x
<1> HIDE DEF L
<1>10. Fields(L1, L.head, L.tail, Len(s) - 1)
  <2>1. L1 = [L EXCEPT !.n = Len(s) - 1]
    BY <1>6
  <2>2. QED
    BY <1>6, <1>7, <2>1, FieldsExcept
<1>11. CASE Len(d) > 1
  <2> DEFINE c == RemoveAt(d, i)
             h2 == [heap EXCEPT ![p].items = RemoveAt(@, i)]
  <2>1. Lh = <<L1, h2>>
    BY <1>4, <1>11 DEF RemoveFrom, L
  <2>2. c = Splice(d, i - 1, i, x)
    <3> HIDE DEF d
    <3>1. i \in 1 .. Len(d)
      BY DEF d
    <3>2. QED
      BY <1>4, <3>1, RemoveSplices
  <2>3. Edited(heap, p, c, Follow(w, k), h2)
    <3>1. h2 = [heap EXCEPT ![p].items = c]
      BY <1>4
    <3> HIDE DEF c, h2, p
    <3>2. QED
      BY <1>4, <3>1, ItemsExcept
  <2>4. Kept(L1, ls[l], w, off[l], k) /\ L1.tail = ls[l].tail /\ L1.n = Len(s) - 1
    BY <1>6, <1>10 DEF Fields, Kept
  <2>5. Len(d) + Len(x) - (i - (i - 1)) \in 1 .. BlockSize /\ L1.n = Len(s) + Len(x) - (i - (i - 1))
    <3>1. Len(x) - (i - (i - 1)) = 0 - 1
      BY <1>7, <1>8
    <3>2. Len(d) + Len(x) - (i - (i - 1)) = Len(d) - 1 /\ Len(s) + Len(x) - (i - (i - 1)) = Len(s) - 1
      BY <1>2, <1>4, <1>7, <1>8
    <3>3. Len(d) - 1 \in 1 .. BlockSize
      BY <1>4, <1>11, Small
    <3>4. QED
      BY <2>4, <3>2, <3>3
  <2> HIDE DEF c, h2, L1, x
  <2>6. Sound(h2, [ls EXCEPT ![l] = L1], [S EXCEPT ![l] = Splice(s, o + (i - 1), o + i, x)])
    BY <1>7, <1>8, <2>2, <2>3, <2>4, <2>5, EditNode, ZenonT(40)
  <2>7. Sound(h2, [ls EXCEPT ![l] = L1], [S EXCEPT ![l] = RemoveAt(s, o + i)])
    BY <1>9, <2>6
  <2>8. Lh[1] = L1 /\ Lh[2] = h2
    BY <2>1
  <2>9. QED
    BY <2>7, <2>8
<1>12. ASSUME ~(Len(d) > 1)
       PROVE  /\ Len(d) = 1 /\ i = 1 /\ z = o + 1
              /\ RemoveAt(s, o + i) = Splice(s, o, z, x) /\ Len(s) - 1 = o + (Len(s) - z)
  <2> DEFINE D == Len(d)
             Z == Len(s)
  <2>1. D \in Nat /\ Z \in Nat /\ z = o + D /\ o \in Nat /\ z \in Nat /\ i \in 1 .. D /\ ~(D > 1)
    BY <1>2, <1>4, <1>12
  <2> HIDE DEF D, Z, o, z
  <2>2. D = 1 /\ i = 1
    BY <2>1
  <2>3. z = o + 1 /\ o + (i - 1) = o /\ o + i = z /\ Z - 1 = o + (Z - z)
    BY <2>1, <2>2
  <2>4. RemoveAt(s, o + i) = Splice(s, o, z, x)
    BY <1>9, <2>3 DEF o
  <2>5. QED
    BY <2>2, <2>3, <2>4 DEF D, Z
<1>13. ASSUME NEW j \in 1 .. N PROVE w[j] # NULL /\ w[j] \in Nat /\ w[j] \in DOMAIN heap
  <2>1. NodeAt(heap, w, cs[l], off[l], s, j)
    BY <1>1, NodeFacts
  <2>2. w[j] # NULL /\ w[j] \in DOMAIN heap
    BY <2>1 DEF NodeAt
  <2>3. w[j] \in Nat \ {0}
    BY <1>2, ElementOfSeq
  <2>4. QED
    BY <2>2, <2>3
<1>14. \A a, b \in 1 .. N : w[a] = w[b] => a = b
  <2>1. Links(heap, w, cs[l])
    BY <1>1 DEF Right
  <2>2. QED
    BY <2>1 DEF Links
<1>15. Follow(w, k) \in Nat /\ (Follow(w, k) = NULL <=> ~(k < N))
  <2>1. k < N => k + 1 \in 1 .. N
    BY <1>2
  <2>2. QED
    BY <1>13, <2>1 DEF Follow, NULL
<1>16. CASE ~(Len(d) > 1) /\ k = 1
  <2> DEFINE h2 == Free(heap, {p})
             L2 == [L1 EXCEPT !.head = next, !.tail = IF next = NULL THEN NULL ELSE @]
  <2>1. Lh = <<L2, h2>>
    BY <1>4, <1>16 DEF RemoveFrom, L
  <2>2. Fields(L2, Follow(w, k), IF k < N THEN ls[l].tail ELSE NULL, Len(s) - 1)
    <3> DEFINE t == IF k < N THEN ls[l].tail ELSE NULL
               e == Follow(w, k)
    <3>1. t \in Nat /\ e \in Nat
      BY <1>5, <1>15, HeaderTypes DEF NULL
    <3>2. L2 = [[L EXCEPT !.n = Len(s) - 1] EXCEPT !.head = e, !.tail = t]
      <4>1. L1 = [L EXCEPT !.n = Len(s) - 1] /\ L1.tail = ls[l].tail
        BY <1>6, <1>10 DEF Fields
      <4> HIDE DEF L1
      <4>2. QED
        BY <4>1, <1>4, <1>15
    <3> HIDE DEF L2, t, e
    <3>3. Fields(L2, e, t, Len(s) - 1)
      BY <1>6, <1>7, <3>1, <3>2, FieldsExcept
    <3>4. QED
      BY <3>3 DEF t, e
  <2>3. Dropped(heap, w, cs[l], k, h2)
    <3>1. DOMAIN h2 = DOMAIN heap \ {p} /\ \A q \in DOMAIN h2 : h2[q] = heap[q]
      BY DEF Free
    <3>2. ~(k > 1)
      BY <1>16
    <3> HIDE DEF h2
    <3>3. QED
      BY <3>1, <3>2 DEF Dropped
  <2> HIDE DEF L2, h2
  <2>4. L2 \in Header /\ L2.head = (IF k > 1 THEN ls[l].head ELSE Follow(w, k))
        /\ L2.tail = (IF k < N THEN ls[l].tail ELSE IF k > 1 THEN w[k - 1] ELSE NULL)
        /\ L2.n = o + (Len(s) - z) /\ Behind(L2, w, off[l], k - 1)
    BY <1>12, <1>16, <2>2 DEF Fields, Behind
  <2>5. Sound(h2, [ls EXCEPT ![l] = L2], [S EXCEPT ![l] = Splice(s, o, z, x)])
    BY <2>3, <2>4, DropNode
  <2>6. RemoveAt(s, o + i) = Splice(s, o, z, x)
    BY <1>12, <1>16
  <2>7. Sound(h2, [ls EXCEPT ![l] = L2], [S EXCEPT ![l] = RemoveAt(s, o + i)])
    BY <2>5, <2>6
  <2>8. Lh[1] = L2 /\ Lh[2] = h2
    BY <2>1
  <2>9. QED
    BY <2>7, <2>8
<1>17. CASE ~(Len(d) > 1) /\ k # 1
  <2> DEFINE h1 == [heap EXCEPT ![prev].next = next]
             h2 == Free(h1, {p})
             L2 == [L1 EXCEPT !.tail = IF p = @ THEN prev ELSE @]
  <2>1. k - 1 \in 1 .. N /\ prev = w[k - 1] /\ prev # NULL /\ prev \in Nat /\ prev \in DOMAIN heap /\ k > 1
        /\ k - 1 # k
    <3>1. k - 1 \in 1 .. N /\ k > 1 /\ k - 1 # k
      BY <1>2, <1>17
    <3>2. prev = w[k - 1]
      BY <1>17
    <3>3. QED
      BY <3>1, <3>2, <1>13
  <2>2. Lh = <<L2, h2>>
    BY <1>4, <1>17, <2>1 DEF RemoveFrom, L
  <2>3. (p = ls[l].tail) <=> ~(k < N)
    <3>1. N \in 1 .. N /\ ls[l].tail = w[N]
      BY <1>2, <1>5 DEF TailOf
    <3>2. p = w[N] <=> k = N
      BY <1>14, <3>1
    <3>3. QED
      BY <1>2, <3>1, <3>2
  <2>4. Fields(L2, ls[l].head, IF k < N THEN ls[l].tail ELSE prev, Len(s) - 1)
    <3> DEFINE t == IF k < N THEN ls[l].tail ELSE prev
    <3>1. t \in Nat
      BY <1>5, <2>1, HeaderTypes
    <3>2. L2 = [[L EXCEPT !.n = Len(s) - 1] EXCEPT !.tail = t]
      <4>1. L1 = [L EXCEPT !.n = Len(s) - 1] /\ L1.tail = ls[l].tail
        BY <1>6, <1>10 DEF Fields
      <4> HIDE DEF L1
      <4>2. QED
        BY <4>1, <2>3
    <3> HIDE DEF L2, t
    <3>3. Fields(L2, L.head, t, Len(s) - 1)
      BY <1>6, <1>7, <3>1, <3>2, FieldsExcept
    <3>4. QED
      BY <1>6, <3>3 DEF t
  <2>5. Dropped(heap, w, cs[l], k, h2)
    <3>1. NodeAt(heap, w, cs[l], off[l], s, k - 1)
      BY <1>1, <2>1, NodeFacts
    <3>2. heap[prev] = [items |-> cs[l][k - 1], next |-> Follow(w, k - 1)]
      BY <2>1, <3>1 DEF NodeAt
    <3>3. prev # p
      BY <1>14, <2>1
    <3>4. h1[prev] = [items |-> cs[l][k - 1], next |-> Follow(w, k)] /\ DOMAIN h1 = DOMAIN heap
          /\ \A q \in DOMAIN heap : q # prev => h1[q] = heap[q]
      BY <1>4, <2>1, <3>2, SMTT(20)
    <3> HIDE DEF h1
    <3>5. DOMAIN h2 = DOMAIN h1 \ {p} /\ \A q \in DOMAIN h2 : h2[q] = h1[q]
      BY DEF Free
    <3> HIDE DEF h2
    <3>6. h2[prev] = h1[prev]
      BY <2>1, <3>3, <3>4, <3>5
    <3> HIDE DEF p
    <3>7. QED
      BY <2>1, <3>4, <3>5, <3>6 DEF Dropped, p
  <2> HIDE DEF L2, h2
  <2>6. L2 \in Header /\ L2.head = (IF k > 1 THEN ls[l].head ELSE Follow(w, k))
        /\ L2.tail = (IF k < N THEN ls[l].tail ELSE IF k > 1 THEN w[k - 1] ELSE NULL)
        /\ L2.n = o + (Len(s) - z) /\ Behind(L2, w, off[l], k - 1)
    BY <1>12, <1>17, <2>1, <2>4 DEF Fields, Behind
  <2>7. Sound(h2, [ls EXCEPT ![l] = L2], [S EXCEPT ![l] = Splice(s, o, z, x)])
    BY <2>5, <2>6, DropNode
  <2>8. RemoveAt(s, o + i) = Splice(s, o, z, x)
    BY <1>12, <1>17
  <2>9. Sound(h2, [ls EXCEPT ![l] = L2], [S EXCEPT ![l] = RemoveAt(s, o + i)])
    BY <2>7, <2>8
  <2>10. Lh[1] = L2 /\ Lh[2] = h2
    BY <2>2
  <2>11. QED
    BY <2>9, <2>10
<1>18. QED
  BY <1>11, <1>16, <1>17

\* bl_remove_index removes element i.
LEMMA RemoveIndexSound ==
  ASSUME NEW ls, NEW S, NEW ns, NEW cs, NEW off, Layout(heap, ls, S, ns, cs, off), NEW l \in Lists,
         NEW i \in Nat, i < Len(S[l])
  PROVE  Sound(BlRemoveIndex(ls[l], i)[2], [ls EXCEPT ![l] = BlRemoveIndex(ls[l], i)[1]],
               [S EXCEPT ![l] = RemoveAt(S[l], i + 1)])
<1> DEFINE c == Walk(<<ls[l].head, 0>>, i)
           prev == Previous(ls[l], c[1])
           j == i - c[2] + 1
           Lh == RemoveFrom(Forget(ls[l]), c[1], prev, j)
<1>1. Right(ls[l], heap, ns[l], cs[l], off[l], S[l])
  BY DEF Layout
<1>2. PICK k \in 1 .. Len(ns[l]) : Found(c, ns[l], off[l], k, i)
  BY FindNodeFinds
<1>3. BlRemoveIndex(ls[l], i) = Lh
  BY DEF BlRemoveIndex
<1> HIDE DEF c
<1>4. c[1] = ns[l][k] /\ c[2] = off[l][k - 1] /\ c[2] \in Nat
  BY <1>1, <1>2, FoundCut
<1>5. j \in 1 .. Len(cs[l][k])
  BY <1>1, <1>2, ElementIs
<1>6. off[l][k - 1] + j = i + 1
  BY <1>4
<1>7. prev = IF k = 1 THEN NULL ELSE ns[l][k - 1]
  BY <1>4, PreviousIs
<1>8. Lh = RemoveFrom(Forget(ls[l]), ns[l][k], prev, j)
  BY <1>4
<1> HIDE DEF j, prev, Lh
<1>9. Sound(Lh[2], [ls EXCEPT ![l] = Lh[1]], [S EXCEPT ![l] = RemoveAt(S[l], off[l][k - 1] + j)])
  BY <1>5, <1>7, <1>8, RemoveSound
<1>10. QED
  BY <1>3, <1>6, <1>9

-----------------------------------------------------------------------------
(* The operations on elements, by index *)

\* The list l gets the header and the heap Lh, and then holds s.
LEMMA Becomes ==
  ASSUME NEW S, NEW l \in Lists, NEW Lh, Become(l, Lh), NEW s,
         Sound(Lh[2], [lists EXCEPT ![l] = Lh[1]], [S EXCEPT ![l] = s])
  PROVE  Sound(heap', lists', [S EXCEPT ![l] = s])
BY DEF Become

\* The same for a header and a heap given apart.
LEMMA BecomesPair ==
  ASSUME NEW S, NEW l \in Lists, NEW L2, NEW h2, Become(l, <<L2, h2>>), NEW s,
         Sound(h2, [lists EXCEPT ![l] = L2], [S EXCEPT ![l] = s])
  PROVE  Sound(heap', lists', [S EXCEPT ![l] = s])
<1>1. lists' = [lists EXCEPT ![l] = L2] /\ heap' = h2
  BY DEF Become
<1>2. QED
  BY <1>1

\* To write what is there changes nothing.
LEMMA SameSeqs ==
  ASSUME NEW S \in [Lists -> Seq(Int)], NEW l \in Lists
  PROVE  [S EXCEPT ![l] = S[l]] = S
OBVIOUS

\* Only the shortcut moves, to where an element was found.
LEMMA CacheSound ==
  ASSUME NEW h, NEW ls, NEW S, NEW ns, NEW cs, NEW off, Layout(h, ls, S, ns, cs, off), NEW l \in Lists,
         NEW c, NEW k, NEW i, Found(c, ns[l], off[l], k, i)
  PROVE  Sound(h, [ls EXCEPT ![l] = Cached(ls[l], c)], S)
<1>1. Right(ls[l], h, ns[l], cs[l], off[l], S[l])
  BY DEF Layout
<1>2. c[1] \in Nat /\ c[2] \in Nat /\ AtCut(c[1], c[2], ns[l], off[l])
  BY <1>1, FoundCut
<1>3. Layout(h, [ls EXCEPT ![l] = Cached(ls[l], c)], S, ns, cs, off)
  BY <1>2, CacheLayout
<1>4. QED
  BY <1>3 DEF Sound

\* bl_get and bl_access read the element and move the shortcut to its node.
LEMMA GetSound ==
  ASSUME NEW S, NEW ns, NEW cs, NEW off, Layout(heap, lists, S, ns, cs, off), NEW l \in Lists,
         NEW i \in Nat, i < Len(S[l]), Get(l, i)
  PROVE  Sound(heap', lists', S) /\ result' = <<S[l][i + 1]>>
<1> DEFINE c == FindNode(lists[l], i)
<1>1. Right(lists[l], heap, ns[l], cs[l], off[l], S[l])
  BY DEF Layout
<1>2. PICK k \in 1 .. Len(ns[l]) : Found(c, ns[l], off[l], k, i)
  BY FindNodeFinds
<1>3. heap' = heap /\ lists' = [lists EXCEPT ![l] = Cached(lists[l], c)] /\ result' = <<Element(c, i)>>
  BY DEF Get, Become
<1> HIDE DEF c
<1>4. Sound(heap, [lists EXCEPT ![l] = Cached(lists[l], c)], S)
  BY <1>2, CacheSound
<1>5. Element(c, i) = S[l][i + 1]
  BY <1>1, <1>2, ElementIs
<1>6. QED
  BY <1>3, <1>4, <1>5

\* bl_copy reads length elements, and leaves the shortcut behind the last of them.
LEMMA CopySound ==
  ASSUME NEW S, NEW ns, NEW cs, NEW off, Layout(heap, lists, S, ns, cs, off), NEW l \in Lists,
         NEW i \in Nat, NEW n \in Nat, Copy(l, i, n)
  PROVE  Sound(heap', lists', S) /\ result' = SubSeq(S[l], i + 1, i + n) /\ n \in 1 .. Len(S[l]) - i
<1> DEFINE L == lists[l]
           w == ns[l]
           N == Len(w)
           s == S[l]
           Z == Len(s)
           e == i + n - 1
           c == FindNode(L, i)
           d == Walk(c, e)
           a == <<heap[d[1]].next, d[2] + Len(heap[d[1]].items)>>
<1>1. Right(L, heap, w, cs[l], off[l], s)
  BY DEF Layout
<1>2. N \in Nat /\ s \in Seq(Int) /\ Z \in Nat /\ L.n = Z /\ w \in Seq(Nat \ {0})
  BY <1>1, ListFacts
<1>3. n > 0 /\ i + n <= L.n /\ heap' = heap /\ lists' = [lists EXCEPT ![l] = Cached(L, a)]
      /\ result' = SubSeq(Items(heap, c[1]), i - c[2] + 1, i - c[2] + n)
  BY DEF Copy, Become
<1>4. n \in 1 .. Z - i /\ i < Z /\ e \in Nat /\ e < Z /\ i <= e /\ i + n <= Z
  BY <1>2, <1>3
<1>5. PICK j \in 1 .. N : Found(c, w, off[l], j, i)
  BY <1>4, FindNodeFinds
<1>6. c = <<w[j], off[l][j - 1]>> /\ off[l][j - 1] <= i /\ off[l][j - 1] \in Nat
  <2>1. c = <<w[j], off[l][j - 1]>> /\ off[l][j - 1] <= i
    BY <1>5 DEF Found
  <2>2. c[2] \in Nat
    BY <1>1, <1>5, FoundCut
  <2> HIDE DEF c
  <2>3. QED
    BY <2>1, <2>2
<1>7. PICK k \in 1 .. N : Found(FindNode(L, e), w, off[l], k, e)
  BY <1>4, FindNodeFinds
<1>8. off[l][k - 1] <= e /\ e < off[l][k]
  BY <1>7 DEF Found
<1>9. d = <<w[k], off[l][k - 1]>>
  <2>1. off[l][j - 1] <= e
    BY <1>4, <1>6
  <2> HIDE DEF e, c
  <2>2. Walk(<<w[j], off[l][j - 1]>>, e) = <<w[k], off[l][k - 1]>>
    BY <1>4, <1>8, <2>1, WalkFinds
  <2>3. QED
    BY <1>6, <2>2
<1>10. NodeAt(heap, w, cs[l], off[l], s, k) /\ NodeAt(heap, w, cs[l], off[l], s, j)
  BY <1>1, NodeFacts
<1>11. a = <<Follow(w, k), off[l][k]>> /\ off[l][k] \in Nat
  <2>1. d[1] = w[k] /\ d[2] = off[l][k - 1]
    BY <1>9
  <2> HIDE DEF d
  <2>2. heap[d[1]].next = Follow(w, k) /\ d[2] + Len(heap[d[1]].items) = off[l][k] /\ off[l][k] \in Nat
    BY <1>10, <2>1 DEF NodeAt
  <2>3. QED
    BY <2>2
<1>12. Follow(w, k) \in Nat /\ (Follow(w, k) # NULL => AtCut(Follow(w, k), off[l][k], w, off[l]))
  <2>1. CASE k < N
    <3>1. k + 1 \in 1 .. N /\ (k + 1) - 1 = k
      BY <1>2, <2>1
    <3>2. w[k + 1] \in Nat
      BY <1>2, <3>1, ElementOfSeq
    <3>3. Follow(w, k) = w[k + 1]
      BY <2>1 DEF Follow
    <3>4. QED
      BY <3>1, <3>2, <3>3 DEF AtCut
  <2>2. CASE ~(k < N)
    BY <2>2 DEF Follow, NULL
  <2>3. QED
    BY <2>1, <2>2
<1> HIDE DEF a
<1>13. Layout(heap, [lists EXCEPT ![l] = Cached(L, a)], S, ns, cs, off)
  <2>1. a[1] = Follow(w, k) /\ a[2] = off[l][k]
    BY <1>11
  <2>2. a[1] \in Nat /\ a[2] \in Nat /\ (a[1] # NULL => AtCut(a[1], a[2], w, off[l]))
    BY <1>11, <1>12, <2>1
  <2>3. QED
    BY <2>2, CacheLayout
<1>14. Sound(heap', lists', S)
  BY <1>3, <1>13 DEF Sound
<1>15. Items(heap, c[1]) = Rest(s, off[l][j - 1])
  <2>1. j - 1 \in 0 .. N /\ c[1] = Follow(w, j - 1)
    <3>1. j - 1 \in 0 .. N /\ j - 1 < N /\ (j - 1) + 1 = j
      BY <1>2
    <3>2. QED
      BY <1>6, <3>1 DEF Follow
  <2>2. QED
    BY <2>1, ItemsAt
<1>16. result' = SubSeq(s, i + 1, i + n)
  <2> DEFINE o == off[l][j - 1]
             f == i - o
  <2>1. o \in Nat /\ f \in Nat /\ o + f = i
    BY <1>6, SMTT(20)
  <2>2. result' = SubSeq(Rest(s, o), f + 1, f + n)
    <3>1. c[2] = o
      BY <1>6
    <3> HIDE DEF c, o
    <3>2. QED
      BY <1>3, <1>15, <3>1 DEF o
  <2> HIDE DEF o, f
  <2>3. (o + f) + n <= Len(s)
    BY <1>4, <2>1
  <2>4. PartAt(s, o, f, n)
    BY <1>2, <2>1, <2>3, PartOfRest
  <2>5. QED
    BY <2>1, <2>2, <2>4 DEF PartAt
<1>17. QED
  BY <1>4, <1>14, <1>16

\* bl_set writes the element in its node.
LEMMA SetSound ==
  ASSUME NEW S, NEW ns, NEW cs, NEW off, Layout(heap, lists, S, ns, cs, off), NEW l \in Lists,
         NEW i \in Nat, i < Len(S[l]), NEW v \in Int, Set(l, i, v)
  PROVE  Sound(heap', lists', [S EXCEPT ![l] = ReplaceAt(S[l], i + 1, v)]) /\ result' = <<>>
<1> DEFINE L == lists[l]
           w == ns[l]
           s == S[l]
           c == FindNode(L, i)
           L2 == Cached(L, c)
           e == i - c[2] + 1
           x == <<v>>
           h2 == [heap EXCEPT ![c[1]].items[i - c[2] + 1] = v]
<1>1. Right(L, heap, w, cs[l], off[l], s)
  BY DEF Layout
<1>2. PICK k \in 1 .. Len(w) : Found(c, w, off[l], k, i)
  BY FindNodeFinds
<1>3. heap' = h2 /\ lists' = [lists EXCEPT ![l] = L2] /\ result' = <<>>
  BY DEF Set, Become
<1>4. NodeAt(heap, w, cs[l], off[l], s, k)
  BY <1>1, NodeFacts
<1> DEFINE p == w[k]
           d == cs[l][k]
           o == off[l][k - 1]
           b == [d EXCEPT ![e] = v]
<1>5. c[1] = p /\ c[2] = o /\ o \in Nat
  <2> HIDE DEF c
  <2>1. QED
    BY <1>1, <1>2, FoundCut
<1>6. e \in 1 .. Len(d)
  <2> HIDE DEF c
  <2>1. QED
    BY <1>1, <1>2, ElementIs
<1>7. d \in Seq(Int) /\ p \in DOMAIN heap /\ heap[p] = [items |-> d, next |-> Follow(w, k)]
      /\ Len(d) \in 1 .. BlockSize /\ Len(d) \in Nat
  BY <1>4 DEF NodeAt
<1>8. Edited(heap, p, b, Follow(w, k), h2)
  <2>1. h2 = [heap EXCEPT ![p].items = b]
    BY <1>5, <1>7
  <2> HIDE DEF h2, b, p
  <2>2. QED
    BY <1>7, <2>1, ItemsExcept
<1>9. b = Splice(d, e - 1, e, x)
  <2> HIDE DEF d, e
  <2>1. QED
    BY <1>6, <1>7, ExceptSplices, SMTT(20)
<1>10. x \in Seq(Int) /\ Len(x) = 1
  OBVIOUS
<1>11. e \in Nat /\ e - 1 \in Nat /\ e - 1 <= e /\ e <= Len(d)
       /\ Len(d) + Len(x) - (e - (e - 1)) \in 1 .. BlockSize /\ Len(s) + Len(x) - (e - (e - 1)) = Len(s)
  <2>1. Len(s) \in Nat
    BY <1>1, ListFacts
  <2> DEFINE D == Len(d)
             X == Len(x)
             Z == Len(s)
  <2>2. D \in Nat /\ D \in 1 .. BlockSize /\ e \in 1 .. D /\ X = 1 /\ Z \in Nat
    BY <1>6, <1>7, <1>10, <2>1
  <2> HIDE DEF D, X, Z, e
  <2>3. e \in Nat /\ e - 1 \in Nat /\ e - 1 <= e /\ e <= D /\ D + X - (e - (e - 1)) = D
        /\ Z + X - (e - (e - 1)) = Z
    BY <2>2
  <2>4. QED
    BY <2>2, <2>3 DEF D, X, Z
<1>12. Kept(L2, L, w, off[l], k) /\ L2.tail = L.tail /\ L2.n = Len(s)
  <2>1. L \in Header /\ L.n = Len(s)
    BY <1>1 DEF Right
  <2>2. c[1] \in Nat /\ c[2] \in Nat
    <3> HIDE DEF c
    <3>1. QED
      BY <1>1, <1>2, FoundCut
  <2> HIDE DEF L, c
  <2>3. L2 \in Header /\ L2.head = L.head /\ L2.tail = L.tail /\ L2.n = L.n /\ L2.last = c[1] /\ L2.lastn = c[2]
    BY <2>1, <2>2 DEF Cached, Header
  <2> HIDE DEF L2
  <2>4. k \in 1 .. k
    OBVIOUS
  <2>5. QED
    BY <1>5, <2>1, <2>3, <2>4 DEF Kept
<1> HIDE DEF L2, h2, b, x, e
<1>13. Sound(h2, [lists EXCEPT ![l] = L2], [S EXCEPT ![l] = Splice(s, o + (e - 1), o + e, x)])
  BY <1>8, <1>9, <1>10, <1>11, <1>12, EditNode
<1>14. ReplaceAt(s, i + 1, v) = Splice(s, o + (e - 1), o + e, x)
  <2>1. s \in Seq(Int) /\ Len(s) \in Nat
    BY <1>1, ListFacts
  <2> DEFINE Z == Len(s)
  <2>2. o + (e - 1) = i /\ o + e = i + 1
    BY <1>5 DEF e
  <2> HIDE DEF s, o
  <2>3. i + 1 \in 1 .. Len(s) /\ (i + 1) - 1 = i
    <3>1. i < Z /\ Z \in Nat
      BY <2>1 DEF s
    <3> HIDE DEF Z
    <3>2. i + 1 \in 1 .. Z /\ (i + 1) - 1 = i
      BY <3>1
    <3>3. QED
      BY <3>2 DEF Z
  <2>4. [s EXCEPT ![i + 1] = v] = Splice(s, (i + 1) - 1, i + 1, <<v>>)
    BY <2>1, <2>3, ExceptSplices
  <2>5. QED
    BY <2>2, <2>3, <2>4 DEF ReplaceAt, x
<1>15. QED
  BY <1>3, <1>13, <1>14

\* bl_insert as an action.
LEMMA InsertStep ==
  ASSUME NEW S, NEW ns, NEW cs, NEW off, Layout(heap, lists, S, ns, cs, off), NEW l \in Lists,
         NEW i \in 0 .. Len(S[l]), NEW v \in Int, Insert(l, i, v)
  PROVE  Sound(heap', lists', [S EXCEPT ![l] = InsertAt(S[l], i + 1, v)]) /\ result' = <<>>
<1>1. Become(l, BlInsert(lists[l], i, v)) /\ result' = <<>>
  BY DEF Insert
<1>2. QED
  BY <1>1, InsertSound, Becomes

\* bl_remove_index as an action.
LEMMA RemoveIndexStep ==
  ASSUME NEW S, NEW ns, NEW cs, NEW off, Layout(heap, lists, S, ns, cs, off), NEW l \in Lists,
         NEW i \in Nat, i < Len(S[l]), RemoveIndex(l, i)
  PROVE  Sound(heap', lists', [S EXCEPT ![l] = RemoveAt(S[l], i + 1)]) /\ result' = <<>>
<1>1. Become(l, BlRemoveIndex(lists[l], i)) /\ result' = <<>>
  BY DEF RemoveIndex
<1>2. QED
  BY <1>1, RemoveIndexSound, Becomes

\* bl_pop answers with the last element and removes it.
LEMMA PopSound ==
  ASSUME NEW S, NEW ns, NEW cs, NEW off, Layout(heap, lists, S, ns, cs, off), NEW l \in Lists, Pop(l)
  PROVE  /\ Sound(heap', lists', [S EXCEPT ![l] = Front(S[l])]) /\ result' = <<Last(S[l])>>
         /\ S[l] # <<>>
<1> DEFINE L == lists[l]
           s == S[l]
           Z == Len(s)
           i == L.n - 1
           c == FindNode(L, i)
<1>1. Right(L, heap, ns[l], cs[l], off[l], s)
  BY DEF Layout
<1>2. s \in Seq(Int) /\ Z \in Nat /\ L.n = Z
  BY <1>1, ListFacts
<1>3. L.n > 0 /\ result' = <<Element(c, i)>> /\ Become(l, BlRemoveIndex(L, i))
  BY DEF Pop
<1>4. i \in Nat /\ i < Z /\ i + 1 = Z /\ Z - 1 = i
  BY <1>2, <1>3
<1> HIDE DEF i
<1>5. PICK k \in 1 .. Len(ns[l]) : Found(c, ns[l], off[l], k, i)
  BY <1>4, FindNodeFinds
<1> HIDE DEF c
<1>6. Element(c, i) = s[i + 1]
  BY <1>1, <1>4, <1>5, ElementIs
<1>7. Sound(heap', lists', [S EXCEPT ![l] = RemoveAt(s, i + 1)])
  BY <1>3, <1>4, RemoveIndexSound, Becomes
<1>8. RemoveAt(s, i + 1) = Front(s)
  <2>1. RemoveAt(s, i + 1) = Splice(s, (i + 1) - 1, i + 1, <<>>)
    <3>1. i + 1 \in 1 .. Len(s)
      BY <1>4
    <3> HIDE DEF s
    <3>2. QED
      BY <1>2, <3>1, RemoveSplices
  <2>2. SubSeq(s, 1, i) = Splice(s, i, Len(s), <<>>)
    <3>1. i <= Len(s)
      BY <1>2, <1>4
    <3> HIDE DEF s
    <3>2. QED
      BY <1>2, <1>4, <3>1, FrontSplices
  <2>3. (i + 1) - 1 = i
    BY <1>4
  <2>4. Front(s) = SubSeq(s, 1, i)
    BY <1>4 DEF Front
  <2>5. QED
    BY <1>4, <2>1, <2>2, <2>3, <2>4
<1>9. Last(s) = s[i + 1] /\ s # <<>>
  BY <1>2, <1>4 DEF Last
<1>10. QED
  BY <1>3, <1>6, <1>7, <1>8, <1>9

\* The header of a list without nodes.
LEMMA EmptyIs ==
  /\ Empty \in Header /\ Empty.head = NULL /\ Empty.tail = NULL /\ Empty.n = 0 /\ Empty.last = NULL
  /\ Empty.lastn = 0
BY DEF Empty, Header, NULL

\* The nodes ms, which hold mc, take the place of the nodes w.
Replaced(h, w, ms, mc, h2) ==
    /\ ms \in Seq(Nat \ {0}) /\ Len(ms) = Len(mc) /\ Distinct(ms) /\ IsFiniteSet(DOMAIN h2)
    /\ \A a \in 1 .. Len(ms) : ms[a] \notin DOMAIN h \/ In(ms[a], w)
    /\ \A p : p \in DOMAIN h2 <=> In(p, ms) \/ (p \in DOMAIN h /\ ~In(p, w))
    /\ \A a \in 1 .. Len(ms) : h2[ms[a]] = [items |-> mc[a], next |-> Follow(ms, a)]
    /\ \A p \in DOMAIN h : ~In(p, ms) /\ ~In(p, w) => h2[p] = h[p]

\* The header of a list of the nodes ms that holds m.
HeadsAll(L2, ms, m) ==
    /\ L2 \in Header /\ L2.head = Follow(ms, 0) /\ L2.tail = TailOf(ms) /\ L2.n = Len(m)
    /\ L2.last # NULL => Len(ms) > 0 /\ L2.last = ms[1] /\ L2.lastn = 0

\* The whole list gives way to nodes that hold m.
LEMMA WholeList ==
  ASSUME NEW h, NEW ls, NEW S, NEW ns, NEW cs, NEW off, Layout(h, ls, S, ns, cs, off), NEW l \in Lists,
         NEW ms, NEW mc, NEW mo, NEW m, Pieces(mc, mo, m), NEW h2, Replaced(h, ns[l], ms, mc, h2),
         NEW L2, HeadsAll(L2, ms, m)
  PROVE  Sound(h2, [ls EXCEPT ![l] = L2], [S EXCEPT ![l] = m])
<1> DEFINE w == ns[l]
           N == Len(w)
           s == S[l]
           j == 0
<1>0. /\ ms \in Seq(Nat \ {0}) /\ Len(ms) = Len(mc) /\ Distinct(ms) /\ IsFiniteSet(DOMAIN h2)
      /\ \A a \in 1 .. Len(ms) : ms[a] \notin DOMAIN h \/ In(ms[a], w)
      /\ \A p : p \in DOMAIN h2 <=> In(p, ms) \/ (p \in DOMAIN h /\ ~In(p, w))
      /\ \A a \in 1 .. Len(ms) : h2[ms[a]] = [items |-> mc[a], next |-> Follow(ms, a)]
      /\ \A p \in DOMAIN h : ~In(p, ms) /\ ~In(p, w) => h2[p] = h[p]
  BY DEF Replaced
<1>1. Right(ls[l], h, w, cs[l], off[l], s)
  BY DEF Layout
<1>2. N \in Nat /\ s \in Seq(Int) /\ off[l][0] = 0 /\ off[l][N] = Len(s) /\ Len(s) \in Nat
  BY <1>1, ListFacts
<1>3. m \in Seq(Int) /\ Len(m) \in Nat /\ Len(ms) \in Nat
  BY <1>0 DEF Pieces, Cuts
<1>4. \A a \in 0 .. Len(ms) : After(w, N, ms, a) = Follow(ms, a)
  BY <1>2, <1>3 DEF After, Follow
<1>5. \A p : In(p, w) <=> \E i \in j + 1 .. N : p = w[i]
  <2>1. j + 1 = 1
    OBVIOUS
  <2>2. QED
    BY <2>1 DEF In
<1>6. Rewritten(h, w, cs[l], j, N, ms, mc, h2)
  <2>1. \A a \in 1 .. Len(ms) : ms[a] \notin DOMAIN h \/ \E i \in j + 1 .. N : ms[a] = w[i]
    BY <1>0, <1>5
  <2>2. \A p : p \in DOMAIN h2 <=> In(p, ms) \/ (p \in DOMAIN h /\ \A i \in j + 1 .. N : p # w[i])
    BY <1>0, <1>5
  <2>3. \A a \in 1 .. Len(ms) : h2[ms[a]] = [items |-> mc[a], next |-> After(w, N, ms, a)]
    <3>1. \A a \in 1 .. Len(ms) : a \in 0 .. Len(ms)
      BY <1>3
    <3>2. QED
      BY <1>0, <1>4, <3>1
  <2>4. \A p \in DOMAIN h : ~In(p, ms) /\ (\A i \in j .. N : i > 0 => p # w[i]) => h2[p] = h[p]
    <3>1. ASSUME NEW p, \A i \in j .. N : i > 0 => p # w[i] PROVE ~In(p, w)
      <4>1. \A i \in 1 .. N : i \in j .. N /\ i > 0
        BY <1>2
      <4>2. QED
        BY <3>1, <4>1 DEF In
    <3>2. QED
      BY <1>0, <3>1
  <2>5. ~(j > 0)
    OBVIOUS
  <2> HIDE DEF j, N, w
  <2>6. QED
    BY <1>0, <2>1, <2>2, <2>3, <2>4, <2>5 DEF Rewritten
<1>7. Headed(L2, ls[l], w, off[l], s, j, N, ms, m)
  <2>1. L2.head = After(w, N, ms, 0)
    <3>1. 0 \in 0 .. Len(ms)
      BY <1>3
    <3>2. QED
      BY <1>4, <3>1 DEF HeadsAll
  <2>2. L2.n = off[l][j] + Len(m) + (Len(s) - off[l][N])
    <3> DEFINE M == Len(m)
               Z == Len(s)
    <3>1. M \in Nat /\ Z \in Nat /\ L2.n = M /\ off[l][j] = 0 /\ off[l][N] = Z
      BY <1>2, <1>3 DEF HeadsAll
    <3> HIDE DEF M, Z, s, j, N
    <3>2. 0 + M + (Z - Z) = M
      BY <3>1
    <3>3. QED
      BY <3>1, <3>2 DEF M, Z
  <2>3. L2.tail = IF N < Len(w) THEN ls[l].tail ELSE IF Len(ms) > 0 THEN ms[Len(ms)]
                 ELSE IF j > 0 THEN w[j] ELSE NULL
    <3>1. ~(N < Len(w))
      BY <1>2
    <3>2. (Len(ms) = 0) <=> ~(Len(ms) > 0)
      BY <1>3
    <3>3. QED
      BY <3>1, <3>2 DEF TailOf, HeadsAll
  <2>4. Shortcut(L2, w, off[l], j, ms)
    <3>1. off[l][j] = 0
      BY <1>2
    <3> HIDE DEF j
    <3>2. QED
      BY <3>1 DEF Shortcut, HeadsAll
  <2>5. ~(j > 0)
    OBVIOUS
  <2> HIDE DEF j, N, w, s
  <2>6. QED
    BY <2>1, <2>2, <2>3, <2>4, <2>5 DEF Headed, HeadsAll
<1>8. Sound(h2, [ls EXCEPT ![l] = L2], [S EXCEPT ![l] = Splice(s, off[l][j], off[l][N], m)])
  <2>1. j \in 0 .. N /\ N \in 0 .. N /\ j <= N
    BY <1>2
  <2> HIDE DEF j, N
  <2>2. QED
    BY <1>6, <1>7, <2>1, Rewriting DEF N
<1>9. Splice(s, off[l][j], off[l][N], m) = m
  BY <1>2, <1>3, SpliceAll
<1>10. QED
  BY <1>8, <1>9

\* bl_remove_all frees every node of the list.
LEMMA RemoveAllSound ==
  ASSUME NEW S, NEW ns, NEW cs, NEW off, Layout(heap, lists, S, ns, cs, off), NEW l \in Lists, RemoveAll(l)
  PROVE  Sound(heap', lists', [S EXCEPT ![l] = <<>>]) /\ result' = <<>>
<1> DEFINE w == ns[l]
           x == <<>>
           mo == [i \in 0 .. 0 |-> 0]
           h2 == Free(heap, Range(Nodes(heap, lists[l].head)))
<1>1. Become(l, <<Empty, h2>>) /\ result' = <<>>
  BY DEF RemoveAll
<1>2. Nodes(heap, lists[l].head) = w /\ \A p : p \in Range(w) <=> In(p, w)
  BY HeadNodes
<1>3. IsFiniteSet(DOMAIN heap)
  BY DEF Layout
<1>4. /\ \A p : p \in DOMAIN h2 <=> p \in DOMAIN heap /\ ~In(p, w)
      /\ \A p \in DOMAIN heap : ~In(p, w) => h2[p] = heap[p]
  BY <1>2 DEF Free
<1> HIDE DEF h2
<1>5. IsFiniteSet(DOMAIN h2)
  <2>1. DOMAIN h2 \subseteq DOMAIN heap
    BY <1>4
  <2>2. QED
    BY <1>3, <2>1, FS_Subset
<1>6. x \in Seq(Nat \ {0}) /\ Len(x) = 0 /\ Distinct(x) /\ Follow(x, 0) = NULL /\ TailOf(x) = NULL
      /\ \A p : ~In(p, x)
  BY EmptySeq DEF Distinct, Follow, TailOf, In
<1>7. Pieces(x, mo, x)
  BY NoPiece
<1> HIDE DEF x, mo
<1>8. \A a \in 1 .. Len(x) : FALSE
  BY <1>6
<1>9. Replaced(heap, w, x, x, h2)
  BY <1>4, <1>5, <1>6, <1>8 DEF Replaced
<1>10. HeadsAll(Empty, x, x)
  BY <1>6, EmptyIs DEF HeadsAll
<1>11. Sound(h2, [lists EXCEPT ![l] = Empty], [S EXCEPT ![l] = x])
  BY <1>7, <1>9, <1>10, WholeList
<1>12. QED
  BY <1>1, <1>11, BecomesPair DEF x

\* Reversed nodes hold the reversed sequence.
LEMMA PiecesReverse ==
  ASSUME NEW cs, NEW off, NEW s, Pieces(cs, off, s),
         NEW mc, mc = BackPieces(cs), NEW mo, mo = BackCounts(cs, off, s)
  PROVE  Pieces(mc, mo, Reverse(s)) /\ Len(mc) = Len(cs)
BY ListAssumption, CutsReverse DEF Pieces

\* bl_reverse: the nodes, and the elements in each, from the last to the first.
LEMMA ReverseSound ==
  ASSUME NEW S, NEW ns, NEW cs, NEW off, Layout(heap, lists, S, ns, cs, off), NEW l \in Lists, BlReverse(l)
  PROVE  Sound(heap', lists', [S EXCEPT ![l] = Reverse(S[l])]) /\ result' = <<>>
<1> DEFINE L == lists[l]
           w == ns[l]
           N == Len(w)
           c == cs[l]
           s == S[l]
           ms == Reverse(w)
           mc == BackPieces(c)
           mo == BackCounts(c, off[l], s)
           L2 == [Forget(L) EXCEPT !.head = L.tail, !.tail = L.head]
           h2 == [p \in DOMAIN heap |->
                       IF p \notin Range(w) THEN heap[p]
                       ELSE [items |-> Reverse(heap[p].items), next |-> Previous(L, p)]]
<1>1. Right(L, heap, w, c, off[l], s) /\ IsFiniteSet(DOMAIN heap)
  BY DEF Layout
<1>2. N \in Nat /\ w \in Seq(Nat \ {0}) /\ Len(c) = N /\ s \in Seq(Int) /\ Len(s) \in Nat
  BY <1>1, ListFacts
<1>3. Nodes(heap, L.head) = w /\ \A p : p \in Range(w) <=> In(p, w)
  BY HeadNodes
<1>4. Become(l, <<L2, h2>>) /\ result' = <<>>
  BY <1>3 DEF BlReverse
<1>5. Pieces(mc, mo, Reverse(s)) /\ Len(mc) = N
  <2>1. Pieces(c, off[l], s)
    BY <1>1 DEF Right
  <2>2. mc = BackPieces(c) /\ mo = BackCounts(c, off[l], s)
    OBVIOUS
  <2> HIDE DEF c, s, mc, mo
  <2>3. Pieces(mc, mo, Reverse(s)) /\ Len(mc) = Len(c)
    BY <2>1, <2>2, PiecesReverse
  <2>4. QED
    BY <1>2, <2>3
<1>6. ms \in Seq(Nat \ {0}) /\ Len(ms) = N /\ \A a \in 1 .. N : ms[a] = w[N - a + 1]
  <2> HIDE DEF w
  <2>1. QED
    BY <1>2, ReverseIs DEF Backward, N
<1> HIDE DEF ms
<1>7. \A a \in 1 .. N : N - a + 1 \in 1 .. N /\ N - (N - a + 1) + 1 = a
  <2> HIDE DEF N
  <2>1. QED
    BY <1>2
<1>8. \A p : In(p, ms) <=> In(p, w)
  <2>1. ASSUME NEW p, In(p, ms) PROVE In(p, w)
    <3>1. PICK a \in 1 .. N : ms[a] = p
      BY <1>6, <2>1 DEF In
    <3>2. QED
      BY <1>6, <1>7, <3>1 DEF In
  <2>2. ASSUME NEW p, In(p, w) PROVE In(p, ms)
    <3>1. PICK a \in 1 .. N : w[a] = p
      BY <2>2 DEF In
    <3> DEFINE b == N - a + 1
    <3>2. b \in 1 .. N /\ N - b + 1 = a
      BY <1>7
    <3> HIDE DEF b
    <3>3. ms[b] = p
      BY <1>6, <3>1, <3>2
    <3>4. QED
      BY <1>6, <3>2, <3>3 DEF In
  <2>3. QED
    BY <2>1, <2>2
<1>9. Distinct(ms)
  <2>1. \A a, b \in 1 .. N : w[a] = w[b] => a = b
    BY <1>1 DEF Right, Links
  <2>2. ASSUME NEW a \in 1 .. N, NEW b \in 1 .. N, ms[a] = ms[b] PROVE a = b
    <3> DEFINE x == N - a + 1
               y == N - b + 1
    <3>1. x \in 1 .. N /\ y \in 1 .. N /\ N - x + 1 = a /\ N - y + 1 = b
      BY <1>7
    <3>2. w[x] = w[y]
      BY <1>6, <2>2
    <3> HIDE DEF x, y
    <3>3. x = y
      BY <2>1, <3>1, <3>2
    <3>4. QED
      BY <3>1, <3>3
  <2>3. QED
    BY <1>6, <2>2 DEF Distinct
<1>10. ASSUME NEW a \in 1 .. N
       PROVE  ms[a] \in DOMAIN heap /\ h2[ms[a]] = [items |-> mc[a], next |-> Follow(ms, a)]
  <2> DEFINE b == N - a + 1
  <2>1. b \in 1 .. N /\ ms[a] = w[b] /\ mc[a] = Reverse(c[b])
    BY <1>2, <1>6, <1>7 DEF BackPieces
  <2>2. b = 1 <=> ~(a < N)
    BY <1>2
  <2>3. a < N => a + 1 \in 1 .. N /\ N - (a + 1) + 1 = b - 1
    BY <1>2
  <2> HIDE DEF b
  <2>4. NodeAt(heap, w, c, off[l], s, b)
    BY <1>1, <2>1, NodeFacts
  <2>5. Previous(L, w[b]) = IF b = 1 THEN NULL ELSE w[b - 1]
    BY <2>1, PreviousIs
  <2>6. Previous(L, w[b]) = Follow(ms, a)
    <3>1. a < N => ms[a + 1] = w[b - 1]
      BY <1>6, <2>3
    <3>2. QED
      BY <1>6, <2>2, <2>5, <3>1 DEF Follow
  <2>7. w[b] \in Range(w)
    BY <1>3, <2>1 DEF In
  <2>8. w[b] \in DOMAIN heap /\ heap[w[b]].items = c[b]
    BY <2>4 DEF NodeAt
  <2> HIDE DEF L, w, c
  <2>9. QED
    BY <2>1, <2>6, <2>7, <2>8
<1>11. DOMAIN h2 = DOMAIN heap /\ \A p \in DOMAIN heap : ~In(p, w) => h2[p] = heap[p]
  BY <1>3
<1> HIDE DEF h2
<1>12. Replaced(heap, w, ms, mc, h2)
  <2>1. \A p : In(p, w) => p \in DOMAIN heap
    BY <1>6, <1>8, <1>10 DEF In
  <2> HIDE DEF mc, w
  <2>2. \A a \in 1 .. N : In(ms[a], ms)
    BY <1>6 DEF In
  <2>3. \A a \in 1 .. Len(ms) : ms[a] \notin DOMAIN heap \/ In(ms[a], w)
    BY <1>6, <1>8, <2>2
  <2>4. \A p : p \in DOMAIN h2 <=> In(p, ms) \/ (p \in DOMAIN heap /\ ~In(p, w))
    BY <1>8, <1>11, <2>1
  <2>5. \A a \in 1 .. Len(ms) : h2[ms[a]] = [items |-> mc[a], next |-> Follow(ms, a)]
    BY <1>6, <1>10
  <2>6. ms \in Seq(Nat \ {0}) /\ Len(ms) = Len(mc) /\ IsFiniteSet(DOMAIN h2)
    BY <1>1, <1>5, <1>6, <1>11
  <2>7. \A p \in DOMAIN heap : ~In(p, ms) /\ ~In(p, w) => h2[p] = heap[p]
    BY <1>11
  <2>8. QED
    BY <1>9, <2>3, <2>4, <2>5, <2>6, <2>7 DEF Replaced
<1>13. HeadsAll(L2, ms, Reverse(s))
  <2>1. L \in Header /\ L.head = Follow(w, 0) /\ L.tail = TailOf(w) /\ L.n = Len(s)
    BY <1>1 DEF Right
  <2>2. L2 \in Header /\ L2.head = L.tail /\ L2.tail = L.head /\ L2.n = L.n /\ L2.last = NULL
    <3> HIDE DEF L
    <3>1. Forget(L) \in Header /\ L.tail \in Nat /\ L.head \in Nat /\ Forget(L).n = L.n /\ Forget(L).last = NULL
      BY <2>1, ForgetIs, HeaderTypes
    <3>2. QED
      BY <3>1 DEF Header
  <2>3. Len(Reverse(s)) = Len(s)
    <3> HIDE DEF s
    <3>1. QED
      BY <1>2, ReverseIs DEF Backward
  <2>4. TailOf(w) = Follow(ms, 0) /\ Follow(w, 0) = TailOf(ms)
    <3>1. CASE N = 0
      BY <1>6, <3>1 DEF TailOf, Follow
    <3>2. CASE N # 0
      <4>1. 0 < N /\ 0 + 1 = 1 /\ 1 \in 1 .. N /\ N \in 1 .. N /\ N - 1 + 1 = N /\ N - N + 1 = 1
        BY <1>2, <3>2
      <4>2. ms[1] = w[N] /\ ms[N] = w[1]
        BY <1>6, <4>1
      <4>3. QED
        BY <1>6, <3>2, <4>1, <4>2 DEF TailOf, Follow
    <3>3. QED
      BY <3>1, <3>2
  <2> HIDE DEF L2, L
  <2>5. QED
    BY <2>1, <2>2, <2>3, <2>4 DEF HeadsAll
<1> HIDE DEF L2, mc, mo
<1>14. Sound(h2, [lists EXCEPT ![l] = L2], [S EXCEPT ![l] = Reverse(s)])
  BY <1>5, <1>12, <1>13, WholeList
<1>15. QED
  BY <1>4, <1>14, BecomesPair

\* In a sorted sequence a later element is no less than an earlier one.
LEMMA SortedMonotone ==
  ASSUME NEW s \in Seq(Int), Sorted(s)
  PROVE  \A i, j \in 1 .. Len(s) : i <= j => s[i] <= s[j]
<1> DEFINE Z == Len(s)
<1>1. Z \in Nat /\ \A i \in 1 .. Z : s[i] \in Int
  BY ElementOfSeq
<1>2. \A i \in 1 .. Z - 1 : s[i] <= s[i + 1]
  BY DEF Sorted
<1> HIDE DEF Z
<1> SUFFICES ASSUME NEW i \in 1 .. Z PROVE \A j \in 1 .. Z : i <= j => s[i] <= s[j]
  BY DEF Z
<1> DEFINE Up == {k \in 0 .. Z - i : s[i] <= s[i + k]}
<1>3. 0 \in Up
  <2>1. 0 \in 0 .. Z - i /\ i + 0 = i /\ s[i] \in Int
    BY <1>1
  <2>2. QED
    BY <2>1
<1>4. ASSUME NEW k \in 1 .. Z - i, k - 1 \in Up PROVE k \in Up
  <2>1. k \in 0 .. Z - i /\ i + (k - 1) \in 1 .. Z - 1 /\ (i + (k - 1)) + 1 = i + k /\ i + k \in 1 .. Z
        /\ i + (k - 1) \in 1 .. Z
    BY <1>1
  <2>2. s[i] <= s[i + (k - 1)]
    BY <1>4
  <2>3. s[i + (k - 1)] <= s[i + k]
    BY <1>2, <2>1
  <2>4. s[i] \in Int /\ s[i + (k - 1)] \in Int /\ s[i + k] \in Int
    BY <1>1, <2>1
  <2>5. s[i] <= s[i + k]
    BY <2>2, <2>3, <2>4
  <2>6. QED
    BY <2>1, <2>5
<1>5. Z - i \in Nat
  BY <1>1
<1> HIDE DEF Up
<1>6. \A k \in 0 .. Z - i : k \in Up
  BY <1>3, <1>4, <1>5, UpInduction
<1>7. ASSUME NEW j \in 1 .. Z, i <= j PROVE s[i] <= s[j]
  <2>1. j - i \in 0 .. Z - i /\ i + (j - i) = j
    BY <1>1, <1>7
  <2>2. s[i] <= s[i + (j - i)]
    BY <1>6, <2>1 DEF Up
  <2>3. QED
    BY <2>1, <2>2
<1>8. QED
  BY <1>7

\* v belongs after the first i elements of s.
Place(s, v, i) ==
    /\ i \in 0 .. Len(s)
    /\ \A j \in DOMAIN s : IF j <= i THEN s[j] <= v ELSE v <= s[j]

-----------------------------------------------------------------------------
(* Sorted lists *)

\* In a sorted list: the first i elements are no more than v, the next one is more.
LEMMA PlaceIs ==
  ASSUME NEW s \in Seq(Int), Sorted(s), NEW v \in Int, NEW i \in 0 .. Len(s),
         i > 0 => s[i] <= v, i < Len(s) => v < s[i + 1]
  PROVE  /\ Place(s, v, i)
         /\ Contains(s, v) <=> i > 0 /\ s[i] = v
<1> DEFINE Z == Len(s)
<1>1. Z \in Nat /\ (\A j \in 1 .. Z : s[j] \in Int) /\ DOMAIN s = 1 .. Z
  BY ElementOfSeq
<1>2. \A a, b \in 1 .. Z : a <= b => s[a] <= s[b]
  BY SortedMonotone
<1>3. i \in 0 .. Z /\ (i > 0 => s[i] <= v) /\ (i < Z => v < s[i + 1])
  OBVIOUS
<1>4. Contains(s, v) <=> \E j \in 1 .. Z : s[j] = v
  BY DEF Contains
<1> HIDE DEF Z
<1>5. ASSUME NEW j \in 1 .. Z, j <= i PROVE s[j] <= v /\ (s[i] < v => s[j] < v) /\ i > 0 /\ i \in 1 .. Z
  <2>1. i > 0 /\ i \in 1 .. Z
    BY <1>1, <1>3, <1>5
  <2>2. s[j] <= s[i]
    BY <1>2, <1>5, <2>1
  <2>3. s[j] \in Int /\ s[i] \in Int /\ s[i] <= v
    BY <1>1, <1>3, <2>1
  <2>4. QED
    BY <2>1, <2>2, <2>3
<1>6. ASSUME NEW j \in 1 .. Z, ~(j <= i) PROVE v < s[j]
  <2>1. i < Z /\ i + 1 \in 1 .. Z /\ i + 1 <= j
    BY <1>1, <1>3, <1>6
  <2>2. s[i + 1] <= s[j] /\ v < s[i + 1]
    BY <1>2, <1>3, <2>1
  <2>3. s[j] \in Int /\ s[i + 1] \in Int
    BY <1>1, <2>1
  <2>4. QED
    BY <2>2, <2>3
<1>7. Place(s, v, i)
  <2>1. ASSUME NEW j \in 1 .. Z PROVE IF j <= i THEN s[j] <= v ELSE v <= s[j]
    <3>1. s[j] \in Int
      BY <1>1
    <3>2. QED
      BY <1>5, <1>6, <3>1
  <2>2. QED
    BY <1>1, <1>3, <2>1 DEF Place, Z
<1>8. ASSUME Contains(s, v) PROVE i > 0 /\ s[i] = v
  <2>1. PICK j \in 1 .. Z : s[j] = v
    BY <1>4, <1>8
  <2>2. j <= i
    BY <1>6, <2>1
  <2>3. s[i] \in Int /\ i > 0 /\ s[i] <= v /\ ~(s[i] < v)
    BY <1>1, <1>3, <1>5, <2>1, <2>2
  <2>4. QED
    BY <2>3
<1>9. ASSUME i > 0, s[i] = v PROVE Contains(s, v)
  <2>1. i \in 1 .. Z
    BY <1>1, <1>3, <1>9
  <2>2. QED
    BY <1>4, <1>9, <2>1
<1>10. QED
  BY <1>7, <1>8, <1>9

\* c is a cut of the list, or none.
CutOrNone(c, ns, off) == c \in Nat \X Nat /\ (c[1] # NULL => AtCut(c[1], c[2], ns, off))

\* An element that v is not less than, one that is more than v, and the shortcut.
Between(t, s, v, ns, off) ==
    /\ t \in Int \X Int \X (Nat \X Nat)
    /\ -1 <= t[1] /\ t[1] < t[2] /\ t[2] <= Len(s)
    /\ t[1] >= 0 => s[t[1] + 1] <= v
    /\ t[2] < Len(s) => v < s[t[2] + 1]
    /\ CutOrNone(t[3], ns, off)

\* One step of the search comes closer to the end, if there is one to go.
LEMMA HalveSound ==
  ASSUME NEW ls, NEW S, NEW ns, NEW cs, NEW off, Layout(heap, ls, S, ns, cs, off), NEW l \in Lists,
         NEW v \in Int, NEW t, Between(t, S[l], v, ns[l], off[l])
  PROVE  LET u == Halve(ls[l], v, t) IN
         /\ Between(u, S[l], v, ns[l], off[l])
         /\ (u = t /\ t[2] - t[1] = 1) \/ u[2] - u[1] < t[2] - t[1]
<1> DEFINE w == ns[l]
           s == S[l]
           Z == Len(s)
           a == t[1]
           b == t[2]
           r == t[3]
           mid == (t[1] + t[2]) \div 2
           L2 == Cached(ls[l], t[3])
           c == FindNode(L2, mid)
           u == Halve(ls[l], v, t)
<1>1. /\ t \in Int \X Int \X (Nat \X Nat)
      /\ -1 <= t[1] /\ t[1] < t[2] /\ t[2] <= Len(s)
      /\ t[1] >= 0 => s[t[1] + 1] <= v
      /\ t[2] < Len(s) => v < s[t[2] + 1]
      /\ CutOrNone(t[3], w, off[l])
  BY DEF Between
<1>2. t = <<a, b, r>> /\ a \in Int /\ b \in Int /\ r \in Nat \X Nat
  BY <1>1
<1>3. r[1] \in Nat /\ r[2] \in Nat /\ (r[1] # NULL => AtCut(r[1], r[2], w, off[l]))
  BY <1>1 DEF CutOrNone
<1> DEFINE l2 == [ls EXCEPT ![l] = L2]
<1>4. Layout(heap, l2, S, ns, cs, off) /\ l2[l] = L2
  <2>1. Layout(heap, [ls EXCEPT ![l] = Cached(ls[l], r)], S, ns, cs, off)
    <3> HIDE DEF r
    <3>1. QED
      BY <1>3, CacheLayout
  <2>2. ls \in [Lists -> Header]
    BY DEF Layout
  <2>3. QED
    BY <2>1, <2>2
<1> HIDE DEF l2, L2
<1>5. Right(l2[l], heap, w, cs[l], off[l], s)
  BY <1>4 DEF Layout
<1>6. s \in Seq(Int) /\ Z \in Nat
  BY <1>5, ListFacts
<1>7. u = IF a >= b - 1 THEN t ELSE IF v >= Element(c, mid) THEN <<mid, b, c>> ELSE <<a, mid, c>>
  BY DEF Halve, L2
<1>8. CASE a >= b - 1
  <2>1. u = t
    BY <1>7, <1>8
  <2>2. b - a = 1
    <3> HIDE DEF a, b
    <3>1. QED
      BY <1>1, <1>2, <1>8 DEF a, b
  <2> HIDE DEF u
  <2>3. QED
    BY <2>1, <2>2 DEF u
<1>9. CASE ~(a >= b - 1)
  <2>1. mid \in Nat /\ a < mid /\ mid < b /\ mid < Z
    <3>1. -1 <= a /\ a < b /\ b <= Z /\ ~(a >= b - 1) /\ a \in Int /\ b \in Int /\ mid = (a + b) \div 2
      BY <1>1, <1>2, <1>9
    <3> HIDE DEF a, b, mid, Z
    <3>2. QED
      BY <1>6, <3>1
  <2> HIDE DEF mid
  <2>2. PICK k \in 1 .. Len(w) : Found(c, w, off[l], k, mid)
    BY <1>4, <2>1, FindNodeFinds
  <2> HIDE DEF c
  <2>3. Element(c, mid) = s[mid + 1]
    BY <1>5, <2>1, <2>2, ElementIs
  <2>4. CutOrNone(c, w, off[l]) /\ c \in Nat \X Nat
    <3>1. c[1] \in Nat /\ c[2] \in Nat /\ AtCut(c[1], c[2], w, off[l])
      BY <1>5, <2>2, FoundCut
    <3>2. c = <<w[k], off[l][k - 1]>>
      BY <2>2 DEF Found
    <3>3. c = <<c[1], c[2]>>
      BY <3>2
    <3>4. c \in Nat \X Nat
      BY <3>1, <3>3
    <3>5. QED
      BY <3>1, <3>4 DEF CutOrNone
  <2>5. s[mid + 1] \in Int
    <3>1. mid + 1 \in 1 .. Len(s)
      BY <1>6, <2>1
    <3>2. QED
      BY <1>6, <3>1, ElementOfSeq
  <2>6. CASE v >= Element(c, mid)
    <3>1. u = <<mid, b, c>>
      BY <1>7, <1>9, <2>6
    <3>2. u[1] = mid /\ u[2] = b /\ u[3] = c /\ u \in Int \X Int \X (Nat \X Nat)
      BY <1>2, <2>1, <2>4, <3>1
    <3>3. s[mid + 1] <= v
      BY <2>3, <2>5, <2>6
    <3>4. -1 <= mid /\ mid < b /\ b - mid < b - a
      <4>1. a \in Int /\ b \in Int /\ -1 <= a
        BY <1>1, <1>2
      <4> HIDE DEF a, b
      <4>2. QED
        BY <2>1, <4>1
    <3>5. b <= Len(s) /\ (b < Len(s) => v < s[b + 1])
      BY <1>1
    <3> HIDE DEF u, s, b, a
    <3>6. Between(u, s, v, w, off[l])
      BY <2>4, <3>2, <3>3, <3>4, <3>5 DEF Between
    <3>7. u[2] - u[1] < b - a
      BY <3>2, <3>4
    <3>8. QED
      BY <3>6, <3>7 DEF u, s, a, b
  <2>7. CASE ~(v >= Element(c, mid))
    <3>1. u = <<a, mid, c>>
      BY <1>7, <1>9, <2>7
    <3>2. u[1] = a /\ u[2] = mid /\ u[3] = c /\ u \in Int \X Int \X (Nat \X Nat)
      BY <1>2, <2>1, <2>4, <3>1
    <3>3. v < s[mid + 1]
      BY <2>3, <2>5, <2>7
    <3>4. -1 <= a /\ a < mid /\ mid <= Len(s) /\ mid - a < b - a
      <4>1. a \in Int /\ b \in Int /\ -1 <= a
        BY <1>1, <1>2
      <4> HIDE DEF a, b
      <4>2. QED
        BY <1>6, <2>1, <4>1
    <3>5. a >= 0 => s[a + 1] <= v
      BY <1>1
    <3> HIDE DEF u, s, b, a
    <3>6. Between(u, s, v, w, off[l])
      BY <2>4, <3>2, <3>3, <3>4, <3>5 DEF Between
    <3>7. u[2] - u[1] < b - a
      BY <3>2, <3>4
    <3>8. QED
      BY <3>6, <3>7 DEF u, s, a, b
  <2>8. QED
    BY <2>6, <2>7
<1>10. QED
  BY <1>8, <1>9

\* What the search ends with: the last element that is not more than v.
Bisected(t, s, v, ns, off) ==
    /\ t[1] + 1 \in 0 .. Len(s) /\ t[1] \in Int
    /\ t[1] + 1 > 0 => s[t[1] + 1] <= v
    /\ t[1] + 1 < Len(s) => v < s[(t[1] + 1) + 1]
    /\ CutOrNone(t[2], ns, off)

\* The binary search ends between two elements, around v.
LEMMA BisectFinds ==
  ASSUME NEW ls, NEW S, NEW ns, NEW cs, NEW off, Layout(heap, ls, S, ns, cs, off), NEW l \in Lists,
         NEW v \in Int
  PROVE  Bisected(Bisect(ls[l], v), S[l], v, ns[l], off[l])
<1> DEFINE w == ns[l]
           s == S[l]
           L == ls[l]
           n == L.n
           x == <<-1, n, <<L.last, L.lastn>>>>
           X == {t \in Int \X Int \X (Nat \X Nat) : Between(t, s, v, w, off[l])}
           H == [t \in X |-> Halve(L, v, t)]
           Step(g) == [k \in 0 .. n |-> IF k = 0 THEN x ELSE Halve(L, v, g[k - 1])]
           f == CHOOSE g : g = Step(g)
<1>1. Right(L, heap, w, cs[l], off[l], s)
  BY DEF Layout
<1>2. s \in Seq(Int) /\ n \in Nat /\ n = Len(s)
  BY <1>1, ListFacts
<1>3. Bisect(L, v) = <<f[n][1], f[n][3]>>
  BY DEF Bisect
<1>4. ASSUME NEW t \in X
      PROVE  /\ Halve(L, v, t) \in X
             /\ (Halve(L, v, t) = t /\ t[2] - t[1] = 1) \/ Halve(L, v, t)[2] - Halve(L, v, t)[1] < t[2] - t[1]
  <2>1. Between(t, s, v, w, off[l])
    OBVIOUS
  <2> DEFINE u == Halve(L, v, t)
  <2>2. Between(u, s, v, w, off[l]) /\ ((u = t /\ t[2] - t[1] = 1) \/ u[2] - u[1] < t[2] - t[1])
    <3> HIDE DEF X
    <3>1. QED
      BY <2>1, HalveSound
  <2> HIDE DEF u
  <2>3. u \in X
    BY <2>2 DEF Between
  <2>4. QED
    BY <2>2, <2>3 DEF u
<1>5. x \in X /\ x[1] = -1 /\ x[2] = n
  <2>1. L \in Header /\ (L.last # NULL => AtCut(L.last, L.lastn, w, off[l]))
    BY <1>1 DEF Right
  <2>2. L.last \in Nat /\ L.lastn \in Nat
    BY <2>1, HeaderTypes
  <2> DEFINE c == <<L.last, L.lastn>>
  <2>3. CutOrNone(c, w, off[l]) /\ c \in Nat \X Nat
    BY <2>1, <2>2 DEF CutOrNone
  <2> HIDE DEF c, n
  <2>4. <<-1, n, c>> \in Int \X Int \X (Nat \X Nat)
    BY <1>2, <2>3
  <2>5. Between(<<-1, n, c>>, s, v, w, off[l])
    <3> DEFINE t == <<-1, n, c>>
    <3>1. t[1] = -1 /\ t[2] = n /\ t[3] = c
      OBVIOUS
    <3> HIDE DEF t, s
    <3>2. -1 <= -1 /\ -1 < n /\ n <= Len(s) /\ ~(-1 >= 0) /\ ~(n < Len(s))
      BY <1>2
    <3>3. t \in Int \X Int \X (Nat \X Nat)
      BY <2>4 DEF t
    <3>4. QED
      BY <2>3, <3>1, <3>2, <3>3 DEF Between, t
  <2>6. QED
    BY <2>4, <2>5 DEF c
<1> HIDE DEF X, x
<1>6. \E g : g = Step(g)
  <2>1. H \in [X -> X]
    BY <1>4
  <2>2. PICK g \in [0 .. n -> X] : Iterates(g, n, x, H)
    <3> HIDE DEF H, n
    <3>1. QED
      BY <1>2, <1>5, <2>1, IterateExists
  <2>3. g = [k \in 0 .. n |-> IF k = 0 THEN x ELSE H[g[k - 1]]]
    BY <2>2 DEF Iterates
  <2>4. ASSUME NEW k \in 0 .. n, k # 0 PROVE H[g[k - 1]] = Halve(L, v, g[k - 1])
    <3>1. k - 1 \in 0 .. n
      BY <1>2, <2>4
    <3>2. g[k - 1] \in X
      BY <3>1
    <3>3. QED
      BY <3>2
  <2>5. g = Step(g)
    <3> HIDE DEF H
    <3>1. [k \in 0 .. n |-> IF k = 0 THEN x ELSE H[g[k - 1]]]
          = [k \in 0 .. n |-> IF k = 0 THEN x ELSE Halve(L, v, g[k - 1])]
      BY <2>4
    <3>2. QED
      BY <2>3, <3>1
  <2>6. QED
    BY <2>5
<1>7. f = Step(f)
  BY <1>6
<1> HIDE DEF f
<1>8. f[0] = x /\ \A k \in 1 .. n : f[k] = Halve(L, v, f[k - 1])
  <2>1. \A k \in 0 .. n : f[k] = IF k = 0 THEN x ELSE Halve(L, v, f[k - 1])
    BY <1>7
  <2>2. 0 \in 0 .. n /\ \A k \in 1 .. n : k \in 0 .. n /\ k # 0
    BY <1>2
  <2> HIDE DEF n
  <2>3. QED
    BY <2>1, <2>2
<1> DEFINE Up == {k \in 0 .. n : f[k] \in X /\ (f[k][2] - f[k][1] = 1 \/ f[k][2] - f[k][1] <= n + 1 - k)}
<1>9. \A t \in X : t[1] \in Int /\ t[2] \in Int /\ t[1] < t[2] /\ Between(t, s, v, w, off[l])
  <2>1. ASSUME NEW t \in X PROVE t[1] \in Int /\ t[2] \in Int /\ Between(t, s, v, w, off[l])
    BY <2>1 DEF X
  <2>2. QED
    BY <2>1 DEF Between
<1>10. 0 \in Up
  <2>1. n - (-1) = n + 1 - 0 /\ 0 \in 0 .. n /\ n + 1 - 0 <= n + 1 - 0
    BY <1>2
  <2> HIDE DEF n
  <2>2. f[0] \in X /\ f[0][2] - f[0][1] = n + 1 - 0
    BY <1>5, <1>8, <2>1
  <2>3. QED
    BY <2>1, <2>2
<1>11. ASSUME NEW k \in 1 .. n, k - 1 \in Up PROVE k \in Up
  <2> DEFINE t == f[k - 1]
             u == f[k]
             gap == t[2] - t[1]
             less == u[2] - u[1]
  <2>1. t \in X /\ (gap = 1 \/ gap <= n + 1 - (k - 1))
    BY <1>11
  <2>2. u = Halve(L, v, t)
    BY <1>8
  <2> HIDE DEF t, u
  <2>3. u \in X /\ ((u = t /\ gap = 1) \/ less < gap)
    BY <1>4, <2>1, <2>2
  <2>4. gap \in Int /\ less \in Int /\ 1 <= gap /\ 1 <= less
    BY <1>9, <2>1, <2>3
  <2>5. u = t => less = gap
    OBVIOUS
  <2> HIDE DEF gap, less, n
  <2>6. less = 1 \/ less <= n + 1 - k
    BY <1>2, <2>1, <2>3, <2>4, <2>5
  <2>7. k \in 0 .. n
    BY <1>2
  <2>8. QED
    BY <2>3, <2>6, <2>7 DEF less, u
<1>12. n \in Up
  <2>1. n \in 0 .. n
    BY <1>2
  <2> HIDE DEF Up, n
  <2>2. \A k \in 0 .. n : k \in Up
    BY <1>2, <1>10, <1>11, UpInduction
  <2>3. QED
    BY <2>1, <2>2
<1> DEFINE t == f[n]
<1>13. t \in X /\ t[2] - t[1] = 1
  <2>1. t \in X /\ (t[2] - t[1] = 1 \/ t[2] - t[1] <= n + 1 - n)
    BY <1>12
  <2>2. t[1] \in Int /\ t[2] \in Int /\ t[1] < t[2]
    <3> HIDE DEF t
    <3>1. QED
      BY <1>9, <2>1
  <2> DEFINE a == t[1]
             b == t[2]
  <2>3. a \in Int /\ b \in Int /\ a < b /\ (b - a = 1 \/ b - a <= n + 1 - n)
    BY <2>1, <2>2
  <2> HIDE DEF a, b, n
  <2>4. b - a = 1
    BY <1>2, <2>3
  <2>5. QED
    BY <2>1, <2>4 DEF a, b
<1> DEFINE r == <<t[1], t[3]>>
<1>14. Bisected(r, s, v, w, off[l])
  <2>1. r[1] = t[1] /\ r[2] = t[3]
    OBVIOUS
  <2> HIDE DEF t, r
  <2>2. Between(t, s, v, w, off[l]) /\ t[1] \in Int /\ t[2] \in Int
    BY <1>9, <1>13
  <2>3. /\ -1 <= t[1] /\ t[1] < t[2] /\ t[2] <= Len(s)
        /\ t[1] >= 0 => s[t[1] + 1] <= v
        /\ t[2] < Len(s) => v < s[t[2] + 1]
        /\ CutOrNone(t[3], w, off[l])
    BY <2>2 DEF Between
  <2>4. t[2] = t[1] + 1
    BY <1>13, <2>2
  <2>5. t[1] + 1 \in 0 .. Len(s) /\ (t[1] + 1 > 0 => t[1] >= 0)
    BY <1>2, <2>2, <2>3, <2>4
  <2> HIDE DEF s
  <2>6. QED
    BY <2>1, <2>2, <2>3, <2>4, <2>5 DEF Bisected
<1>15. QED
  BY <1>3, <1>14

\* Where v is in s, or -1.
Answers(r, s, v) ==
    \/ ~Contains(s, v) /\ r = <<-1>>
    \/ \E i \in DOMAIN s : s[i] = v /\ r = <<i - 1>>

\* v joins s in order, or stays out of it.
Joins(r, s, s2, v, unique) ==
    IF unique /\ Contains(s, v) THEN r = <<-1>> /\ s2 = s
    ELSE \E i \in 0 .. Len(s) : Place(s, v, i) /\ r = <<i>> /\ s2 = InsertAt(s, i + 1, v)

\* A shortcut that is a cut, or none.
LEMMA CacheCut ==
  ASSUME NEW h, NEW ls, NEW S, NEW ns, NEW cs, NEW off, Layout(h, ls, S, ns, cs, off), NEW l \in Lists,
         NEW c, CutOrNone(c, ns[l], off[l])
  PROVE  /\ Layout(h, [ls EXCEPT ![l] = Cached(ls[l], c)], S, ns, cs, off)
         /\ [ls EXCEPT ![l] = Cached(ls[l], c)][l] = Cached(ls[l], c)
<1>1. c[1] \in Nat /\ c[2] \in Nat /\ (c[1] # NULL => AtCut(c[1], c[2], ns[l], off[l]))
  BY DEF CutOrNone
<1>2. ls \in [Lists -> Header]
  BY DEF Layout
<1>3. QED
  BY <1>1, <1>2, CacheLayout

\* Where an element is found, there is a cut.
LEMMA FoundIsCut ==
  ASSUME NEW L, NEW h, NEW ns, NEW cs, NEW off, NEW s, Right(L, h, ns, cs, off, s),
         NEW c, NEW k, NEW n, Found(c, ns, off, k, n)
  PROVE  CutOrNone(c, ns, off)
<1>1. c[1] \in Nat /\ c[2] \in Nat /\ AtCut(c[1], c[2], ns, off)
  BY FoundCut
<1>2. c = <<ns[k], off[k - 1]>>
  BY DEF Found
<1>3. c = <<c[1], c[2]>>
  BY <1>2
<1>4. c \in Nat \X Nat
  BY <1>1, <1>3
<1>5. QED
  BY <1>1, <1>4 DEF CutOrNone

\* After the binary search, the element at its lower bound and where v belongs.
LEMMA BisectPlace ==
  ASSUME NEW ls, NEW S, NEW ns, NEW cs, NEW off, Layout(heap, ls, S, ns, cs, off), NEW l \in Lists,
         NEW v \in Int, Sorted(S[l]), NEW t, t = Bisect(ls[l], v)
  PROVE  /\ t[1] \in Int /\ t[1] + 1 \in 0 .. Len(S[l]) /\ CutOrNone(t[2], ns[l], off[l])
         /\ Place(S[l], v, t[1] + 1)
         /\ Contains(S[l], v) <=> t[1] + 1 > 0 /\ S[l][t[1] + 1] = v
<1> DEFINE s == S[l]
           i == t[1] + 1
<1>1. Bisected(t, s, v, ns[l], off[l])
  BY BisectFinds
<1>2. /\ i \in 0 .. Len(s) /\ t[1] \in Int
      /\ i > 0 => s[i] <= v
      /\ i < Len(s) => v < s[i + 1]
      /\ CutOrNone(t[2], ns[l], off[l])
  BY <1>1 DEF Bisected
<1>3. s \in Seq(Int)
  BY DEF Layout
<1> HIDE DEF s, i
<1>4. Place(s, v, i) /\ (Contains(s, v) <=> i > 0 /\ s[i] = v)
  BY <1>2, <1>3, PlaceIs DEF s
<1>5. QED
  BY <1>2, <1>4 DEF s, i

\* Through the cut c, element n of s can be read.
Readable(c, n, s, ns, off) == CutOrNone(c, ns, off) /\ Element(c, n) = s[n + 1]

\* The lower bound, if there is one, is an element that can be read.
LEMMA LowerFound ==
  ASSUME NEW ls, NEW S, NEW ns, NEW cs, NEW off, Layout(heap, ls, S, ns, cs, off), NEW l \in Lists,
         NEW r, CutOrNone(r, ns[l], off[l]), NEW n \in Nat, n < Len(S[l]),
         NEW c, c = FindNode(Cached(ls[l], r), n)
  PROVE  Readable(c, n, S[l], ns[l], off[l])
<1> DEFINE L2 == Cached(ls[l], r)
           l2 == [ls EXCEPT ![l] = L2]
<1>1. Layout(heap, l2, S, ns, cs, off) /\ l2[l] = L2
  BY CacheCut
<1> HIDE DEF l2, L2
<1>2. Right(l2[l], heap, ns[l], cs[l], off[l], S[l])
  BY <1>1 DEF Layout
<1>4. PICK k \in 1 .. Len(ns[l]) : Found(FindNode(l2[l], n), ns[l], off[l], k, n)
  BY <1>1, FindNodeFinds
<1>5. Found(c, ns[l], off[l], k, n)
  BY <1>1, <1>4 DEF L2
<1>6. QED
  BY <1>2, <1>5, ElementIs, FoundIsCut DEF Readable

\* bl_find finds v or answers -1.
LEMMA FindSound ==
  ASSUME NEW S, NEW ns, NEW cs, NEW off, Layout(heap, lists, S, ns, cs, off), NEW l \in Lists,
         NEW v \in Int, BlFind(l, v)
  PROVE  Sound(heap', lists', S) /\ Answers(result', S[l], v)
<1> DEFINE L == lists[l]
           s == S[l]
           t == Bisect(L, v)
           lower == t[1]
           c == FindNode(Cached(L, t[2]), lower)
<1>1. Elements(l) = s
  BY HeadNodes DEF Elements
<1>2. Sorted(s)
  BY <1>1 DEF BlFind
<1>3. IF lower = -1 THEN Become(l, <<Cached(L, t[2]), heap>>) /\ result' = <<-1>>
      ELSE /\ Become(l, <<Cached(L, c), heap>>)
           /\ result' = IF Element(c, lower) = v THEN <<lower>> ELSE <<-1>>
  BY DEF BlFind
<1> HIDE DEF t
<1>4. /\ lower \in Int /\ lower + 1 \in 0 .. Len(s) /\ CutOrNone(t[2], ns[l], off[l])
      /\ Contains(s, v) <=> lower + 1 > 0 /\ s[lower + 1] = v
  BY <1>2, BisectPlace DEF t
<1>5. s \in Seq(Int) /\ Len(s) \in Nat
  BY DEF Layout
<1>6. ASSUME NEW r, CutOrNone(r, ns[l], off[l]), Become(l, <<Cached(L, r), heap>>)
      PROVE  Sound(heap', lists', S)
  <2>1. Layout(heap, [lists EXCEPT ![l] = Cached(L, r)], S, ns, cs, off)
    BY <1>6, CacheCut
  <2>2. heap' = heap /\ lists' = [lists EXCEPT ![l] = Cached(L, r)]
    BY <1>6 DEF Become
  <2>3. QED
    BY <2>1, <2>2 DEF Sound
<1>7. CASE lower = -1
  <2>1. ~Contains(s, v)
    <3> HIDE DEF lower
    <3>1. ~(lower + 1 > 0)
      BY <1>7
    <3>2. QED
      BY <1>4, <3>1
  <2>2. Become(l, <<Cached(L, t[2]), heap>>) /\ result' = <<-1>>
    BY <1>3, <1>7
  <2>3. Sound(heap', lists', S)
    BY <1>4, <1>6, <2>2
  <2>4. QED
    BY <2>1, <2>2, <2>3 DEF Answers
<1>8. CASE lower # -1
  <2>1. lower \in Nat /\ lower + 1 > 0 /\ (lower + 1) - 1 = lower /\ lower + 1 \in 1 .. Len(s)
    <3> DEFINE Z == Len(s)
    <3>1. lower \in Int /\ lower + 1 \in 0 .. Z /\ lower # -1 /\ Z \in Nat
      BY <1>4, <1>5, <1>8
    <3> HIDE DEF lower, Z
    <3>2. lower \in Nat /\ lower + 1 > 0 /\ (lower + 1) - 1 = lower /\ lower + 1 \in 1 .. Z
      BY <3>1
    <3>3. QED
      BY <3>2 DEF Z
  <2>2. CutOrNone(c, ns[l], off[l]) /\ Element(c, lower) = s[lower + 1]
    <3>1. c = FindNode(Cached(L, t[2]), lower)
      OBVIOUS
    <3>2. lower < Len(s)
      <4> DEFINE Z == Len(s)
      <4>1. lower \in Nat /\ Z \in Nat /\ lower + 1 \in 1 .. Z
        BY <1>5, <2>1
      <4> HIDE DEF lower, Z
      <4>2. lower < Z
        BY <4>1
      <4>3. QED
        BY <4>2 DEF Z
    <3> HIDE DEF lower, c
    <3>3. Readable(c, lower, s, ns[l], off[l])
      BY <1>4, <2>1, <3>1, <3>2, LowerFound
    <3>4. QED
      BY <3>3 DEF Readable
  <2>3. Become(l, <<Cached(L, c), heap>>) /\ result' = IF Element(c, lower) = v THEN <<lower>> ELSE <<-1>>
    BY <1>3, <1>8
  <2>4. Sound(heap', lists', S)
    <3> HIDE DEF c
    <3>1. QED
      BY <1>6, <2>2, <2>3
  <2>5. CASE s[lower + 1] = v
    <3>1. result' = <<(lower + 1) - 1>>
      BY <2>1, <2>2, <2>3, <2>5
    <3>2. lower + 1 \in DOMAIN s
      BY <1>5, <2>1
    <3>3. QED
      BY <2>4, <2>5, <3>1, <3>2 DEF Answers
  <2>6. CASE s[lower + 1] # v
    <3>1. ~Contains(s, v) /\ result' = <<-1>>
      BY <1>4, <2>2, <2>3, <2>6
    <3>2. QED
      BY <2>4, <3>1 DEF Answers
  <2>7. QED
    BY <2>5, <2>6
<1>9. QED
  BY <1>7, <1>8

\* An insertion with another shortcut.
LEMMA InsertCached ==
  ASSUME NEW S, NEW ns, NEW cs, NEW off, Layout(heap, lists, S, ns, cs, off), NEW l \in Lists,
         NEW c, CutOrNone(c, ns[l], off[l]), NEW i \in 0 .. Len(S[l]), NEW v \in Int,
         Become(l, BlInsert(Cached(lists[l], c), i, v))
  PROVE  Sound(heap', lists', [S EXCEPT ![l] = InsertAt(S[l], i + 1, v)])
<1> DEFINE L2 == Cached(lists[l], c)
           l2 == [lists EXCEPT ![l] = L2]
           Lh == BlInsert(L2, i, v)
<1>1. Layout(heap, l2, S, ns, cs, off) /\ l2[l] = L2
  BY CacheCut
<1>2. [l2 EXCEPT ![l] = Lh[1]] = [lists EXCEPT ![l] = Lh[1]]
  <2>1. lists \in [Lists -> Header]
    BY DEF Layout
  <2> HIDE DEF L2, Lh
  <2>2. QED
    BY <2>1
<1>3. Sound(BlInsert(l2[l], i, v)[2], [l2 EXCEPT ![l] = BlInsert(l2[l], i, v)[1]],
            [S EXCEPT ![l] = InsertAt(S[l], i + 1, v)])
  <2> HIDE DEF l2
  <2>1. QED
    BY <1>1, InsertSound
<1> HIDE DEF l2, L2
<1>4. Sound(Lh[2], [lists EXCEPT ![l] = Lh[1]], [S EXCEPT ![l] = InsertAt(S[l], i + 1, v)])
  BY <1>1, <1>2, <1>3
<1>5. QED
  BY <1>4, Becomes DEF L2

\* bl_insert_sorted and bl_insert_unique_sorted.
LEMMA InsertSortedSound ==
  ASSUME NEW S, NEW ns, NEW cs, NEW off, Layout(heap, lists, S, ns, cs, off), NEW l \in Lists,
         NEW v \in Int, NEW unique \in BOOLEAN, BlInsertSorted(l, v, unique)
  PROVE  \E s2 : Sound(heap', lists', [S EXCEPT ![l] = s2]) /\ Joins(result', S[l], s2, v, unique)
<1> DEFINE L == lists[l]
           s == S[l]
           t == Bisect(L, v)
           lower == t[1]
           d == FindNode(Cached(L, t[2]), lower)
           c == IF unique /\ lower >= 0 THEN d ELSE t[2]
<1>1. Elements(l) = s
  BY HeadNodes DEF Elements
<1>2. Sorted(s)
  BY <1>1 DEF BlInsertSorted
<1>3. IF unique /\ lower >= 0 /\ Element(c, lower) = v
      THEN Become(l, <<Cached(L, c), heap>>) /\ result' = <<-1>>
      ELSE Become(l, BlInsert(Cached(L, c), lower + 1, v)) /\ result' = <<lower + 1>>
  BY DEF BlInsertSorted
<1> HIDE DEF t
<1>4. /\ lower \in Int /\ lower + 1 \in 0 .. Len(s) /\ CutOrNone(t[2], ns[l], off[l])
      /\ Place(s, v, lower + 1)
      /\ Contains(s, v) <=> lower + 1 > 0 /\ s[lower + 1] = v
  BY <1>2, BisectPlace DEF t
<1>5. lower + 1 > 0 <=> lower >= 0
  BY <1>4
<1>6. ASSUME lower >= 0 PROVE CutOrNone(d, ns[l], off[l]) /\ Element(d, lower) = s[lower + 1]
  <2>1. lower \in Nat
    BY <1>4, <1>6
  <2>2. d = FindNode(Cached(L, t[2]), lower)
    OBVIOUS
  <2>3. lower < Len(s)
    <3> DEFINE Z == Len(s)
    <3>1. lower \in Nat /\ Z \in Nat /\ lower + 1 \in 0 .. Z
      <4>1. S[l] \in Seq(Int)
        BY DEF Layout
      <4>2. QED
        BY <1>4, <2>1, <4>1
    <3> HIDE DEF lower, Z
    <3>2. lower < Z
      BY <3>1
    <3>3. QED
      BY <3>2 DEF Z
  <2> HIDE DEF lower, d
  <2>4. Readable(d, lower, s, ns[l], off[l])
    BY <1>4, <2>1, <2>2, <2>3, LowerFound
  <2>5. QED
    BY <2>4 DEF Readable
<1>7. CutOrNone(c, ns[l], off[l])
  BY <1>4, <1>6
<1>8. CASE unique /\ lower >= 0 /\ s[lower + 1] = v
  <2>1. c = d /\ Element(c, lower) = v
    BY <1>6, <1>8
  <2>2. Become(l, <<Cached(L, c), heap>>) /\ result' = <<-1>>
    BY <1>3, <1>8, <2>1
  <2>3. Contains(s, v)
    BY <1>4, <1>5, <1>8
  <2>4. Layout(heap, [lists EXCEPT ![l] = Cached(L, c)], S, ns, cs, off)
    <3> HIDE DEF c
    <3>1. QED
      BY <1>7, CacheCut
  <2>5. heap' = heap /\ lists' = [lists EXCEPT ![l] = Cached(L, c)]
    <3> HIDE DEF c
    <3>1. QED
      BY <2>2 DEF Become
  <2>6. Sound(heap', lists', S)
    <3> HIDE DEF c
    <3>1. QED
      BY <2>4, <2>5 DEF Sound
  <2>7. [S EXCEPT ![l] = s] = S
    <3>1. S \in [Lists -> Seq(Int)]
      BY DEF Layout
    <3>2. QED
      BY <3>1
  <2>8. Joins(result', s, s, v, unique)
    BY <1>8, <2>2, <2>3 DEF Joins
  <2>9. QED
    BY <2>6, <2>7, <2>8
<1>9. CASE ~(unique /\ lower >= 0 /\ s[lower + 1] = v)
  <2>1. ~(unique /\ lower >= 0 /\ Element(c, lower) = v)
    BY <1>6, <1>9
  <2>2. Become(l, BlInsert(Cached(L, c), lower + 1, v)) /\ result' = <<lower + 1>>
    BY <1>3, <2>1
  <2>3. ~(unique /\ Contains(s, v))
    BY <1>4, <1>5, <1>9
  <2> DEFINE i == lower + 1
             s2 == InsertAt(s, i + 1, v)
  <2> HIDE DEF c
  <2>4. Sound(heap', lists', [S EXCEPT ![l] = s2])
    <3>1. i \in 0 .. Len(s) /\ Become(l, BlInsert(Cached(L, c), i, v))
      BY <1>4, <2>2
    <3> HIDE DEF i
    <3>2. QED
      BY <1>7, <3>1, InsertCached
  <2>5. Joins(result', s, s2, v, unique)
    BY <1>4, <2>2, <2>3 DEF Joins
  <2> HIDE DEF s2
  <2>6. QED
    BY <2>4, <2>5
<1>10. QED
  BY <1>8, <1>9

\* The search by nodes stops at node K: v is not more than its last element, the
\* nodes before hold less, up to the shortcut, whose first element is not more.
NodeOf(c, v, ns, off, s, K) ==
    /\ K \in 1 .. Len(ns) + 1 /\ c = <<Follow(ns, K - 1), off[K - 1]>>
    /\ K <= Len(ns) => v <= s[off[K]]
    /\ K > 1 => s[off[K - 1]] < v \/ (K <= Len(ns) /\ s[off[K - 1] + 1] <= v)

\* The first and the last element of a node.
LEMMA NodeEnds ==
  ASSUME NEW L, NEW h, NEW ns, NEW cs, NEW off, NEW s, Right(L, h, ns, cs, off, s), NEW k \in 1 .. Len(ns)
  PROVE  /\ h[ns[k]].items[1] = s[off[k - 1] + 1] /\ Last(h[ns[k]].items) = s[off[k]]
         /\ off[k - 1] + 1 \in 1 .. Len(s) /\ off[k] \in 1 .. Len(s)
<1>1. NodeAt(h, ns, cs, off, s, k) /\ Len(s) \in Nat
  BY NodeFacts, ListFacts
<1> DEFINE d == cs[k]
           D == Len(d)
           o == off[k - 1]
           z == off[k]
           Z == Len(s)
<1>2. h[ns[k]].items = d /\ D \in Nat /\ D \in 1 .. BlockSize /\ z = o + D /\ o \in Nat /\ z \in Nat /\ z <= Z
      /\ \A i \in 1 .. D : s[o + i] = d[i]
  BY <1>1 DEF NodeAt, SameFrom
<1>3. Last(d) = d[D]
  BY DEF Last
<1> HIDE DEF d, D, o, z, Z
<1>4. 1 \in 1 .. D /\ D \in 1 .. D
  BY <1>2
<1>5. d[1] = s[o + 1] /\ d[D] = s[z]
  BY <1>2, <1>4
<1>6. o + 1 \in 1 .. Z /\ z \in 1 .. Z
  BY <1>1, <1>2 DEF Z
<1>7. QED
  BY <1>2, <1>3, <1>5, <1>6 DEF o, z, Z

\* The search by nodes ends at the first node whose last element is not less than v.
LEMMA FindSortedFinds ==
  ASSUME NEW ls, NEW S, NEW ns, NEW cs, NEW off, Layout(heap, ls, S, ns, cs, off), NEW l \in Lists,
         NEW v \in Int
  PROVE  \E K \in 1 .. Len(ns[l]) + 1 : NodeOf(FindSorted(ls[l], v), v, ns[l], off[l], S[l], K)
<1> DEFINE L == ls[l]
           w == ns[l]
           N == Len(w)
           s == S[l]
           o == off[l]
           c == IF L.last # NULL /\ v >= heap[L.last].items[1] THEN <<L.last, L.lastn>> ELSE <<L.head, 0>>
           n0 == Nodes(heap, c[1])
           G == Len(n0)
           T == {i \in 1 .. G + 1 : i > G \/ v <= Last(heap[n0[i]].items)}
           k == Min(T)
<1>1. Right(L, heap, w, cs[l], o, s)
  BY DEF Layout
<1>2. N \in Nat /\ s \in Seq(Int) /\ w \in Seq(Nat \ {0}) /\ (\A i \in 0 .. N : o[i] \in Nat) /\ o[0] = 0
  BY <1>1, ListFacts
<1>3. FindSorted(L, v) = <<IF k > G THEN NULL ELSE n0[k], c[2] + Skipped(heap, n0)[k - 1]>>
  BY DEF FindSorted
<1>4. \E j \in 0 .. N : /\ c = <<Follow(w, j), o[j]>>
                        /\ j > 0 => j < N /\ s[o[j] + 1] <= v
  <2>1. CASE L.last # NULL /\ v >= heap[L.last].items[1]
    <3>1. AtCut(L.last, L.lastn, w, o)
      BY <1>1, <2>1 DEF Right
    <3>2. PICK i \in 1 .. N : L.last = w[i] /\ L.lastn = o[i - 1]
      BY <3>1 DEF AtCut
    <3>3. heap[L.last].items[1] = s[o[i - 1] + 1] /\ o[i - 1] + 1 \in 1 .. Len(s)
      BY <1>1, <3>2, NodeEnds
    <3>4. s[o[i - 1] + 1] \in Int
      BY <1>2, <3>3, ElementOfSeq
    <3>5. s[o[i - 1] + 1] <= v
      BY <2>1, <3>3, <3>4
    <3>6. i - 1 \in 0 .. N /\ i - 1 < N /\ (i - 1) + 1 = i
      BY <1>2
    <3>7. Follow(w, i - 1) = w[i]
      BY <3>6 DEF Follow
    <3>8. c = <<Follow(w, i - 1), o[i - 1]>>
      BY <2>1, <3>2, <3>7
    <3>9. QED
      BY <3>5, <3>6, <3>8
  <2>2. CASE ~(L.last # NULL /\ v >= heap[L.last].items[1])
    <3>1. L.head = Follow(w, 0)
      BY <1>1 DEF Right
    <3>2. c = <<Follow(w, 0), o[0]>> /\ 0 \in 0 .. N /\ ~(0 > 0)
      BY <1>2, <2>2, <3>1
    <3>3. QED
      BY <3>2
  <2>3. QED
    BY <2>1, <2>2
<1> HIDE DEF c
<1>5. PICK j \in 0 .. N : c = <<Follow(w, j), o[j]>> /\ (j > 0 => j < N /\ s[o[j] + 1] <= v)
  BY <1>4
<1>6. n0 = Rest(w, j)
  BY <1>5, NodesAt
<1>7. G = N - j /\ G \in Nat /\ \A i \in 1 .. G : n0[i] = w[j + i]
  <2>1. Len(Rest(w, j)) = N - j /\ \A i \in 1 .. N - j : Rest(w, j)[i] = w[j + i]
    BY <1>2, RestType
  <2>2. N - j \in Nat
    BY <1>2
  <2> HIDE DEF n0
  <2>3. QED
    BY <1>6, <2>1, <2>2
<1>8. Skipped(heap, n0) = Counts(o, N, j)
  <2>1. Skipped(heap, Rest(w, j)) = Counts(o, N, j)
    BY <1>1, SkippedRest
  <2> HIDE DEF n0
  <2>2. QED
    BY <1>6, <2>1
<1> HIDE DEF n0, G
<1>9. k \in T /\ \A i \in T : k <= i
  <2>1. T \subseteq 0 .. G + 1 /\ G + 1 \in T
    BY <1>7
  <2> DEFINE b == G + 1
  <2>2. b \in Nat /\ T \subseteq 0 .. b /\ T # {}
    BY <1>7, <2>1
  <2> HIDE DEF T, b
  <2>3. QED
    BY <2>2, MinMax
<1>10. k \in 1 .. G + 1 /\ (k <= G => v <= Last(heap[n0[k]].items))
       /\ \A i \in 1 .. G : i < k => ~(v <= Last(heap[n0[i]].items))
  <2> HIDE DEF k
  <2>1. k \in 1 .. G + 1 /\ (k > G \/ v <= Last(heap[n0[k]].items))
    BY <1>9
  <2>2. ASSUME NEW i \in 1 .. G, i < k PROVE ~(v <= Last(heap[n0[i]].items))
    <3>1. ~(k <= i) /\ i \in 1 .. G + 1
      BY <1>7, <2>1, <2>2
    <3>2. i \notin T
      BY <1>9, <3>1
    <3>3. QED
      BY <3>1, <3>2
  <2>3. QED
    BY <1>7, <2>1, <2>2
<1> HIDE DEF k, T
<1> DEFINE K == j + k
           e == FindSorted(L, v)
<1>11. K \in 1 .. N + 1 /\ K - 1 = j + (k - 1) /\ K - 1 \in 0 .. N /\ k - 1 \in 0 .. N - j /\ j < K
       /\ (k > G <=> K > N)
  BY <1>2, <1>7, <1>10
<1>12. e = <<Follow(w, K - 1), o[K - 1]>>
  <2>1. (IF k > G THEN NULL ELSE n0[k]) = Follow(w, K - 1)
    <3>1. CASE k > G
      <4>1. ~(K - 1 < N)
        BY <1>2, <1>11, <3>1
      <4> HIDE DEF K
      <4>2. QED
        BY <3>1, <4>1 DEF Follow
    <3>2. CASE ~(k > G)
      <4>1. k \in 1 .. G /\ K - 1 < N /\ (K - 1) + 1 = K /\ n0[k] = w[K]
        BY <1>2, <1>7, <1>10, <1>11, <3>2
      <4> HIDE DEF K
      <4>2. QED
        BY <3>2, <4>1 DEF Follow
    <3>3. QED
      BY <3>1, <3>2
  <2>2. c[2] + Skipped(heap, n0)[k - 1] = o[K - 1]
    <3>1. c[2] = o[j]
      BY <1>5
    <3>2. Counts(o, N, j)[k - 1] = o[j + (k - 1)] - o[j]
      BY <1>11 DEF Counts
    <3>3. o[j] \in Nat /\ o[K - 1] \in Nat
      BY <1>2, <1>11
    <3>4. Skipped(heap, n0)[k - 1] = o[K - 1] - o[j]
      BY <1>8, <1>11, <3>2
    <3> DEFINE a == o[j]
               b == o[K - 1]
    <3>5. a \in Nat /\ b \in Nat
      BY <3>3
    <3> HIDE DEF a, b
    <3>6. a + (b - a) = b
      BY <3>5
    <3>7. QED
      BY <3>1, <3>4, <3>6 DEF a, b
  <2>3. QED
    BY <1>3, <2>1, <2>2
<1>13. ASSUME K <= N PROVE v <= s[o[K]]
  <2>1. k \in 1 .. G /\ n0[k] = w[K] /\ K \in 1 .. N /\ k <= G
    BY <1>2, <1>7, <1>10, <1>11, <1>13
  <2> HIDE DEF K
  <2>2. Last(heap[w[K]].items) = s[o[K]]
    BY <1>1, <2>1, NodeEnds, SMTT(20)
  <2>3. QED
    BY <1>10, <2>1, <2>2
<1>14. ASSUME K > 1 PROVE s[o[K - 1]] < v \/ (K <= N /\ s[o[K - 1] + 1] <= v)
  <2>1. CASE k > 1
    <3>1. k - 1 \in 1 .. G /\ k - 1 < k /\ K - 1 \in 1 .. N /\ n0[k - 1] = w[K - 1]
      BY <1>2, <1>7, <1>10, <1>11, <2>1
    <3> DEFINE i == K - 1
    <3> HIDE DEF i
    <3>2. i \in 1 .. N /\ n0[k - 1] = w[i]
      BY <3>1 DEF i
    <3>3. Last(heap[w[i]].items) = s[o[i]] /\ o[i] \in 1 .. Len(s)
      BY <1>1, <3>2, NodeEnds
    <3>4. s[o[i]] \in Int
      BY <1>2, <3>3, ElementOfSeq
    <3>5. ~(v <= s[o[i]])
      BY <1>10, <3>1, <3>2, <3>3
    <3>6. s[o[i]] < v
      BY <3>4, <3>5
    <3>7. QED
      BY <3>6 DEF i
  <2>2. CASE ~(k > 1)
    <3>1. j > 0 /\ K - 1 = j
      BY <1>10, <1>11, <1>14, <2>2, <1>7
    <3>2. j < N /\ s[o[j] + 1] <= v
      BY <1>5, <3>1
    <3> HIDE DEF K
    <3>3. K <= N
      BY <1>2, <1>11, <3>1, <3>2
    <3>4. QED
      BY <3>1, <3>2, <3>3
  <2>3. QED
    BY <2>1, <2>2
<1> HIDE DEF K, e
<1>15. NodeOf(e, v, w, o, s, K)
  BY <1>11, <1>12, <1>13, <1>14 DEF NodeOf
<1>16. QED
  BY <1>11, <1>15 DEF e

\* The last of the elements of d that is not more than v.
LastUpTo(k, d, v) ==
    k \in 0 .. Len(d) /\ (k > 0 => d[k] <= v) /\ (k < Len(d) => v < d[k + 1])

\* The search within a node.
LEMMA UpToIs ==
  ASSUME NEW p, NEW d \in Seq(Int), heap[p].items = d, NEW v \in Int
  PROVE  LastUpTo(UpTo(p, v), d, v)
<1> DEFINE D == Len(d)
           T == {0} \cup {i \in DOMAIN d : d[i] <= v}
           k == Max(T)
<1>1. D \in Nat /\ DOMAIN d = 1 .. D /\ \A i \in 1 .. D : d[i] \in Int
  BY ElementOfSeq
<1>2. UpTo(p, v) = k
  BY DEF UpTo
<1>3. T \subseteq 0 .. D /\ 0 \in T
  BY <1>1
<1>4. \A i \in T : i = 0 \/ d[i] <= v
  OBVIOUS
<1>5. \A i \in 1 .. D : d[i] <= v => i \in T
  BY <1>1
<1> HIDE DEF T, D
<1>6. k \in T /\ \A i \in T : i <= k
  BY <1>1, <1>3, MinMax
<1> HIDE DEF k
<1>7. k \in 0 .. D
  BY <1>3, <1>6
<1>8. k > 0 => d[k] <= v
  BY <1>4, <1>6, <1>7
<1>9. ASSUME k < D PROVE v < d[k + 1]
  <2>1. k + 1 \in 1 .. D /\ ~(k + 1 <= k)
    BY <1>1, <1>7, <1>9
  <2>2. ~(d[k + 1] <= v) /\ d[k + 1] \in Int
    BY <1>1, <1>5, <1>6, <2>1
  <2>3. QED
    BY <2>2
<1>10. QED
  BY <1>2, <1>7, <1>8, <1>9 DEF LastUpTo, D

\* In a sorted list: the first i elements are no more than v, the next one no less.
LEMMA LoosePlace ==
  ASSUME NEW s \in Seq(Int), Sorted(s), NEW v \in Int, NEW i \in 0 .. Len(s),
         i > 0 => s[i] <= v, i < Len(s) => v <= s[i + 1]
  PROVE  Place(s, v, i)
<1> DEFINE Z == Len(s)
<1>1. Z \in Nat /\ (\A j \in 1 .. Z : s[j] \in Int) /\ DOMAIN s = 1 .. Z
  BY ElementOfSeq
<1>2. \A a, b \in 1 .. Z : a <= b => s[a] <= s[b]
  BY SortedMonotone
<1>3. i \in 0 .. Z /\ (i > 0 => s[i] <= v) /\ (i < Z => v <= s[i + 1])
  OBVIOUS
<1> HIDE DEF Z
<1>4. ASSUME NEW j \in 1 .. Z PROVE IF j <= i THEN s[j] <= v ELSE v <= s[j]
  <2>1. s[j] \in Int
    BY <1>1
  <2>2. CASE j <= i
    <3>1. i > 0 /\ i \in 1 .. Z
      BY <1>1, <1>3, <2>2
    <3>2. s[j] <= s[i] /\ s[i] <= v /\ s[i] \in Int
      BY <1>1, <1>2, <1>3, <2>2, <3>1
    <3>3. QED
      BY <2>1, <2>2, <3>2
  <2>3. CASE ~(j <= i)
    <3>1. i < Z /\ i + 1 \in 1 .. Z /\ i + 1 <= j
      BY <1>1, <1>3, <2>3
    <3>2. s[i + 1] <= s[j] /\ v <= s[i + 1] /\ s[i + 1] \in Int
      BY <1>1, <1>2, <1>3, <3>1
    <3>3. QED
      BY <2>1, <2>3, <3>2
  <2>4. QED
    BY <2>2, <2>3
<1>5. QED
  BY <1>1, <1>3, <1>4 DEF Place, Z

\* Where v belongs, by a node and a place in it, and whether it is there already.
Placed(s, v, o, k, d) ==
    /\ Place(s, v, o + k) /\ o + k \in 0 .. Len(s)
    /\ Contains(s, v) <=> k > 0 /\ d[k] = v
    /\ k > 0 => o + k \in 1 .. Len(s) /\ s[o + k] = d[k]

\* Where v belongs in the list, from where it belongs in its node.
LEMMA PlaceInNode ==
  ASSUME NEW L, NEW h, NEW ns, NEW cs, NEW off, NEW s, Right(L, h, ns, cs, off, s), Sorted(s),
         NEW v \in Int, NEW c, NEW K \in 1 .. Len(ns), NodeOf(c, v, ns, off, s, K),
         NEW k, LastUpTo(k, cs[K], v)
  PROVE  Placed(s, v, off[K - 1], k, cs[K])
<1> DEFINE Z == Len(s)
           d == cs[K]
           D == Len(d)
           o == off[K - 1]
           z == off[K]
           i == o + k
<1>1. NodeAt(h, ns, cs, off, s, K) /\ s \in Seq(Int) /\ Z \in Nat /\ Len(ns) \in Nat
  BY NodeFacts, ListFacts
<1>2. D \in Nat /\ D \in 1 .. BlockSize /\ z = o + D /\ o \in Nat /\ z \in Nat /\ z <= Z
      /\ (\A x \in 1 .. D : s[o + x] = d[x]) /\ d \in Seq(Int)
  BY <1>1 DEF NodeAt, SameFrom
<1>3. k \in 0 .. D /\ (k > 0 => d[k] <= v) /\ (k < D => v < d[k + 1])
  BY DEF LastUpTo
<1>4. v <= s[z] /\ (K > 1 => s[o] < v \/ s[o + 1] <= v)
  BY DEF NodeOf
<1>5. K = 1 => o = 0
  BY ListFacts
<1>6. \A x \in 1 .. Z : s[x] \in Int
  BY <1>1, ElementOfSeq
<1>7. \A x, y \in 1 .. Z : x <= y => s[x] <= s[y]
  BY <1>1, SortedMonotone
<1>8. K > 1 \/ K = 1
  BY <1>1
<1> HIDE DEF Z, d, D, o, z
<1>9. i \in 0 .. Z /\ z \in 1 .. Z /\ i \in Nat /\ (k > 0 => i \in 1 .. Z /\ i > 0 /\ k \in 1 .. D)
      /\ (k < D => k + 1 \in 1 .. D /\ i + 1 = o + (k + 1) /\ i + 1 \in 1 .. Z /\ i < Z)
      /\ (k = D => i = z) /\ (k = 0 => i = o) /\ (k = D \/ k < D) /\ (k > 0 \/ k = 0)
  BY <1>1, <1>2, <1>3
<1>10. k > 0 => s[i] = d[k] /\ s[i] <= v
  BY <1>2, <1>3, <1>9
<1>11. k < D => v < s[i + 1]
  <2> HIDE DEF i
  <2>1. QED
    BY <1>2, <1>3, <1>9, SMTT(20)
<1>12. ASSUME k = 0, o > 0 PROVE s[o] < v /\ o \in 1 .. Z
  <2>1. 0 < D /\ 0 + 1 = 1 /\ 1 \in 1 .. D
    BY <1>2
  <2>2. v < d[1] /\ d[1] = s[o + 1] /\ K > 1
    BY <1>2, <1>3, <1>5, <1>8, <1>12, <2>1
  <2>3. o + 1 \in 1 .. Z /\ o \in 1 .. Z
    BY <1>1, <1>2, <1>12
  <2>4. s[o + 1] \in Int
    BY <1>6, <2>3
  <2>5. ~(s[o + 1] <= v)
    BY <2>2, <2>4
  <2>6. QED
    BY <1>4, <2>2, <2>3, <2>5
<1>13. i > 0 => s[i] <= v
  <2>1. CASE k > 0
    BY <1>10, <2>1
  <2>2. CASE k = 0
    <3>1. ASSUME i > 0 PROVE s[o] < v /\ o \in 1 .. Z /\ i = o
      BY <1>9, <1>12, <2>2, <3>1
    <3> HIDE DEF i
    <3>2. QED
      BY <1>6, <3>1
  <2>3. QED
    BY <1>9, <2>1, <2>2
<1>14. i < Z => v <= s[i + 1]
  <2>1. CASE k < D
    <3>1. s[i + 1] \in Int
      BY <1>6, <1>9, <2>1
    <3>2. QED
      BY <1>11, <2>1, <3>1
  <2>2. CASE k = D
    <3>1. ASSUME i < Z PROVE v <= s[i + 1]
      <4>1. i = z /\ i \in 1 .. Z /\ i + 1 \in 1 .. Z /\ i <= i + 1
        BY <1>1, <1>9, <2>2, <3>1
      <4> HIDE DEF i
      <4>2. s[i] <= s[i + 1] /\ v <= s[i] /\ s[i] \in Int /\ s[i + 1] \in Int
        BY <1>4, <1>6, <1>7, <4>1
      <4>3. QED
        BY <4>2
    <3>2. QED
      BY <3>1
  <2>3. QED
    BY <1>9, <2>1, <2>2
<1>15. Place(s, v, i)
  <2> HIDE DEF i
  <2>1. QED
    BY <1>1, <1>9, <1>13, <1>14, LoosePlace DEF Z
<1>16. Contains(s, v) <=> \E j \in 1 .. Z : s[j] = v
  BY DEF Contains, Z
<1>17. ASSUME k > 0, d[k] = v PROVE Contains(s, v)
  BY <1>9, <1>10, <1>16, <1>17
<1>18. ASSUME Contains(s, v) PROVE k > 0 /\ d[k] = v
  <2>1. PICK j \in 1 .. Z : s[j] = v
    BY <1>16, <1>18
  <2>2. CASE j <= i
    <3>1. i > 0 /\ i \in 1 .. Z
      BY <1>9, <2>2
    <3> HIDE DEF i
    <3>2. s[j] <= s[i] /\ s[i] <= v /\ s[i] \in Int
      BY <1>6, <1>7, <1>13, <2>2, <3>1
    <3>3. s[i] = v
      BY <2>1, <3>2
    <3>4. k > 0
      BY <1>6, <1>9, <1>12, <3>1, <3>3
    <3>5. QED
      BY <1>10, <3>3, <3>4
  <2>3. CASE ~(j <= i)
    <3>1. i + 1 <= j
      BY <1>9, <2>3
    <3>2. CASE k < D
      <4> HIDE DEF i
      <4>1. v < s[i + 1] /\ s[i + 1] <= s[j] /\ s[i + 1] \in Int
        BY <1>6, <1>7, <1>9, <1>11, <3>1, <3>2
      <4>2. QED
        BY <2>1, <4>1
    <3>3. CASE k = D
      <4>1. k > 0 /\ i = z
        BY <1>2, <1>9, <3>3
      <4>2. s[i] = d[k] /\ s[i] <= v /\ v <= s[i] /\ s[i] \in Int
        <5> HIDE DEF i
        <5>1. QED
          BY <1>4, <1>6, <1>9, <1>10, <4>1
      <4> HIDE DEF i
      <4>3. QED
        BY <4>1, <4>2
    <3>4. QED
      BY <1>9, <3>2, <3>3
  <2>4. QED
    BY <2>2, <2>3
<1>19. QED
  BY <1>9, <1>10, <1>15, <1>17, <1>18 DEF Placed, Z, d, o

\* No element is as much as v.
LEMMA PlaceAtEnd ==
  ASSUME NEW L, NEW h, NEW ns, NEW cs, NEW off, NEW s, Right(L, h, ns, cs, off, s), Sorted(s),
         NEW v \in Int, NEW c, NodeOf(c, v, ns, off, s, Len(ns) + 1)
  PROVE  Place(s, v, Len(s)) /\ ~Contains(s, v) /\ c[1] = NULL
<1> DEFINE Z == Len(s)
           N == Len(ns)
           K == N + 1
<1>1. s \in Seq(Int) /\ Z \in Nat /\ N \in Nat /\ off[N] = Z /\ off[0] = 0
  BY ListFacts
<1>2. c = <<Follow(ns, K - 1), off[K - 1]>> /\ (K > 1 => s[off[K - 1]] < v \/ (K <= N /\ s[off[K - 1] + 1] <= v))
  BY DEF NodeOf
<1>3. K - 1 = N /\ ~(K <= N) /\ (K > 1 \/ N = 0)
  BY <1>1
<1> HIDE DEF K
<1>4. Z > 0 => s[Z] < v
  BY <1>1, <1>2, <1>3
<1>5. c[1] = NULL
  BY <1>2, <1>3 DEF Follow
<1>6. \A x \in 1 .. Z : s[x] \in Int
  BY <1>1, ElementOfSeq
<1>7. \A x, y \in 1 .. Z : x <= y => s[x] <= s[y]
  BY <1>1, SortedMonotone
<1>8. Contains(s, v) <=> \E j \in 1 .. Z : s[j] = v
  BY DEF Contains
<1> HIDE DEF Z
<1>9. ASSUME NEW j \in 1 .. Z PROVE s[j] < v
  <2>1. Z > 0 /\ Z \in 1 .. Z /\ j <= Z
    BY <1>1
  <2>2. s[j] <= s[Z] /\ s[Z] < v /\ s[Z] \in Int /\ s[j] \in Int
    BY <1>4, <1>6, <1>7, <2>1
  <2>3. QED
    BY <2>2
<1>10. ~Contains(s, v)
  <2>1. \A j \in 1 .. Z : s[j] # v
    <3>1. ASSUME NEW j \in 1 .. Z PROVE s[j] # v
      <4>1. s[j] < v /\ s[j] \in Int
        BY <1>6, <1>9
      <4>2. QED
        BY <4>1
    <3>2. QED
      BY <3>1
  <2>2. QED
    BY <1>8, <2>1
<1>11. Z \in 0 .. Z /\ ~(Z < Z) /\ (Z > 0 => s[Z] <= v)
  <2>1. Z \in 0 .. Z /\ ~(Z < Z) /\ (Z > 0 => Z \in 1 .. Z)
    BY <1>1
  <2>2. Z > 0 => s[Z] \in Int
    BY <1>6, <2>1
  <2>3. QED
    BY <1>4, <2>1, <2>2
<1>12. Place(s, v, Z)
  BY <1>1, <1>11, LoosePlace DEF Z
<1>13. QED
  BY <1>5, <1>10, <1>12 DEF Z

\* A node was found: the cut, what the node holds and where v belongs in it.
InNode(c, v, k, ns, cs, off, s, K) ==
    /\ K \in 1 .. Len(ns) /\ CutOrNone(c, ns, off) /\ c[2] = off[K - 1] /\ c[1] = ns[K] /\ c[1] # NULL
    /\ heap[c[1]].items = cs[K] /\ off[K - 1] \in Nat /\ k \in Nat
    /\ Placed(s, v, off[K - 1], k, cs[K])

\* No node was found: v is more than every element.
AtEnd(c, v, s) == c[1] = NULL /\ Place(s, v, Len(s)) /\ ~Contains(s, v)

\* After the search by nodes, where v belongs.
LEMMA SortedPlace ==
  ASSUME NEW S, NEW ns, NEW cs, NEW off, Layout(heap, lists, S, ns, cs, off), NEW l \in Lists,
         NEW v \in Int, Sorted(S[l]), NEW c, c = FindSorted(lists[l], v)
  PROVE  AtEnd(c, v, S[l]) \/ \E K : InNode(c, v, UpTo(c[1], v), ns[l], cs[l], off[l], S[l], K)
<1> DEFINE w == ns[l]
           N == Len(w)
           s == S[l]
           o == off[l]
<1>1. Right(lists[l], heap, w, cs[l], o, s)
  BY DEF Layout
<1>2. PICK K \in 1 .. N + 1 : NodeOf(c, v, w, o, s, K)
  BY FindSortedFinds
<1>3. N \in Nat
  BY <1>1, ListFacts
<1>4. CASE K = N + 1
  <2>1. NodeOf(c, v, w, o, s, Len(w) + 1)
    BY <1>2, <1>4
  <2> HIDE DEF w, o, s
  <2>2. AtEnd(c, v, s)
    BY <1>1, <2>1, PlaceAtEnd DEF AtEnd, s
  <2>3. QED
    BY <2>2 DEF s
<1>5. CASE K # N + 1
  <2>1. K \in 1 .. N /\ K - 1 < N /\ (K - 1) + 1 = K
    BY <1>3, <1>5
  <2>2. NodeAt(heap, w, cs[l], o, s, K)
    BY <1>1, <2>1, NodeFacts
  <2>3. c = <<w[K], o[K - 1]>>
    <3>1. Follow(w, K - 1) = w[K]
      BY <2>1 DEF Follow
    <3>2. QED
      BY <1>2, <3>1 DEF NodeOf
  <2>4. w[K] \in Nat /\ w[K] # NULL /\ o[K - 1] \in Nat /\ heap[w[K]].items = cs[l][K] /\ cs[l][K] \in Seq(Int)
    BY <2>2 DEF NodeAt
  <2>5. c[1] = w[K] /\ c[2] = o[K - 1] /\ c \in Nat \X Nat
    BY <2>3, <2>4
  <2>6. CutOrNone(c, w, o)
    BY <2>1, <2>5 DEF CutOrNone, AtCut
  <2>7. LastUpTo(UpTo(c[1], v), cs[l][K], v)
    BY <2>4, <2>5, UpToIs
  <2> DEFINE k == UpTo(c[1], v)
  <2> HIDE DEF k, w, o, s
  <2>8. Placed(s, v, o[K - 1], k, cs[l][K])
    BY <1>1, <1>2, <2>1, <2>7, PlaceInNode DEF k, s
  <2>9. k \in Nat
    <3>1. Len(cs[l][K]) \in Nat
      BY <2>4
    <3>2. QED
      BY <2>7, <3>1 DEF LastUpTo, k
  <2>10. InNode(c, v, k, w, cs[l], o, s, K)
    BY <2>1, <2>4, <2>5, <2>6, <2>8, <2>9 DEF InNode, w
  <2>11. QED
    BY <2>10 DEF k, w, o, s
<1>6. QED
  BY <1>4, <1>5

\* bl_insert_sorted and bl_insert_unique_sorted of the lists of numbers.
LEMMA InsertAscendingSound ==
  ASSUME NEW S, NEW ns, NEW cs, NEW off, Layout(heap, lists, S, ns, cs, off), NEW l \in Lists,
         NEW v \in Int, NEW unique \in BOOLEAN, InsertAscending(l, v, unique)
  PROVE  \E s2 : Sound(heap', lists', [S EXCEPT ![l] = s2]) /\ Joins(result', S[l], s2, v, unique)
<1> DEFINE L == lists[l]
           s == S[l]
           c == FindSorted(L, v)
           k == UpTo(c[1], v)
<1>1. Elements(l) = s
  BY HeadNodes DEF Elements
<1>2. Sorted(s)
  BY <1>1 DEF InsertAscending
<1>3. IF c[1] = NULL THEN Become(l, BlAppend(L, v)) /\ result' = <<L.n>>
      ELSE IF unique /\ k > 0 /\ heap[c[1]].items[k] = v
      THEN result' = <<-1>> /\ UNCHANGED <<heap, lists>>
      ELSE Become(l, BlInsert(Cached(L, c), c[2] + k, v)) /\ result' = <<c[2] + k>>
  BY DEF InsertAscending
<1>4. AtEnd(c, v, s) \/ \E K : InNode(c, v, k, ns[l], cs[l], off[l], s, K)
  BY <1>2, SortedPlace
<1>5. s \in Seq(Int) /\ Len(s) \in Nat /\ L.n = Len(s)
  <2>1. Right(L, heap, ns[l], cs[l], off[l], s)
    BY DEF Layout
  <2>2. QED
    BY <2>1, ListFacts
<1> HIDE DEF c, k
<1>6. CASE AtEnd(c, v, s)
  <2>1. c[1] = NULL /\ Place(s, v, Len(s)) /\ ~Contains(s, v)
    BY <1>6 DEF AtEnd
  <2>2. Become(l, BlAppend(L, v)) /\ result' = <<Len(s)>>
    BY <1>3, <1>5, <2>1
  <2>3. Sound(heap', lists', [S EXCEPT ![l] = Append(s, v)])
    BY <2>2, AppendSound, Becomes
  <2>4. Append(s, v) = InsertAt(s, Len(s) + 1, v)
    BY <1>5, AppendInserts
  <2>5. Joins(result', s, Append(s, v), v, unique)
    <3>1. Len(s) \in 0 .. Len(s)
      BY <1>5
    <3>2. QED
      BY <2>1, <2>2, <2>4, <3>1 DEF Joins
  <2>6. QED
    BY <2>3, <2>5
<1>7. ASSUME NEW K, InNode(c, v, k, ns[l], cs[l], off[l], s, K)
      PROVE  \E s2 : Sound(heap', lists', [S EXCEPT ![l] = s2]) /\ Joins(result', S[l], s2, v, unique)
  <2> DEFINE o == off[l][K - 1]
             d == cs[l][K]
             i == o + k
  <2>1. /\ CutOrNone(c, ns[l], off[l]) /\ c[2] = o /\ c[1] # NULL /\ heap[c[1]].items = d
        /\ Placed(s, v, o, k, d)
    BY <1>7 DEF InNode
  <2>2. /\ Place(s, v, i) /\ i \in 0 .. Len(s)
        /\ Contains(s, v) <=> k > 0 /\ d[k] = v
    BY <2>1 DEF Placed
  <2> HIDE DEF i
  <2>3. CASE unique /\ k > 0 /\ d[k] = v
    <3>1. result' = <<-1>> /\ heap' = heap /\ lists' = lists
      BY <1>3, <2>1, <2>3
    <3>2. Sound(heap', lists', S)
      BY <3>1 DEF Sound
    <3>3. [S EXCEPT ![l] = s] = S
      <4>1. S \in [Lists -> Seq(Int)]
        BY DEF Layout
      <4>2. QED
        BY <4>1
    <3>4. Joins(result', s, s, v, unique)
      BY <2>2, <2>3, <3>1 DEF Joins
    <3>5. QED
      BY <3>2, <3>3, <3>4
  <2>4. CASE ~(unique /\ k > 0 /\ d[k] = v)
    <3>1. Become(l, BlInsert(Cached(L, c), i, v)) /\ result' = <<i>>
      BY <1>3, <2>1, <2>4 DEF i
    <3>2. Sound(heap', lists', [S EXCEPT ![l] = InsertAt(S[l], i + 1, v)])
      BY <2>1, <2>2, <3>1, InsertCached
    <3> DEFINE s2 == InsertAt(s, i + 1, v)
    <3>3. Joins(result', s, s2, v, unique)
      BY <2>2, <2>4, <3>1 DEF Joins
    <3> HIDE DEF s2
    <3>4. QED
      BY <3>2, <3>3 DEF s2
  <2>5. QED
    BY <2>3, <2>4
<1>8. QED
  BY <1>4, <1>6, <1>7

\* il_sorted_index_of and the like find v or answer -1.
LEMMA SortedIndexOfSound ==
  ASSUME NEW S, NEW ns, NEW cs, NEW off, Layout(heap, lists, S, ns, cs, off), NEW l \in Lists,
         NEW v \in Int, SortedIndexOf(l, v)
  PROVE  Sound(heap', lists', S) /\ Answers(result', S[l], v)
<1> DEFINE L == lists[l]
           s == S[l]
           c == FindSorted(L, v)
           k == UpTo(c[1], v)
<1>1. Elements(l) = s
  BY HeadNodes DEF Elements
<1>2. Sorted(s)
  BY <1>1 DEF SortedIndexOf
<1>3. IF c[1] = NULL THEN result' = <<-1>> /\ UNCHANGED <<heap, lists>>
      ELSE /\ Become(l, <<Cached(L, c), heap>>)
           /\ result' = IF k > 0 /\ heap[c[1]].items[k] = v THEN <<c[2] + k - 1>> ELSE <<-1>>
  BY DEF SortedIndexOf
<1>4. AtEnd(c, v, s) \/ \E K : InNode(c, v, k, ns[l], cs[l], off[l], s, K)
  BY <1>2, SortedPlace
<1>5. s \in Seq(Int)
  BY DEF Layout
<1> HIDE DEF c, k
<1>6. CASE AtEnd(c, v, s)
  <2>1. c[1] = NULL /\ ~Contains(s, v)
    BY <1>6 DEF AtEnd
  <2>2. result' = <<-1>> /\ heap' = heap /\ lists' = lists
    BY <1>3, <2>1
  <2>3. QED
    BY <2>1, <2>2 DEF Sound, Answers
<1>7. ASSUME NEW K, InNode(c, v, k, ns[l], cs[l], off[l], s, K)
      PROVE  Sound(heap', lists', S) /\ Answers(result', s, v)
  <2> DEFINE o == off[l][K - 1]
             d == cs[l][K]
             i == o + k
  <2>1. /\ CutOrNone(c, ns[l], off[l]) /\ c[2] = o /\ c[1] # NULL /\ heap[c[1]].items = d
        /\ Placed(s, v, o, k, d)
    BY <1>7 DEF InNode
  <2>2. /\ Contains(s, v) <=> k > 0 /\ d[k] = v
        /\ k > 0 => i \in 1 .. Len(s) /\ s[i] = d[k]
    BY <2>1 DEF Placed
  <2>3. Become(l, <<Cached(L, c), heap>>)
        /\ result' = IF k > 0 /\ d[k] = v THEN <<i - 1>> ELSE <<-1>>
    <3>1. o \in Nat /\ k \in Nat
      BY <1>7 DEF InNode
    <3>2. result' = IF k > 0 /\ d[k] = v THEN <<o + k - 1>> ELSE <<-1>>
      BY <1>3, <2>1
    <3>3. o + k - 1 = i - 1
      <4> HIDE DEF o
      <4>1. QED
        BY <3>1
    <3>4. QED
      BY <1>3, <2>1, <3>2, <3>3
  <2>4. heap' = heap /\ lists' = [lists EXCEPT ![l] = Cached(L, c)]
    BY <2>3 DEF Become
  <2>5. Layout(heap, [lists EXCEPT ![l] = Cached(L, c)], S, ns, cs, off)
    BY <2>1, CacheCut
  <2>6. Sound(heap', lists', S)
    BY <2>4, <2>5 DEF Sound
  <2> HIDE DEF i
  <2>7. Answers(result', s, v)
    <3>1. CASE k > 0 /\ d[k] = v
      <4>1. i \in DOMAIN s /\ s[i] = v /\ result' = <<i - 1>>
        BY <1>5, <2>2, <2>3, <3>1
      <4>2. QED
        BY <4>1 DEF Answers
    <3>2. CASE ~(k > 0 /\ d[k] = v)
      BY <2>2, <2>3, <3>2 DEF Answers
    <3>3. QED
      BY <3>1, <3>2
  <2>8. QED
    BY <2>6, <2>7
<1>8. QED
  BY <1>4, <1>6, <1>7

===============================================================================
