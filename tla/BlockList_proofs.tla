--------------------------- MODULE BlockList_proofs ---------------------------
(***************************************************************************)
(* Proofs about the block lists, for every value of the constants.  Sound, *)
(* the inductive invariant, says that the nodes of each list hold its      *)
(* sequence.  Every operation takes it to the sequence that AbstractList   *)
(* gives, so the lists of nodes implement the sequences.                   *)
(***************************************************************************)
EXTENDS BlockNodes_proofs

-----------------------------------------------------------------------------
(* Removal of a range *)

\* Nodes J + 1 to E of the nodes w are freed; the one before them, if any, holds pre,
\* and the one after them, if any, holds suf.
CutHeap(h, w, J, E, pre, suf, hf) ==
    /\ \A p : p \in DOMAIN hf <=> p \in DOMAIN h /\ \A i \in J + 1 .. E : p # w[i]
    /\ J > 0 => hf[w[J]] = [items |-> pre, next |-> Follow(w, E)]
    /\ E < Len(w) => hf[w[E + 1]] = [items |-> suf, next |-> Follow(w, E + 1)]
    /\ \A p \in DOMAIN hf : (J > 0 => p # w[J]) /\ (E < Len(w) => p # w[E + 1]) => hf[p] = h[p]

\* The nodes that take the place, and what they hold.
CutNodes(w, J, E, ms, hf, mc, k0) ==
    /\ ms \in Seq(Nat \ {0}) /\ Len(ms) = Len(mc) /\ Distinct(ms)
    /\ \A p : In(p, ms) <=> (J > 0 /\ p = w[J]) \/ (E < Len(w) /\ p = w[E + 1])
    /\ \A a \in 1 .. Len(ms) : hf[ms[a]] = [items |-> mc[a], next |-> After(w, k0, ms, a)]
    /\ J > 0 => After(w, k0, ms, 0) = w[J]

\* The list from which nodes were cut.
CutHeader(L2, L, w, J, E) ==
    /\ L2 \in Header /\ L2.last = NULL
    /\ L2.head = IF J > 0 THEN L.head ELSE Follow(w, E)
    /\ L2.tail = IF E < Len(w) THEN L.tail ELSE IF J > 0 THEN w[J] ELSE NULL

\* To cut nodes is to put the two at the ends in the place of all of them.
LEMMA CutRewrites ==
  ASSUME NEW h, IsFiniteSet(DOMAIN h), NEW w, NEW cs, Links(h, w, cs),
         NEW J \in 0 .. Len(w), NEW E \in J .. Len(w), NEW pre, NEW suf, NEW hf,
         CutHeap(h, w, J, E, pre, suf, hf), NEW j0, j0 = IF J > 0 THEN J - 1 ELSE 0,
         NEW k0, k0 = IF E < Len(w) THEN E + 1 ELSE E,
         NEW ms, NEW mc, CutNodes(w, J, E, ms, hf, mc, k0)
  PROVE  Rewritten(h, w, cs, j0, k0, ms, mc, hf)
<1> DEFINE N == Len(w)
<1>1. /\ w \in Seq(Nat \ {0}) /\ N \in Nat
      /\ \A i \in 1 .. N : w[i] \in DOMAIN h /\ h[w[i]] = [items |-> cs[i], next |-> Follow(w, i)]
      /\ \A a, b \in 1 .. N : w[a] = w[b] => a = b
  BY DEF Links
<1>2. /\ \A p : p \in DOMAIN hf <=> p \in DOMAIN h /\ \A i \in J + 1 .. E : p # w[i]
      /\ J > 0 => hf[w[J]] = [items |-> pre, next |-> Follow(w, E)]
      /\ E < N => hf[w[E + 1]] = [items |-> suf, next |-> Follow(w, E + 1)]
      /\ \A p \in DOMAIN hf : (J > 0 => p # w[J]) /\ (E < N => p # w[E + 1]) => hf[p] = h[p]
  BY DEF CutHeap
<1>3. /\ ms \in Seq(Nat \ {0}) /\ Len(ms) = Len(mc) /\ Distinct(ms)
      /\ \A p : In(p, ms) <=> (J > 0 /\ p = w[J]) \/ (E < N /\ p = w[E + 1])
      /\ \A a \in 1 .. Len(ms) : hf[ms[a]] = [items |-> mc[a], next |-> After(w, k0, ms, a)]
      /\ J > 0 => After(w, k0, ms, 0) = w[J]
  BY DEF CutNodes
<1>4. J \in 0 .. N /\ E \in J .. N /\ j0 = (IF J > 0 THEN J - 1 ELSE 0) /\ k0 = (IF E < N THEN E + 1 ELSE E)
  OBVIOUS
<1> HIDE DEF N
<1>5. /\ j0 \in 0 .. N /\ k0 \in 0 .. N /\ (j0 > 0 => j0 \in 1 .. N /\ j0 < J /\ J > 0 /\ J = j0 + 1)
      /\ \A i \in j0 + 1 .. k0 : (J > 0 /\ i = J) \/ i \in J + 1 .. E \/ (E < N /\ i = E + 1)
      /\ \A i \in J + 1 .. E : i \in j0 + 1 .. k0 /\ i \in 1 .. N /\ i # J
      /\ J > 0 => J \in j0 + 1 .. k0 /\ J \in 1 .. N
      /\ E < N => E + 1 \in j0 + 1 .. k0 /\ E + 1 \in 1 .. N
      /\ \A i \in J + 1 .. E : i # E + 1
      /\ \A i \in j0 + 1 .. k0 : i \in j0 .. k0 /\ i > 0
  BY <1>1, <1>4
<1>6. \A a \in 1 .. Len(ms) : ms[a] \notin DOMAIN h \/ \E i \in j0 + 1 .. k0 : ms[a] = w[i]
  <2>1. ASSUME NEW a \in 1 .. Len(ms) PROVE \E i \in j0 + 1 .. k0 : ms[a] = w[i]
    <3>1. In(ms[a], ms)
      BY DEF In
    <3>2. (J > 0 /\ ms[a] = w[J]) \/ (E < N /\ ms[a] = w[E + 1])
      BY <1>3, <3>1
    <3>3. QED
      BY <1>5, <3>2
  <2>2. QED
    BY <2>1
<1>7. ASSUME NEW p
      PROVE p \in DOMAIN hf <=> In(p, ms) \/ (p \in DOMAIN h /\ \A i \in j0 + 1 .. k0 : p # w[i])
  <2>1. ASSUME p \in DOMAIN hf, ~In(p, ms) PROVE p \in DOMAIN h /\ \A i \in j0 + 1 .. k0 : p # w[i]
    <3>1. p \in DOMAIN h /\ \A i \in J + 1 .. E : p # w[i]
      BY <1>2, <2>1
    <3>2. (J > 0 => p # w[J]) /\ (E < N => p # w[E + 1])
      BY <1>3, <2>1
    <3>3. QED
      BY <1>5, <3>1, <3>2
  <2>2. ASSUME p \in DOMAIN h, \A i \in j0 + 1 .. k0 : p # w[i] PROVE p \in DOMAIN hf
    BY <1>2, <1>5, <2>2
  <2>3. ASSUME In(p, ms) PROVE p \in DOMAIN hf
    <3>1. PICK x \in 1 .. N : p = w[x] /\ x \notin J + 1 .. E
      <4>1. J \notin J + 1 .. E /\ E + 1 \notin J + 1 .. E
        BY <1>4
      <4>2. QED
        BY <1>3, <1>5, <2>3, <4>1
    <3>2. \A i \in J + 1 .. E : p # w[i]
      BY <1>1, <1>5, <3>1
    <3>3. QED
      BY <1>1, <1>2, <3>1, <3>2
  <2>4. QED
    BY <2>1, <2>2, <2>3
<1>8. IsFiniteSet(DOMAIN hf)
  <2>1. DOMAIN hf \subseteq DOMAIN h
    BY <1>2
  <2>2. QED
    BY <2>1, FS_Subset
<1>9. ASSUME j0 > 0 PROVE hf[w[j0]] = [items |-> cs[j0], next |-> After(w, k0, ms, 0)]
  <2>1. j0 \in 1 .. N /\ J \in 1 .. N /\ j0 # J /\ J > 0 /\ (E < N => j0 # E + 1) /\ j0 \notin J + 1 .. E /\ j0 < N
        /\ j0 + 1 = J
    BY <1>1, <1>4, <1>5, <1>9
  <2>2. w[j0] # w[J] /\ (E < N => w[j0] # w[E + 1]) /\ \A i \in J + 1 .. E : w[j0] # w[i]
    BY <1>1, <1>5, <2>1
  <2>3. w[j0] \in DOMAIN hf
    BY <1>1, <1>2, <2>1, <2>2
  <2>4. hf[w[j0]] = h[w[j0]]
    BY <1>2, <2>2, <2>3
  <2>5. Follow(w, j0) = w[J]
    BY <2>1 DEF Follow, N
  <2>6. QED
    BY <1>1, <1>3, <2>1, <2>4, <2>5
<1>10. ASSUME NEW p \in DOMAIN h, ~In(p, ms), \A i \in j0 .. k0 : i > 0 => p # w[i]
       PROVE  hf[p] = h[p]
  <2>1. \A i \in j0 + 1 .. k0 : p # w[i]
    BY <1>5, <1>10
  <2>2. p \in DOMAIN hf
    BY <1>7, <2>1
  <2>3. (J > 0 => p # w[J]) /\ (E < N => p # w[E + 1])
    BY <1>3, <1>10
  <2>4. QED
    BY <1>2, <2>2, <2>3
<1>11. QED
  BY <1>3, <1>6, <1>7, <1>8, <1>9, <1>10 DEF Rewritten

\* What is left of the nodes at the two ends of a cut, pre of node J and suf of node
\* E + 1; those from j0 + 1 to k0 are cut.
CutEnds(N, J, E, pre, suf, j0, k0) ==
    /\ J \in 0 .. N /\ E \in J .. N /\ pre \in Seq(Int) /\ suf \in Seq(Int)
    /\ IF J > 0 THEN Len(pre) \in 1 .. BlockSize ELSE pre = <<>>
    /\ IF E < N THEN Len(suf) \in 1 .. BlockSize ELSE suf = <<>>
    /\ j0 = IF J > 0 THEN J - 1 ELSE 0
    /\ k0 = IF E < N THEN E + 1 ELSE E

\* The header counts s with m in the place of the entries from p + 1 to q.
Counted(L2, s, p, q, m) == L2.n = p + Len(m) + (Len(s) - q)

\* The nodes between two of them are cut, and parts of these two.
LEMMA CutSound ==
  ASSUME NEW h, NEW ls, NEW S, NEW ns, NEW cs, NEW off, Layout(h, ls, S, ns, cs, off), NEW l \in Lists,
         NEW J, NEW E, NEW pre, NEW suf, NEW j0, NEW k0, CutEnds(Len(ns[l]), J, E, pre, suf, j0, k0),
         NEW hf, CutHeap(h, ns[l], J, E, pre, suf, hf),
         NEW L2, CutHeader(L2, ls[l], ns[l], J, E),
         Counted(L2, S[l], off[l][j0], off[l][k0], pre \o suf)
  PROVE  Sound(hf, [ls EXCEPT ![l] = L2], [S EXCEPT ![l] = Splice(S[l], off[l][j0], off[l][k0], pre \o suf)])
<1> DEFINE w == ns[l]
           N == Len(w)
           L == ls[l]
           s == S[l]
           m == pre \o suf
<1>0. /\ J \in 0 .. Len(ns[l]) /\ E \in J .. Len(ns[l]) /\ pre \in Seq(Int) /\ suf \in Seq(Int)
      /\ IF J > 0 THEN Len(pre) \in 1 .. BlockSize ELSE pre = <<>>
      /\ IF E < Len(ns[l]) THEN Len(suf) \in 1 .. BlockSize ELSE suf = <<>>
      /\ j0 = IF J > 0 THEN J - 1 ELSE 0
      /\ k0 = IF E < Len(ns[l]) THEN E + 1 ELSE E
      /\ L2.n = off[l][j0] + Len(pre \o suf) + (Len(S[l]) - off[l][k0])
  BY DEF CutEnds, Counted
<1> USE <1>0
<1>1. Right(L, h, w, cs[l], off[l], s) /\ IsFiniteSet(DOMAIN h)
  BY DEF Layout
<1>2. N \in Nat /\ w \in Seq(Nat \ {0})
  BY <1>1, ListFacts
<1>3. Links(h, w, cs[l]) /\ L.head = Follow(w, 0) /\ L.tail = TailOf(w)
  BY <1>1 DEF Right
<1>4. /\ \A i \in 1 .. N : w[i] \in Nat \ {0}
      /\ \A a, b \in 1 .. N : w[a] = w[b] => a = b
  <2>1. \A i \in 1 .. N : w[i] \in Nat \ {0}
    BY <1>2, ElementOfSeq
  <2>2. QED
    BY <1>3, <2>1 DEF Links
<1>5. /\ J > 0 => hf[w[J]] = [items |-> pre, next |-> Follow(w, E)]
      /\ E < N => hf[w[E + 1]] = [items |-> suf, next |-> Follow(w, E + 1)]
  BY DEF CutHeap
<1>6. /\ L2 \in Header /\ L2.last = NULL
      /\ L2.head = IF J > 0 THEN L.head ELSE Follow(w, E)
      /\ L2.tail = IF E < N THEN L.tail ELSE IF J > 0 THEN w[J] ELSE NULL
  BY DEF CutHeader
<1>7. J \in 0 .. N /\ E \in J .. N /\ j0 = (IF J > 0 THEN J - 1 ELSE 0) /\ k0 = (IF E < N THEN E + 1 ELSE E)
  OBVIOUS
<1> HIDE DEF N
<1>8. j0 \in 0 .. N /\ k0 \in 0 .. N /\ j0 <= k0 /\ (J > 0 => J \in 1 .. N) /\ (E < N => E + 1 \in 1 .. N)
      /\ (E < N => J # E + 1)
      /\ (j0 > 0 => J > 0)
  BY <1>2, <1>7
<1>9. ASSUME NEW ms, NEW mc, NEW mo, Pieces(mc, mo, m), CutNodes(w, J, E, ms, hf, mc, k0),
             Len(ms) = (IF J > 0 THEN 1 ELSE 0) + (IF E < N THEN 1 ELSE 0),
             Len(ms) > 0 => /\ ms[1] = IF J > 0 THEN w[J] ELSE w[E + 1]
                            /\ ms[Len(ms)] = IF E < N THEN w[E + 1] ELSE w[J]
      PROVE  Sound(hf, [ls EXCEPT ![l] = L2], [S EXCEPT ![l] = Splice(s, off[l][j0], off[l][k0], m)])
  <2>1. Rewritten(h, w, cs[l], j0, k0, ms, mc, hf)
    BY <1>1, <1>3, <1>7, <1>9, CutRewrites DEF N
  <2>2. Headed(L2, L, w, off[l], s, j0, k0, ms, m)
    <3>1. L2.head = IF j0 > 0 THEN L.head ELSE After(w, k0, ms, 0)
      <4>1. CASE J > 0
        <5>1. After(w, k0, ms, 0) = w[J]
          BY <1>9, <4>1 DEF CutNodes
        <5>2. L2.head = L.head
          BY <1>6, <4>1
        <5>3. ASSUME ~(j0 > 0) PROVE L.head = w[J]
          <6>1. J = 1 /\ 0 < N /\ 0 + 1 = 1
            BY <1>2, <1>7, <4>1, <5>3
          <6>2. QED
            BY <1>3, <6>1 DEF Follow, N
        <5>4. QED
          BY <5>1, <5>2, <5>3
      <4>2. CASE ~(J > 0)
        <5>1. ~(j0 > 0) /\ L2.head = Follow(w, E)
          BY <1>6, <1>8, <4>2
        <5>2. CASE E < N
          <6>1. Len(ms) = 1 /\ 0 < Len(ms) /\ Len(ms) > 0
            BY <1>9, <4>2, <5>2
          <6>2. ms[1] = w[E + 1]
            BY <1>9, <4>2, <6>1
          <6>3. After(w, k0, ms, 0) = ms[1]
            <7>1. 0 + 1 = 1
              OBVIOUS
            <7>2. QED
              BY <6>1, <7>1 DEF After
          <6>4. Follow(w, E) = w[E + 1]
            BY <5>2 DEF Follow, N
          <6>5. QED
            BY <5>1, <6>2, <6>3, <6>4
        <5>3. CASE ~(E < N)
          <6>1. Len(ms) = 0 /\ k0 = E
            BY <1>7, <1>9, <4>2, <5>3
          <6>2. After(w, k0, ms, 0) = Follow(w, E)
            BY <6>1 DEF After
          <6>3. QED
            BY <5>1, <6>2
        <5>4. QED
          BY <5>2, <5>3
      <4>3. QED
        BY <4>1, <4>2
    <3>2. L2.tail = IF k0 < Len(w) THEN L.tail ELSE IF Len(ms) > 0 THEN ms[Len(ms)]
                    ELSE IF j0 > 0 THEN w[j0] ELSE NULL
      <4>1. CASE E < N
        <5>1. L2.tail = L.tail /\ Len(ms) > 0 /\ ms[Len(ms)] = w[E + 1]
          <6>1. Len(ms) > 0
            BY <1>9, <4>1
          <6>2. QED
            BY <1>6, <1>9, <4>1, <6>1
        <5>2. ASSUME ~(k0 < N) PROVE L.tail = w[E + 1]
          <6>1. E + 1 = N /\ Len(w) # 0 /\ E + 1 = Len(w)
            BY <1>2, <1>7, <4>1, <5>2 DEF N
          <6>2. QED
            BY <1>3, <6>1 DEF TailOf
        <5>3. QED
          BY <5>1, <5>2 DEF N
      <4>2. CASE ~(E < N)
        <5>1. ~(k0 < N) /\ E = N
          BY <1>2, <1>7, <4>2
        <5>2. L2.tail = IF J > 0 THEN w[J] ELSE NULL
          BY <1>6, <4>2
        <5>3. CASE J > 0
          <6>1. Len(ms) > 0 /\ ms[Len(ms)] = w[J]
            <7>1. Len(ms) > 0
              BY <1>9, <4>2, <5>3
            <7>2. QED
              BY <1>9, <4>2, <7>1
          <6>2. QED
            BY <5>1, <5>2, <5>3, <6>1 DEF N
        <5>4. CASE ~(J > 0)
          <6>1. ~(Len(ms) > 0) /\ ~(j0 > 0)
            BY <1>8, <1>9, <4>2, <5>4
          <6>2. QED
            BY <5>1, <5>2, <5>4, <6>1 DEF N
        <5>5. QED
          BY <5>3, <5>4
      <4>3. QED
        BY <4>1, <4>2
    <3>3. Shortcut(L2, w, off[l], j0, ms)
      BY <1>6 DEF Shortcut
    <3>4. L2.n = off[l][j0] + Len(m) + (Len(s) - off[l][k0])
      OBVIOUS
    <3>5. QED
      BY <1>6, <3>1, <3>2, <3>3, <3>4 DEF Headed
  <2> HIDE DEF m
  <2>3. QED
    BY <1>8, <1>9, <2>1, <2>2, Rewriting, ZenonT(40) DEF N
<1>10. CASE J > 0 /\ E < N
  <2> DEFINE a == w[J]
             b == w[E + 1]
             ms == <<a, b>>
             mc == <<pre, suf>>
             mo == [i \in 0 .. 2 |-> IF i = 0 THEN 0 ELSE IF i = 1 THEN Len(pre) ELSE Len(pre) + Len(suf)]
  <2>1. a \in Nat \ {0} /\ b \in Nat \ {0} /\ a # b
    BY <1>4, <1>8, <1>10
  <2>2. Pieces(mc, mo, m)
    BY <1>10, TwoPieces DEF N
  <2>3. k0 = E + 1 /\ Follow(w, E) = b
    BY <1>7, <1>10 DEF Follow, N
  <2>4. hf[a] = [items |-> pre, next |-> b] /\ hf[b] = [items |-> suf, next |-> Follow(w, k0)]
    BY <1>5, <1>10, <2>3
  <2> HIDE DEF a, b
  <2>5. /\ ms \in Seq(Nat \ {0}) /\ Len(ms) = 2 /\ Len(mc) = 2 /\ ms[1] = a /\ ms[2] = b
        /\ mc[1] = pre /\ mc[2] = suf
    BY <2>1
  <2> HIDE DEF ms, mc
  <2>6. \A x \in 1 .. Len(ms) : x = 1 \/ x = 2
    BY <2>5
  <2>7. 1 \in 1 .. Len(ms) /\ 2 \in 1 .. Len(ms)
    BY <2>5
  <2>8. Distinct(ms) /\ \A p : In(p, ms) <=> p = a \/ p = b
    BY <2>1, <2>5, <2>6, <2>7 DEF Distinct, In
  <2>9. After(w, k0, ms, 0) = a /\ After(w, k0, ms, 1) = b /\ After(w, k0, ms, 2) = Follow(w, k0)
    <3>1. 0 < Len(ms) /\ 1 < Len(ms) /\ ~(2 < Len(ms)) /\ 0 + 1 = 1 /\ 1 + 1 = 2
      BY <2>5
    <3>2. QED
      BY <2>5, <3>1 DEF After
  <2>10. \A x \in 1 .. Len(ms) : hf[ms[x]] = [items |-> mc[x], next |-> After(w, k0, ms, x)]
    BY <2>4, <2>5, <2>6, <2>9
  <2>11. CutNodes(w, J, E, ms, hf, mc, k0)
    BY <1>10, <2>5, <2>8, <2>9, <2>10 DEF CutNodes, N, a, b
  <2>12. Len(ms) = (IF J > 0 THEN 1 ELSE 0) + (IF E < N THEN 1 ELSE 0)
    BY <1>10, <2>5
  <2>13. ms[1] = (IF J > 0 THEN w[J] ELSE w[E + 1]) /\ ms[Len(ms)] = IF E < N THEN w[E + 1] ELSE w[J]
    BY <1>10, <2>5 DEF a, b
  <2> HIDE DEF mo, m
  <2>14. QED
    BY <1>9, <2>2, <2>11, <2>12, <2>13 DEF m
<1>11. CASE J > 0 /\ ~(E < N)
  <2> DEFINE a == w[J]
             ms == <<a>>
             mc == <<pre>>
             mo == [i \in 0 .. 1 |-> IF i = 0 THEN 0 ELSE Len(pre)]
  <2>1. a \in Nat \ {0}
    BY <1>4, <1>8, <1>11
  <2>2. m = pre
    <3>1. suf = <<>>
      BY <1>11 DEF N
    <3>2. QED
      BY <3>1
  <2>3. Pieces(mc, mo, m)
    <3>1. Pieces(mc, mo, pre)
      BY <1>11, OnePiece
    <3>2. QED
      BY <2>2, <3>1
  <2>4. k0 = E
    BY <1>7, <1>11
  <2>5. hf[a] = [items |-> pre, next |-> Follow(w, k0)]
    BY <1>5, <1>11, <2>4
  <2> HIDE DEF a
  <2>6. ms \in Seq(Nat \ {0}) /\ Len(ms) = 1 /\ Len(mc) = 1 /\ ms[1] = a /\ mc[1] = pre
    BY <2>1
  <2> HIDE DEF ms, mc
  <2>7. \A x \in 1 .. Len(ms) : x = 1
    BY <2>6
  <2>8. 1 \in 1 .. Len(ms)
    BY <2>6
  <2>9. Distinct(ms) /\ \A p : In(p, ms) <=> p = a
    BY <2>6, <2>7, <2>8 DEF Distinct, In
  <2>10. After(w, k0, ms, 0) = a /\ After(w, k0, ms, 1) = Follow(w, k0)
    <3>1. 0 < Len(ms) /\ ~(1 < Len(ms)) /\ 0 + 1 = 1
      BY <2>6
    <3>2. QED
      BY <2>6, <3>1 DEF After
  <2>11. \A x \in 1 .. Len(ms) : hf[ms[x]] = [items |-> mc[x], next |-> After(w, k0, ms, x)]
    BY <2>5, <2>6, <2>7, <2>10
  <2>12. CutNodes(w, J, E, ms, hf, mc, k0)
    BY <1>11, <2>6, <2>9, <2>10, <2>11 DEF CutNodes, N, a
  <2>13. Len(ms) = (IF J > 0 THEN 1 ELSE 0) + (IF E < N THEN 1 ELSE 0)
    BY <1>11, <2>6
  <2>14. ms[1] = (IF J > 0 THEN w[J] ELSE w[E + 1]) /\ ms[Len(ms)] = IF E < N THEN w[E + 1] ELSE w[J]
    BY <1>11, <2>6 DEF a
  <2> HIDE DEF mo, m
  <2>15. QED
    BY <1>9, <2>3, <2>12, <2>13, <2>14 DEF m
<1>12. CASE ~(J > 0) /\ E < N
  <2> DEFINE a == w[E + 1]
             ms == <<a>>
             mc == <<suf>>
             mo == [i \in 0 .. 1 |-> IF i = 0 THEN 0 ELSE Len(suf)]
  <2>1. a \in Nat \ {0}
    BY <1>4, <1>8, <1>12
  <2>2. m = suf
    <3>1. pre = <<>>
      BY <1>12
    <3>2. QED
      BY <3>1
  <2>3. Pieces(mc, mo, m)
    <3>1. Pieces(mc, mo, suf)
      BY <1>12, OnePiece DEF N
    <3>2. QED
      BY <2>2, <3>1
  <2>4. k0 = E + 1
    BY <1>7, <1>12
  <2>5. hf[a] = [items |-> suf, next |-> Follow(w, k0)]
    BY <1>5, <1>12, <2>4
  <2> HIDE DEF a
  <2>6. ms \in Seq(Nat \ {0}) /\ Len(ms) = 1 /\ Len(mc) = 1 /\ ms[1] = a /\ mc[1] = suf
    BY <2>1
  <2> HIDE DEF ms, mc
  <2>7. \A x \in 1 .. Len(ms) : x = 1
    BY <2>6
  <2>8. 1 \in 1 .. Len(ms)
    BY <2>6
  <2>9. Distinct(ms) /\ \A p : In(p, ms) <=> p = a
    BY <2>6, <2>7, <2>8 DEF Distinct, In
  <2>10. After(w, k0, ms, 1) = Follow(w, k0)
    <3>1. ~(1 < Len(ms))
      BY <2>6
    <3>2. QED
      BY <2>6, <3>1 DEF After
  <2>11. \A x \in 1 .. Len(ms) : hf[ms[x]] = [items |-> mc[x], next |-> After(w, k0, ms, x)]
    BY <2>5, <2>6, <2>7, <2>10
  <2>12. CutNodes(w, J, E, ms, hf, mc, k0)
    BY <1>12, <2>6, <2>9, <2>10, <2>11 DEF CutNodes, N, a
  <2>13. Len(ms) = (IF J > 0 THEN 1 ELSE 0) + (IF E < N THEN 1 ELSE 0)
    BY <1>12, <2>6
  <2>14. ms[1] = (IF J > 0 THEN w[J] ELSE w[E + 1]) /\ ms[Len(ms)] = IF E < N THEN w[E + 1] ELSE w[J]
    BY <1>12, <2>6 DEF a
  <2> HIDE DEF mo, m
  <2>15. QED
    BY <1>9, <2>3, <2>12, <2>13, <2>14 DEF m
<1>13. CASE ~(J > 0) /\ ~(E < N)
  <2> DEFINE ms == <<>>
             mo == [i \in 0 .. 0 |-> 0]
  <2>1. m = <<>>
    <3>1. pre = <<>> /\ suf = <<>>
      BY <1>13 DEF N
    <3>2. QED
      BY <3>1
  <2>2. Pieces(ms, mo, m)
    BY <2>1, NoPiece
  <2>3. ms \in Seq(Nat \ {0}) /\ Len(ms) = 0
    OBVIOUS
  <2> HIDE DEF ms
  <2>4. \A x \in 1 .. Len(ms) : FALSE
    BY <2>3
  <2>5. CutNodes(w, J, E, ms, hf, ms, k0)
    BY <1>13, <2>3, <2>4 DEF CutNodes, N, Distinct, In
  <2>6. Len(ms) = (IF J > 0 THEN 1 ELSE 0) + (IF E < N THEN 1 ELSE 0) /\ ~(Len(ms) > 0)
    BY <1>13, <2>3
  <2> HIDE DEF mo, m
  <2>7. QED
    BY <1>9, <2>2, <2>5, <2>6 DEF m
<1>14. QED
  BY <1>10, <1>11, <1>12, <1>13

\* The node J, if J > 0, keeps pre, the elements before element start.
FrontOf(s, n, off, start, J, pre, j0) ==
    /\ J \in 0 .. n /\ j0 = (IF J > 0 THEN J - 1 ELSE 0) /\ pre \in Seq(Int)
    /\ IF J > 0 THEN Len(pre) \in 1 .. BlockSize ELSE pre = <<>>
    /\ off[j0] + Len(pre) = start /\ SameFrom(s, off[j0], pre) /\ start <= off[J]

\* The node E + 1, if E < n, keeps suf, its elements from element e on.
BackOf(s, n, off, e, E, suf, k0) ==
    /\ E \in 0 .. n /\ k0 = (IF E < n THEN E + 1 ELSE E) /\ suf \in Seq(Int)
    /\ IF E < n THEN Len(suf) \in 1 .. BlockSize ELSE suf = <<>>
    /\ e + Len(suf) = off[k0] /\ SameFrom(s, e, suf)

\* To put m in the place of the entries of s from p + 1 to q removes those from
\* start + 1 to e.
SameCut(s, p, q, m, start, e) ==
    /\ Splice(s, p, q, m) = Splice(s, start, e, <<>>)
    /\ p + Len(m) + (Len(s) - q) = Len(s) - (e - start)

\* What stays of these two nodes takes their place: the elements between are gone.
LEMMA RangeSplices ==
  ASSUME NEW L, NEW h, NEW w, NEW cs, NEW off, NEW s, Right(L, h, w, cs, off, s),
         NEW start \in Nat, NEW e \in Nat, start <= e, e <= Len(s),
         NEW J, NEW pre, NEW j0, FrontOf(s, Len(w), off, start, J, pre, j0),
         NEW E, NEW suf, NEW k0, BackOf(s, Len(w), off, e, E, suf, k0)
  PROVE  SameCut(s, off[j0], off[k0], pre \o suf, start, e)
<1> DEFINE N == Len(w)
           P == Len(pre)
           Q == Len(suf)
           Z == Len(s)
           a == off[j0]
           b == off[k0]
<1>1. /\ N \in Nat /\ s \in Seq(Int) /\ Z \in Nat /\ \A k \in 0 .. N : off[k] \in Nat /\ off[k] <= Z
  BY ListFacts
<1>2. /\ J \in 0 .. N /\ j0 = (IF J > 0 THEN J - 1 ELSE 0) /\ pre \in Seq(Int) /\ a + P = start /\ SameFrom(s, a, pre)
  BY DEF FrontOf
<1>3. /\ E \in 0 .. N /\ k0 = (IF E < N THEN E + 1 ELSE E) /\ suf \in Seq(Int) /\ e + Q = b /\ SameFrom(s, e, suf)
  BY DEF BackOf
<1>4. P \in Nat /\ Q \in Nat /\ Len(pre \o suf) = P + Q
  BY <1>2, <1>3, LenProperties
<1>5. start \in Nat /\ e \in Nat /\ start <= e /\ e <= Z
  OBVIOUS
<1> HIDE DEF N, P, Q, Z
<1>6. j0 \in 0 .. N /\ k0 \in 0 .. N
  BY <1>1, <1>2, <1>3
<1>7. a \in Nat /\ b \in Nat /\ b <= Z
  BY <1>1, <1>6
<1> HIDE DEF a, b
<1>8. a <= e /\ e + Q <= Z
  BY <1>1, <1>2, <1>3, <1>4, <1>5, <1>7
<1>9. Splice(s, a, b, pre \o suf) = Splice(s, a, e, pre)
  <2>1. Splice(s, a, e + Q, pre \o suf) = Splice(s, a, e, pre)
    BY <1>1, <1>2, <1>3, <1>5, <1>7, <1>8, SpliceKeeps DEF Q, Z
  <2>2. QED
    BY <1>3, <2>1
<1>10. Splice(s, a, e, pre) = Splice(s, start, e, <<>>)
  <2>1. a + Len(pre) <= e /\ e <= Len(s)
    BY <1>2, <1>5 DEF P, Z
  <2>2. Splice(s, a, e, pre) = Splice(s, a + Len(pre), e, <<>>)
    BY <1>1, <1>2, <1>5, <1>7, <2>1, SpliceKeepsFront
  <2>3. QED
    BY <1>2, <2>2 DEF P
<1>11. a + (P + Q) + (Z - b) = Z - (e - start)
  BY <1>1, <1>2, <1>3, <1>4, <1>5, <1>7
<1>12. QED
  BY <1>4, <1>9, <1>10, <1>11 DEF a, b, Z, SameCut

\* The distance k of an index from the beginning z of the node of D items that holds it.
AtOffset(k, z, D, start) == k \in 0 .. D - 1 /\ k \in Nat /\ k <= D /\ k <= BlockSize /\ z + k = start

\* The node that is found for an index holds it.
LEMMA WithinNode ==
  ASSUME NEW L, NEW h, NEW w, NEW cs, NEW off, NEW s, Right(L, h, w, cs, off, s),
         NEW c, NEW K, NEW start \in Nat, Found(c, w, off, K, start)
  PROVE  AtOffset(start - off[K - 1], off[K - 1], Len(cs[K]), start)
<1> DEFINE z == off[K - 1]
           y == off[K]
           D == Len(cs[K])
<1>1. K \in 1 .. Len(w) /\ z <= start /\ start < y
  BY DEF Found
<1>2. NodeAt(h, w, cs, off, s, K)
  BY <1>1, NodeFacts
<1>3. D \in Nat /\ D \in 1 .. BlockSize /\ y = z + D /\ z \in Nat
  BY <1>2 DEF NodeAt
<1> HIDE DEF z, y, D
<1>4. start - z \in Nat /\ start - z < D /\ z + (start - z) = start
  BY <1>1, <1>3
<1>5. D <= BlockSize
  BY <1>3, Small
<1> DEFINE k == start - z
<1>6. k \in Nat /\ k < D /\ z + k = start
  BY <1>4
<1> HIDE DEF k
<1>7. AtOffset(k, z, D, start)
  BY <1>3, <1>5, <1>6, Small DEF AtOffset
<1>8. QED
  BY <1>7 DEF k, z, D

\* Where the cut begins: in node k, or at its beginning.
LEMMA FrontIs ==
  ASSUME NEW L, NEW h, NEW w, NEW cs, NEW off, NEW s, Right(L, h, w, cs, off, s),
         NEW c, NEW K, NEW start \in Nat, Found(c, w, off, K, start),
         NEW k, k = start - off[K - 1],
         NEW J, J = IF k > 0 THEN K ELSE K - 1,
         NEW pre, pre = IF k > 0 THEN SubSeq(cs[K], 1, k) ELSE IF J > 0 THEN cs[J] ELSE <<>>,
         NEW j0, j0 = IF J > 0 THEN J - 1 ELSE 0
  PROVE  FrontOf(s, Len(w), off, start, J, pre, j0) /\ k \in 0 .. Len(cs[K]) - 1
<1> DEFINE N == Len(w)
           z == off[K - 1]
           d == cs[K]
           D == Len(d)
<1>1. K \in 1 .. N /\ z <= start /\ start < off[K]
  BY DEF Found
<1>2. N \in Nat /\ off[0] = 0
  BY ListFacts
<1>3. NodeAt(h, w, cs, off, s, K)
  BY <1>1, NodeFacts
<1>4. /\ d \in Seq(Int) /\ D \in Nat /\ D \in 1 .. BlockSize /\ off[K] = z + D /\ z \in Nat /\ SameFrom(s, z, d)
      /\ off[K] \in Nat
  BY <1>3 DEF NodeAt
<1>5. k = start - z /\ start \in Nat
  OBVIOUS
<1> HIDE DEF N, z, D
<1>6. k \in 0 .. D - 1 /\ k \in Nat /\ k <= D /\ k <= BlockSize /\ z + k = start
  <2>1. AtOffset(start - off[K - 1], off[K - 1], Len(cs[K]), start)
    BY WithinNode
  <2>2. AtOffset(k, z, D, start)
    BY <2>1 DEF z, D
  <2>3. QED
    BY <2>2 DEF AtOffset
<1>7. CASE k > 0
  <2>1. J = K /\ j0 = K - 1 /\ J \in 0 .. N /\ J > 0 /\ pre = SubSeq(d, 1, k) /\ start <= off[J]
    <3>1. J = K /\ pre = SubSeq(d, 1, k)
      BY <1>7
    <3>2. K \in Nat /\ K > 0 /\ K <= N
      BY <1>1, <1>2
    <3>3. J \in 0 .. N /\ J > 0
      BY <1>2, <3>1, <3>2
    <3>4. start <= off[J]
      BY <1>1, <1>4, <1>5, <3>1
    <3>5. QED
      BY <3>1, <3>3, <3>4
  <2>2. pre \in Seq(Int) /\ Len(pre) = k /\ \A i \in 1 .. k : pre[i] = d[i]
    <3> HIDE DEF d
    <3>1. d \in Seq(Int) /\ k \in Nat /\ k <= Len(d)
      BY <1>4, <1>6 DEF D
    <3>2. SubSeq(d, 1, k) \in Seq(Int) /\ Len(SubSeq(d, 1, k)) = k /\ \A i \in 1 .. k : SubSeq(d, 1, k)[i] = d[i]
      BY <3>1, FrontSplices
    <3>3. QED
      BY <2>1, <3>2
  <2>3. SameFrom(s, z, pre)
    <3>1. \A i \in 1 .. k : i \in 1 .. Len(d)
      BY <1>4, <1>6 DEF D
    <3>2. \A i \in 1 .. k : s[z + i] = d[i]
      BY <1>4, <3>1 DEF SameFrom
    <3>3. QED
      BY <2>2, <3>2 DEF SameFrom
  <2>4. off[j0] = z
    BY <2>1 DEF z
  <2>5. Len(pre) \in 1 .. BlockSize
    BY <1>6, <1>7, <2>2, Small
  <2>6. FrontOf(s, N, off, start, J, pre, j0)
    BY <1>6, <1>7, <2>1, <2>2, <2>3, <2>4, <2>5 DEF FrontOf
  <2>7. QED
    BY <1>6, <2>6 DEF N, D
<1>8. CASE ~(k > 0)
  <2>1. J = K - 1 /\ J \in 0 .. N /\ start = z /\ off[J] = z /\ start <= off[J]
    BY <1>1, <1>2, <1>4, <1>6, <1>8 DEF z
  <2>2. CASE J > 0
    <3>1. J \in 1 .. N /\ j0 = J - 1 /\ pre = cs[J]
      BY <1>8, <2>1, <2>2
    <3>2. NodeAt(h, w, cs, off, s, J)
      BY <3>1, NodeFacts DEF N
    <3>3. pre \in Seq(Int) /\ Len(pre) \in 1 .. BlockSize /\ off[J] = off[j0] + Len(pre) /\ SameFrom(s, off[j0], pre)
      BY <3>1, <3>2 DEF NodeAt
    <3>4. FrontOf(s, N, off, start, J, pre, j0)
      BY <2>1, <2>2, <3>1, <3>3 DEF FrontOf
    <3>5. QED
      BY <1>6, <3>4 DEF N, D
  <2>3. CASE ~(J > 0)
    <3>1. J = 0 /\ j0 = 0 /\ pre = <<>> /\ start = 0
      BY <1>1, <1>2, <1>8, <2>1, <2>3
    <3>2. pre \in Seq(Int) /\ Len(pre) = 0
      BY <3>1
    <3>3. SameFrom(s, off[j0], pre)
      BY <3>2 DEF SameFrom
    <3>4. off[j0] + Len(pre) = start
      BY <1>2, <3>1, <3>2
    <3>5. FrontOf(s, N, off, start, J, pre, j0)
      BY <2>1, <2>3, <3>1, <3>2, <3>3, <3>4 DEF FrontOf
    <3>6. QED
      BY <1>6, <3>5 DEF N, D
  <2>4. QED
    BY <2>2, <2>3
<1>9. QED
  BY <1>6, <1>7, <1>8

\* Element e is in node E + 1, or is the end of the list.
EndsIn(off, n, e, E) == E \in 0 .. n /\ off[E] <= e /\ IF E < n THEN e < off[E + 1] ELSE e = off[n]

\* Every place in the list is in a node, or the end.
LEMMA EndExists ==
  ASSUME NEW L, NEW h, NEW w, NEW cs, NEW off, NEW s, Right(L, h, w, cs, off, s),
         NEW e \in Nat, e <= Len(s), NEW J \in 0 .. Len(w), off[J] <= e
  PROVE  \E E \in J .. Len(w) : EndsIn(off, Len(w), e, E)
<1> DEFINE N == Len(w)
           Z == Len(s)
<1>1. /\ N \in Nat /\ Z \in Nat /\ off[N] = Z /\ \A k \in 0 .. N : off[k] \in Nat
      /\ \A j, k \in 0 .. N : j <= k => off[j] <= off[k]
      /\ Len(cs) = N
  BY ListFacts
<1>2. e \in Nat /\ e <= Z /\ J \in 0 .. N /\ off[J] <= e
  OBVIOUS
<1>3. ASSUME e < Z PROVE \E k \in 1 .. N : off[k - 1] <= e /\ e < off[k]
  <2>1. Pieces(cs, off, s)
    BY DEF Right
  <2>2. \E k \in 1 .. Len(cs) : off[k - 1] <= e /\ e < off[k]
    BY <1>3, <2>1, PiecesFind
  <2>3. QED
    BY <1>1, <2>2
<1> HIDE DEF N, Z
<1>4. CASE e < Z
  <2>1. PICK k \in 1 .. N : off[k - 1] <= e /\ e < off[k]
    BY <1>3, <1>4
  <2> DEFINE E == k - 1
  <2>2. E \in 0 .. N /\ E < N /\ E + 1 = k
    BY <1>1, <2>1
  <2>3. ~(k <= J)
    BY <1>1, <1>2, <2>1
  <2>4. E \in J .. N
    BY <1>1, <1>2, <2>1, <2>3
  <2>5. EndsIn(off, N, e, E)
    BY <2>1, <2>2 DEF EndsIn
  <2>6. QED
    BY <2>4, <2>5 DEF N
<1>5. CASE ~(e < Z)
  <2>1. e = off[N] /\ N \in J .. N /\ N \in 0 .. N /\ ~(N < N) /\ off[N] <= e
    BY <1>1, <1>2, <1>5
  <2>2. EndsIn(off, N, e, N)
    BY <2>1 DEF EndsIn
  <2>3. QED
    BY <2>1, <2>2 DEF N
<1>6. QED
  BY <1>4, <1>5

\* What the node after the cut keeps.
LEMMA BackIs ==
  ASSUME NEW L, NEW h, NEW w, NEW cs, NEW off, NEW s, Right(L, h, w, cs, off, s),
         NEW e \in Nat, NEW E, EndsIn(off, Len(w), e, E),
         NEW suf, suf = IF E < Len(w) THEN Rest(cs[E + 1], e - off[E]) ELSE <<>>,
         NEW k0, k0 = IF E < Len(w) THEN E + 1 ELSE E
  PROVE  BackOf(s, Len(w), off, e, E, suf, k0)
<1> DEFINE N == Len(w)
<1>1. E \in 0 .. N /\ off[E] <= e /\ IF E < N THEN e < off[E + 1] ELSE e = off[N]
  BY DEF EndsIn
<1>2. N \in Nat
  BY ListFacts
<1> HIDE DEF N
<1>3. CASE E < N
  <2> DEFINE K == E + 1
             d == cs[K]
             D == Len(d)
             z == off[E]
             a == e - z
  <2>1. K \in 1 .. N /\ K - 1 = E
    BY <1>1, <1>2, <1>3
  <2> HIDE DEF K
  <2>2. NodeAt(h, w, cs, off, s, K)
    BY <2>1, NodeFacts DEF N
  <2>3. /\ d \in Seq(Int) /\ D \in Nat /\ D \in 1 .. BlockSize /\ off[K] = z + D /\ z \in Nat /\ SameFrom(s, z, d)
    BY <2>1, <2>2 DEF NodeAt
  <2>4. suf = Rest(d, a) /\ k0 = K /\ z <= e /\ e < off[K] /\ e \in Nat
    BY <1>1, <1>3 DEF K, N
  <2> HIDE DEF d, z
  <2>5. a \in 0 .. D /\ D - a \in 1 .. BlockSize /\ e + (D - a) = off[K] /\ z + a = e /\ a \in Nat
    <3> HIDE DEF D
    <3>1. QED
      BY <2>3, <2>4, Small
  <2> HIDE DEF a
  <2>6. suf \in Seq(Int) /\ Len(suf) = D - a /\ \A i \in 1 .. D - a : suf[i] = d[a + i]
    BY <2>3, <2>4, <2>5, RestType
  <2>7. SameFrom(s, e, suf)
    <3> SUFFICES ASSUME NEW i \in 1 .. D - a PROVE s[e + i] = suf[i]
      BY <2>6 DEF SameFrom
    <3> DEFINE x == a + i
    <3>1. x \in 1 .. Len(d) /\ z + x = e + i
      <4>1. x \in 1 .. D /\ z + x = e + i
        <5> HIDE DEF D
        <5>1. QED
          BY <2>3, <2>4, <2>5
      <4>2. QED
        BY <4>1
    <3> HIDE DEF x
    <3>2. s[z + x] = d[x]
      BY <2>3, <3>1 DEF SameFrom
    <3>3. QED
      BY <2>6, <3>1, <3>2 DEF x
  <2> HIDE DEF D
  <2>8. BackOf(s, N, off, e, E, suf, k0)
    <3>1. k0 = (IF E < N THEN E + 1 ELSE E)
      BY DEF N
    <3>2. e + Len(suf) = off[k0] /\ Len(suf) \in 1 .. BlockSize
      BY <2>4, <2>5, <2>6
    <3>3. QED
      BY <1>1, <1>3, <2>6, <2>7, <3>1, <3>2 DEF BackOf
  <2>9. QED
    BY <2>8 DEF N
<1>4. CASE ~(E < N)
  <2>1. suf = <<>> /\ k0 = E /\ E = N /\ e = off[N]
    BY <1>1, <1>2, <1>4 DEF N
  <2>2. suf \in Seq(Int) /\ Len(suf) = 0
    BY <2>1
  <2>3. SameFrom(s, e, suf)
    BY <2>2 DEF SameFrom
  <2>4. e + Len(suf) = off[k0]
    BY <2>1, <2>2
  <2>5. BackOf(s, N, off, e, E, suf, k0)
    BY <1>1, <1>4, <2>1, <2>2, <2>3, <2>4 DEF BackOf
  <2>6. QED
    BY <2>5 DEF N
<1>5. QED
  BY <1>3, <1>4

\* How many of n nodes go, as bl_remove_index_range counts them.
NodesGone(rest, skipped, n) ==
    Min({i \in 0 .. n : rest = skipped[i] \/ (i < n /\ rest < skipped[i + 1])})

\* The nodes that go, from node J + 1 on, are those up to node E.
GoneUpTo(off, n, e, J, E) == NodesGone(e - off[J], Counts(off, n, J), n - J) = E - J

\* The search of bl_remove_index_range for the last node that goes.
LEMMA EndIs ==
  ASSUME NEW L, NEW h, NEW w, NEW cs, NEW off, NEW s, Right(L, h, w, cs, off, s),
         NEW e \in Nat, NEW J \in 0 .. Len(w), NEW E \in J .. Len(w), EndsIn(off, Len(w), e, E)
  PROVE  GoneUpTo(off, Len(w), e, J, E)
<1> DEFINE N == Len(w)
           rest == e - off[J]
           skipped == Counts(off, Len(w), J)
           n == Len(w) - J
           X == {i \in 0 .. n : rest = skipped[i] \/ (i < n /\ rest < skipped[i + 1])}
           x == E - J
<1>1. /\ N \in Nat /\ \A k \in 0 .. N : off[k] \in Nat
      /\ \A j, k \in 0 .. N : j <= k => off[j] <= off[k]
      /\ \A j, k \in 0 .. N : j < k => off[j] < off[k]
  BY ListFacts
<1>2. E \in 0 .. N /\ off[E] <= e /\ IF E < N THEN e < off[E + 1] ELSE e = off[N]
  BY DEF EndsIn
<1>3. J \in 0 .. N /\ E \in J .. N /\ n = N - J /\ rest = e - off[J]
  OBVIOUS
<1>4. \A i \in 0 .. n : skipped[i] = off[J + i] - off[J]
  BY DEF Counts
<1> HIDE DEF N, rest, skipped, n
<1>5. x \in 0 .. n /\ J + x = E /\ n \in Nat
  BY <1>1, <1>3
<1> HIDE DEF x
<1>6. x \in X
  <2>1. CASE E < N
    <3>1. x < n /\ x + 1 \in 0 .. n /\ J + (x + 1) = E + 1
      BY <1>1, <1>3, <1>5, <2>1
    <3>2. skipped[x + 1] = off[E + 1] - off[J]
      BY <1>4, <3>1
    <3>3. E + 1 \in 0 .. N
      BY <1>1, <1>3, <2>1
    <3>4. rest < skipped[x + 1]
      BY <1>1, <1>2, <1>3, <2>1, <3>2, <3>3
    <3>5. QED
      BY <1>5, <3>1, <3>4
  <2>2. CASE ~(E < N)
    <3>1. E = N /\ e = off[E]
      BY <1>1, <1>2, <1>3, <2>2
    <3>2. rest = skipped[x]
      BY <1>3, <1>4, <1>5, <3>1
    <3>3. QED
      BY <1>5, <3>2
  <2>3. QED
    BY <2>1, <2>2
<1>7. ASSUME NEW y \in X PROVE x <= y
  <2> SUFFICES ASSUME ~(x <= y) PROVE FALSE
    OBVIOUS
  <2>1. y \in 0 .. n /\ (rest = skipped[y] \/ (y < n /\ rest < skipped[y + 1]))
    BY <1>7
  <2> DEFINE a == J + y
             b == J + (y + 1)
  <2>2. a \in 0 .. N /\ b \in 0 .. N /\ a < E /\ b <= E /\ y + 1 \in 0 .. n
    BY <1>1, <1>3, <1>5, <2>1
  <2>3. skipped[y] = off[a] - off[J] /\ skipped[y + 1] = off[b] - off[J]
    BY <1>4, <2>1, <2>2
  <2> HIDE DEF a, b
  <2>4. off[a] < off[E] /\ off[b] <= off[E] /\ off[E] <= e /\ off[a] \in Nat /\ off[b] \in Nat /\ off[J] \in Nat
        /\ off[E] \in Nat
    BY <1>1, <1>2, <1>3, <2>2
  <2> DEFINE Up == off[a]
             B == off[b]
             C == off[J]
             D == off[E]
             sy == skipped[y]
             sz == skipped[y + 1]
  <2>5. /\ Up < D /\ B <= D /\ D <= e /\ Up \in Nat /\ B \in Nat /\ C \in Nat /\ D \in Nat /\ e \in Nat
        /\ sy = Up - C /\ sz = B - C /\ rest = e - C /\ (rest = sy \/ rest < sz)
    BY <1>3, <2>1, <2>3, <2>4
  <2> HIDE DEF Up, B, C, D, sy, sz
  <2>6. QED
    BY <2>5
<1>8. X \in SUBSET Int
  BY <1>5
<1> HIDE DEF X
<1>9. Min(X) = x
  BY <1>6, <1>7, <1>8, LeastIs
<1>10. QED
  BY <1>9 DEF X, x, NodesGone, rest, skipped, n, GoneUpTo

\* A node linked to another one.
LEMMA LinkExcept ==
  ASSUME NEW h, NEW p \in DOMAIN h, NEW c, NEW next, h[p] = [items |-> c, next |-> next], NEW q
  PROVE  Edited(h, p, c, q, [h EXCEPT ![p].next = q])
<1> DEFINE h2 == [h EXCEPT ![p].next = q]
<1>1. h2 = [h EXCEPT ![p] = [h[p] EXCEPT !.next = q]]
  OBVIOUS
<1>2. [h[p] EXCEPT !.next = q] = [items |-> c, next |-> q]
  OBVIOUS
<1>3. DOMAIN h2 = DOMAIN h /\ h2[p] = [items |-> c, next |-> q] /\ \A r \in DOMAIN h : r # p => h2[r] = h[r]
  BY <1>1, <1>2
<1>4. QED
  BY <1>3 DEF Edited

\* The node J holds pre, and all else is as it was.
FirstCut(h, w, J, pre, h1) ==
    /\ DOMAIN h1 = DOMAIN h
    /\ J > 0 => h1[w[J]] = [items |-> pre, next |-> Follow(w, J)]
    /\ \A q \in DOMAIN h : (J > 0 => q # w[J]) => h1[q] = h[q]

\* The end of the node the range begins in is cut.
LEMMA FirstIsCut ==
  ASSUME NEW L, NEW h, NEW w, NEW cs, NEW off, NEW s, Right(L, h, w, cs, off, s),
         NEW K \in 1 .. Len(w), NEW k \in Nat, NEW J, J = IF k > 0 THEN K ELSE K - 1,
         NEW pre, pre = IF k > 0 THEN SubSeq(cs[K], 1, k) ELSE IF J > 0 THEN cs[J] ELSE <<>>,
         NEW h1, h1 = [h EXCEPT ![w[K]].items = IF k > 0 THEN SubSeq(@, 1, k) ELSE @]
  PROVE  FirstCut(h, w, J, pre, h1)
<1> DEFINE p == w[K]
           d == cs[K]
           x == IF k > 0 THEN SubSeq(d, 1, k) ELSE d
<1>1. NodeAt(h, w, cs, off, s, K)
  BY NodeFacts
<1>2. /\ p \in DOMAIN h /\ h[p] = [items |-> d, next |-> Follow(w, K)] /\ h[p].items = d
  BY <1>1 DEF NodeAt
<1>3. h1 = [h EXCEPT ![p].items = x]
  BY <1>2
<1> HIDE DEF p, d, x
<1>4. Edited(h, p, x, Follow(w, K), h1)
  <2> DEFINE next == Follow(w, K)
  <2>1. h[p] = [items |-> d, next |-> next]
    BY <1>2
  <2> HIDE DEF next
  <2>2. Edited(h, p, x, next, [h EXCEPT ![p].items = x])
    BY <1>2, <2>1, ItemsExcept
  <2>3. QED
    BY <1>3, <2>2 DEF next
<1>5. DOMAIN h1 = DOMAIN h /\ h1[p] = [items |-> x, next |-> Follow(w, K)] /\ \A q \in DOMAIN h : q # p => h1[q] = h[q]
  BY <1>4 DEF Edited
<1>6. CASE k > 0
  <2>1. J = K /\ pre = x /\ J > 0
    BY <1>6 DEF x, d
  <2>2. w[J] = p
    BY <2>1 DEF p
  <2>3. QED
    BY <1>5, <2>1, <2>2 DEF FirstCut
<1>7. CASE ~(k > 0)
  <2>1. J = K - 1 /\ x = d
    BY <1>7 DEF x
  <2>2. h1[p] = h[p]
    BY <1>2, <1>5, <2>1
  <2>3. \A q \in DOMAIN h : h1[q] = h[q]
    BY <1>5, <2>2
  <2>4. ASSUME J > 0 PROVE h1[w[J]] = [items |-> pre, next |-> Follow(w, J)]
    <3>1. J \in 1 .. Len(w)
      <4>1. Len(w) \in Nat
        BY ListFacts
      <4>2. QED
        BY <2>1, <2>4, <4>1
    <3>2. pre = cs[J]
      BY <1>7, <2>4
    <3>3. NodeAt(h, w, cs, off, s, J)
      BY <3>1, NodeFacts
    <3>4. w[J] \in DOMAIN h /\ h[w[J]] = [items |-> cs[J], next |-> Follow(w, J)]
      BY <3>3 DEF NodeAt
    <3>5. QED
      BY <2>3, <3>2, <3>4
  <2>5. QED
    BY <1>5, <2>3, <2>4 DEF FirstCut
<1>8. QED
  BY <1>6, <1>7

\* The node prev, if any, is linked to end.
Joined(h, prev, end) == IF prev = NULL THEN h ELSE [h EXCEPT ![prev].next = end]

\* And end, if any, loses its first a elements.
Trimmed(h, end, a) ==
    IF end = NULL THEN h ELSE [h EXCEPT ![end].items = SubSeq(@, a + 1, Len(@))]

\* The nodes between two of them.
NodesBetween(w, J, E, B) == \A p : p \in B <=> \E i \in J + 1 .. E : p = w[i]

\* The nodes between are dropped, and the beginning of the last one is cut.
LEMMA RestIsCut ==
  ASSUME NEW L, NEW h, NEW w, NEW cs, NEW off, NEW s, Right(L, h, w, cs, off, s),
         NEW J \in 0 .. Len(w), NEW E \in J .. Len(w), NEW pre, NEW h1, FirstCut(h, w, J, pre, h1),
         NEW prev, prev = IF J > 0 THEN w[J] ELSE NULL,
         NEW h2, h2 = Joined(h1, prev, Follow(w, E)),
         NEW a \in Nat, NEW suf, suf = IF E < Len(w) THEN Rest(cs[E + 1], a) ELSE <<>>,
         NEW h3, h3 = Trimmed(h2, Follow(w, E), a), NEW B, NodesBetween(w, J, E, B)
  PROVE  CutHeap(h, w, J, E, pre, suf, Free(h3, B))
<1> DEFINE N == Len(w)
           hf == Free(h3, B)
           e == Follow(w, E)
<1>1. N \in Nat /\ J \in 0 .. N /\ E \in J .. N
  BY ListFacts
<1>2. ASSUME NEW i \in 1 .. N PROVE w[i] \in DOMAIN h /\ w[i] # NULL /\ h[w[i]] = [items |-> cs[i], next |-> Follow(w, i)]
  <2>1. NodeAt(h, w, cs, off, s, i)
    BY NodeFacts
  <2>2. QED
    BY <2>1 DEF NodeAt
<1>3. \A i, j \in 1 .. N : w[i] = w[j] => i = j
  BY DEF Right, Links
<1>4. /\ DOMAIN h1 = DOMAIN h
      /\ J > 0 => h1[w[J]] = [items |-> pre, next |-> Follow(w, J)]
      /\ \A q \in DOMAIN h : (J > 0 => q # w[J]) => h1[q] = h[q]
  BY DEF FirstCut
<1> HIDE DEF N
<1>5. /\ DOMAIN h2 = DOMAIN h
      /\ J > 0 => h2[w[J]] = [items |-> pre, next |-> e]
      /\ \A q \in DOMAIN h : (J > 0 => q # w[J]) => h2[q] = h[q]
  <2>1. CASE J > 0
    <3> DEFINE p == w[J]
    <3>1. p \in DOMAIN h /\ p # NULL /\ prev = p
      <4>1. J \in 1 .. N
        BY <1>1, <2>1
      <4>2. QED
        BY <1>2, <2>1, <4>1
    <3> HIDE DEF p
    <3>2. h2 = [h1 EXCEPT ![p].next = e]
      BY <3>1 DEF Joined
    <3>3. h1[p] = [items |-> pre, next |-> Follow(w, J)] /\ p \in DOMAIN h1
      BY <1>4, <2>1, <3>1 DEF p
    <3> HIDE DEF e
    <3>4. Edited(h1, p, pre, e, h2)
      <4> DEFINE next == Follow(w, J)
      <4>1. h1[p] = [items |-> pre, next |-> next]
        BY <3>3
      <4> HIDE DEF next
      <4>2. Edited(h1, p, pre, e, [h1 EXCEPT ![p].next = e])
        BY <3>3, <4>1, LinkExcept
      <4>3. QED
        BY <3>2, <4>2
    <3>5. DOMAIN h2 = DOMAIN h1 /\ h2[p] = [items |-> pre, next |-> e] /\ \A q \in DOMAIN h1 : q # p => h2[q] = h1[q]
      BY <3>4 DEF Edited
    <3>6. QED
      BY <1>4, <2>1, <3>5 DEF p
  <2>2. CASE ~(J > 0)
    <3>1. h2 = h1
      BY <2>2 DEF Joined
    <3>2. QED
      BY <1>4, <2>2, <3>1
  <2>3. QED
    BY <2>1, <2>2
<1>6. /\ DOMAIN h3 = DOMAIN h
      /\ E < N => h3[w[E + 1]] = [items |-> suf, next |-> Follow(w, E + 1)]
      /\ \A q \in DOMAIN h : (E < N => q # w[E + 1]) => h3[q] = h2[q]
  <2>1. CASE E < N
    <3> DEFINE G == E + 1
               p == w[G]
               d == cs[G]
               next == Follow(w, G)
    <3>1. G \in 1 .. N /\ (J > 0 => J \in 1 .. N /\ J # G)
      BY <1>1, <2>1
    <3>2. e = p
      BY <2>1 DEF Follow, N
    <3> HIDE DEF G
    <3>3. p \in DOMAIN h /\ p # NULL /\ h[p] = [items |-> d, next |-> next] /\ (J > 0 => p # w[J])
      BY <1>2, <1>3, <3>1
    <3> HIDE DEF p, e, next
    <3>4. h2[p] = [items |-> d, next |-> next] /\ p \in DOMAIN h2 /\ h2[p].items = d
      BY <1>5, <3>3
    <3>5. suf = Rest(d, a)
      BY <2>1 DEF N, G
    <3>6. h3 = [h2 EXCEPT ![p].items = SubSeq(@, a + 1, Len(@))]
      BY <3>2, <3>3 DEF e, Trimmed
    <3>7. h3 = [h2 EXCEPT ![p].items = suf]
      BY <3>4, <3>5, <3>6 DEF Rest
    <3> HIDE DEF d
    <3>8. Edited(h2, p, suf, next, h3)
      <4>1. Edited(h2, p, suf, next, [h2 EXCEPT ![p].items = suf])
        BY <3>4, ItemsExcept
      <4>2. QED
        BY <3>7, <4>1
    <3>9. DOMAIN h3 = DOMAIN h2 /\ h3[p] = [items |-> suf, next |-> next] /\ \A q \in DOMAIN h2 : q # p => h3[q] = h2[q]
      BY <3>8 DEF Edited
    <3>10. QED
      BY <1>5, <2>1, <3>9 DEF p, next, G
  <2>2. CASE ~(E < N)
    <3>1. e = NULL
      BY <2>2 DEF Follow, N
    <3>2. h3 = h2
      BY <3>1 DEF Trimmed
    <3>3. QED
      BY <1>5, <2>2, <3>2
  <2>3. QED
    BY <2>1, <2>2
<1>7. DOMAIN hf = DOMAIN h \ B /\ \A q \in DOMAIN hf : hf[q] = h3[q]
  BY <1>6 DEF Free
<1> HIDE DEF hf, e
<1>8. \A p : p \in DOMAIN hf <=> p \in DOMAIN h /\ \A i \in J + 1 .. E : p # w[i]
  BY <1>7 DEF NodesBetween
<1>9. ASSUME NEW x \in 1 .. N, x \notin J + 1 .. E PROVE w[x] \in DOMAIN hf
  <2>1. \A i \in J + 1 .. E : i \in 1 .. N
    BY <1>1
  <2>2. \A i \in J + 1 .. E : w[x] # w[i]
    BY <1>3, <1>9, <2>1
  <2>3. QED
    BY <1>2, <1>8, <2>2
<1>10. ASSUME J > 0 PROVE hf[w[J]] = [items |-> pre, next |-> Follow(w, E)]
  <2>1. J \in 1 .. N /\ J \notin J + 1 .. E /\ (E < N => E + 1 \in 1 .. N /\ E + 1 # J)
    BY <1>1, <1>10
  <2>2. w[J] \in DOMAIN hf /\ w[J] \in DOMAIN h /\ (E < N => w[J] # w[E + 1])
    BY <1>2, <1>3, <1>9, <2>1
  <2>3. QED
    <3>1. hf[w[J]] = h3[w[J]]
      BY <1>7, <2>2
    <3>2. h3[w[J]] = h2[w[J]]
      BY <1>6, <2>2
    <3>3. h2[w[J]] = [items |-> pre, next |-> e]
      BY <1>5, <1>10
    <3>4. QED
      BY <3>1, <3>2, <3>3 DEF e
<1>11. ASSUME E < N PROVE hf[w[E + 1]] = [items |-> suf, next |-> Follow(w, E + 1)]
  <2>1. E + 1 \in 1 .. N /\ E + 1 \notin J + 1 .. E
    BY <1>1, <1>11
  <2>2. w[E + 1] \in DOMAIN hf
    BY <1>9, <2>1
  <2>3. QED
    BY <1>6, <1>7, <1>11, <2>2
<1>12. ASSUME NEW p \in DOMAIN hf, J > 0 => p # w[J], E < N => p # w[E + 1] PROVE hf[p] = h[p]
  BY <1>5, <1>6, <1>7, <1>12
<1>13. CutHeap(h, w, J, E, pre, suf, hf)
  BY <1>8, <1>10, <1>11, <1>12 DEF CutHeap, N
<1>14. QED
  BY <1>13 DEF hf

\* What bl_remove_index_range gives.
LEMMA BlRemoveRangeSound ==
  ASSUME NEW ls, NEW S, NEW ns, NEW cs, NEW off, Layout(heap, ls, S, ns, cs, off), NEW l \in Lists,
         NEW start \in Nat, NEW length \in Nat, length > 0, start + length <= Len(S[l]),
         NEW Lh, Lh = BlRemoveRange(ls[l], start, length)
  PROVE  Sound(Lh[2], [ls EXCEPT ![l] = Lh[1]], [S EXCEPT ![l] = Splice(S[l], start, start + length, <<>>)])
<1> DEFINE L == ls[l]
           w == ns[l]
           ds == cs[l]
           o == off[l]
           s == S[l]
           N == Len(w)
           Z == Len(s)
           e == start + length
           c == Walk(<<L.head, 0>>, start)
           F == Forget(L)
           L1 == [F EXCEPT !.n = @ - length]
<1>1. Right(L, heap, w, ds, o, s) /\ IsFiniteSet(DOMAIN heap)
  BY DEF Layout
<1>2. /\ N \in Nat /\ w \in Seq(Nat \ {0}) /\ s \in Seq(Int) /\ Z \in Nat /\ L.n = Z
      /\ \A k \in 0 .. N : o[k] \in Nat /\ o[k] <= Z
  BY <1>1, ListFacts
<1>3. start \in Nat /\ length \in Nat /\ length > 0 /\ e <= Z /\ e \in Nat /\ start < Z /\ start <= e
      /\ e - start = length /\ Z - length \in Nat
  <2>1. start \in Nat /\ length \in Nat /\ length > 0 /\ e <= Z
    OBVIOUS
  <2> HIDE DEF Z
  <2>2. QED
    BY <1>2, <2>1
<1>4. PICK K \in 1 .. N : Found(c, w, o, K, start)
  <2>1. \E K \in 1 .. Len(w) : Found(FindNode(L, start), w, o, K, start) /\ Found(c, w, o, K, start)
    BY <1>3, FindNodeFinds
  <2>2. QED
    BY <2>1
<1>5. c[1] = w[K] /\ c[2] = o[K - 1] /\ K \in 1 .. N /\ o[K - 1] <= start
  BY <1>4 DEF Found
<1>6. NodeAt(heap, w, ds, o, s, K)
  BY <1>1, NodeFacts
<1> DEFINE p == w[K]
           d == ds[K]
           D == Len(d)
           z == o[K - 1]
           k == start - z
           J == IF k > 0 THEN K ELSE K - 1
           pre == IF k > 0 THEN SubSeq(d, 1, k) ELSE IF J > 0 THEN ds[J] ELSE <<>>
           j0 == IF J > 0 THEN J - 1 ELSE 0
<1>7. /\ d \in Seq(Int) /\ D \in Nat /\ D \in 1 .. BlockSize /\ heap[p].items = d /\ p # NULL
      /\ heap[p].next = Follow(w, K) /\ p \in DOMAIN heap /\ o[K] = z + D /\ z \in Nat
      /\ heap[p] = [items |-> d, next |-> Follow(w, K)]
  BY <1>6 DEF NodeAt
<1>8. FrontOf(s, N, o, start, J, pre, j0) /\ k \in 0 .. D - 1
  BY <1>1, <1>3, <1>4, FrontIs
<1>9. k \in Nat /\ k <= D /\ z + k = start /\ J \in 0 .. N /\ start <= o[J]
  <2>1. J \in 0 .. N /\ start <= o[J]
    BY <1>8 DEF FrontOf
  <2>2. k \in 0 .. D - 1
    BY <1>8
  <2>3. k = start - z
    OBVIOUS
  <2> HIDE DEF k, z, D
  <2>4. k \in Nat /\ k <= D /\ z + k = start
    BY <1>3, <1>7, <2>2, <2>3
  <2>5. QED
    BY <2>1, <2>4
<1>10. L \in Header /\ L.head = Follow(w, 0) /\ L.tail = TailOf(w)
  BY <1>1 DEF Right
<1>11. F \in Header /\ F.head = L.head /\ F.tail = L.tail /\ F.n = Z /\ F.last = NULL
  BY <1>2, <1>10, ForgetIs
<1>12. L1 = [F EXCEPT !.n = Z - length]
  BY <1>11
<1> DEFINE cut == IF k > 0 THEN D - k ELSE 0
           h1 == [heap EXCEPT ![p].items = IF k > 0 THEN SubSeq(@, 1, k) ELSE @]
           prev == IF k > 0 THEN p ELSE Previous(L, p)
           r == Nodes(heap, IF k > 0 THEN heap[p].next ELSE p)
           skipped == Skipped(heap, r)
           rest == length - cut
           j == Min({i \in 0 .. Len(r) :
                        rest = skipped[i] \/ (i < Len(r) /\ rest < skipped[i + 1])})
           end == IF j = Len(r) THEN NULL ELSE r[j + 1]
           h2 == IF prev = NULL THEN h1 ELSE [h1 EXCEPT ![prev].next = end]
           h3 == IF end = NULL THEN h2
                 ELSE [h2 EXCEPT ![end].items = SubSeq(@, rest - skipped[j] + 1, Len(@))]
           B == {r[i] : i \in 1 .. j}
           within == <<L1, [heap EXCEPT ![p].items = SubSeq(@, 1, k) \o SubSeq(@, k + length + 1, D)]>>
           L2 == [L1 EXCEPT !.head = IF prev = NULL THEN end ELSE @,
                            !.tail = IF end = NULL THEN prev ELSE @]
           across == <<L2, Free(h3, B)>>
<1>13. Lh = IF k > 0 /\ k + length < D THEN within ELSE across
  <2> DEFINE Out(pp, kk, size) ==
        LET cut0 == IF kk > 0 THEN size - kk ELSE 0
            g1 == [heap EXCEPT ![pp].items = IF kk > 0 THEN SubSeq(@, 1, kk) ELSE @]
            prev0 == IF kk > 0 THEN pp ELSE Previous(L, pp)
            r0 == Nodes(heap, IF kk > 0 THEN heap[pp].next ELSE pp)
            skipped0 == Skipped(heap, r0)
            rest0 == length - cut0
            jj == Min({i \in 0 .. Len(r0) :
                         rest0 = skipped0[i] \/ (i < Len(r0) /\ rest0 < skipped0[i + 1])})
            end0 == IF jj = Len(r0) THEN NULL ELSE r0[jj + 1]
            g2 == IF prev0 = NULL THEN g1 ELSE [g1 EXCEPT ![prev0].next = end0]
            g3 == IF end0 = NULL THEN g2
                  ELSE [g2 EXCEPT ![end0].items = SubSeq(@, rest0 - skipped0[jj] + 1, Len(@))]
        IN  IF kk > 0 /\ kk + length < size
            THEN <<L1, [heap EXCEPT ![pp].items = SubSeq(@, 1, kk) \o SubSeq(@, kk + length + 1, size)]>>
            ELSE <<[L1 EXCEPT !.head = IF prev0 = NULL THEN end0 ELSE @,
                              !.tail = IF end0 = NULL THEN prev0 ELSE @],
                   Free(g3, {r0[i] : i \in 1 .. jj})>>
  <2>1. Lh = Out(c[1], start - c[2], Len(heap[c[1]].items))
    <3> HIDE DEF c
    <3>1. QED
      BY DEF BlRemoveRange, c
  <2>2. c[1] = p /\ start - c[2] = k /\ Len(heap[c[1]].items) = D
    BY <1>5, <1>7
  <2>3. Out(c[1], start - c[2], Len(heap[c[1]].items)) = Out(p, k, D)
    <3> HIDE DEF Out, c, p, k, D
    <3>1. QED
      BY <2>2
  <2>4. Out(p, k, D) = IF k > 0 /\ k + length < D THEN within ELSE across
    OBVIOUS
  <2> HIDE DEF Out
  <2>5. QED
    BY <2>1, <2>3, <2>4
<1>14. CASE k > 0 /\ k + length < D
  <2> DEFINE b == k + length
             x == <<>>
             y == SubSeq(d, 1, k) \o SubSeq(d, b + 1, D)
             hf == [heap EXCEPT ![p].items = y]
  <2>1. Lh = <<L1, hf>>
    BY <1>7, <1>13, <1>14
  <2>2. b \in Nat /\ k <= b /\ b <= D /\ z + b = e /\ D + 0 - (b - k) \in 1 .. BlockSize
        /\ Z - length = Z + 0 - (b - k)
    <3>1. k \in Nat /\ length \in Nat /\ length > 0 /\ b = k + length /\ b < D /\ k > 0 /\ z + k = start /\ e = start + length
      BY <1>3, <1>9, <1>14
    <3>2. BlockSize \in Nat /\ D \in 1 .. BlockSize /\ z \in Nat /\ start \in Nat
      BY <1>3, <1>7, Small
    <3> HIDE DEF k, b, D, z, e, Z
    <3>3. QED
      BY <1>2, <3>1, <3>2
  <2>3. x \in Seq(Int) /\ Len(x) = 0
    OBVIOUS
  <2>4. y = Splice(d, k, b, x)
    <3> HIDE DEF d, k, b
    <3>1. SubSeq(d, 1, k) \o SubSeq(d, b + 1, Len(d)) = Splice(d, k, b, <<>>)
      BY <1>7, <1>9, <2>2, DeleteSplices
    <3>2. QED
      BY <3>1
  <2>5. Edited(heap, p, y, Follow(w, K), hf)
    <3> DEFINE g == Follow(w, K)
    <3>1. heap[p] = [items |-> d, next |-> g] /\ p \in DOMAIN heap
      BY <1>7
    <3> HIDE DEF y, p, g, d
    <3>2. QED
      BY <3>1, ItemsExcept DEF g
  <2>6. Fields(L1, F.head, F.tail, Z - length)
    <3> HIDE DEF F, Z
    <3>1. QED
      BY <1>3, <1>11, <1>12, FieldsExcept
  <2>7. Kept(L1, L, w, o, K) /\ L1.tail = L.tail /\ L1.n = Z - length
    BY <1>11, <2>6 DEF Fields, Kept
  <2>8. Len(d) + Len(x) - (b - k) \in 1 .. BlockSize /\ L1.n = Len(s) + Len(x) - (b - k)
    BY <2>2, <2>3, <2>7
  <2> HIDE DEF x, y, hf, L1, k, b
  <2>9. Sound(hf, [ls EXCEPT ![l] = L1], [S EXCEPT ![l] = Splice(s, z + k, z + b, x)])
    <3>1. K \in 1 .. Len(ns[l]) /\ k \in Nat /\ b \in Nat /\ k <= b /\ b <= Len(cs[l][K])
      BY <1>9, <2>2
    <3>2. QED
      BY <2>3, <2>4, <2>5, <2>7, <2>8, <3>1, EditNode, ZenonT(40)
  <2>10. Sound(hf, [ls EXCEPT ![l] = L1], [S EXCEPT ![l] = Splice(s, start, e, <<>>)])
    BY <1>9, <2>2, <2>9 DEF x
  <2>11. Lh[1] = L1 /\ Lh[2] = hf
    BY <2>1
  <2>12. QED
    BY <2>10, <2>11
<1>15. CASE ~(k > 0 /\ k + length < D)
  <2>1. Lh = across
    BY <1>13, <1>15
  <2>2. prev = (IF J > 0 THEN w[J] ELSE NULL) /\ r = Rest(w, J) /\ rest = e - o[J] /\ o[J] <= e
    <3>1. CASE k > 0
      <4>1. J = K /\ J > 0 /\ prev = p /\ r = Nodes(heap, Follow(w, K)) /\ rest = length - (D - k)
        BY <1>5, <1>7, <3>1
      <4>2. K \in 0 .. N
        BY <1>5, <1>2
      <4>3. r = Rest(w, K)
        BY <4>1, <4>2, NodesAt
      <4>4. rest = e - o[K] /\ o[K] <= e
        <5>1. k \in Nat /\ length \in Nat /\ e = start + length /\ z + k = start /\ o[K] = z + D /\ D \in Nat
              /\ z \in Nat /\ start \in Nat /\ ~(k + length < D) /\ rest = length - (D - k)
          BY <1>3, <1>7, <1>9, <1>15, <3>1, <4>1
        <5> DEFINE q == o[K]
        <5> HIDE DEF q, k, e, z, D, rest
        <5>2. q = z + D
          BY <5>1 DEF q
        <5>3. rest = e - q /\ q <= e
          BY <5>1, <5>2
        <5>4. QED
          BY <5>3 DEF q
      <4>5. QED
        BY <4>1, <4>3, <4>4
    <3>2. CASE ~(k > 0)
      <4>1. J = K - 1 /\ prev = Previous(L, p) /\ r = Nodes(heap, p) /\ rest = length
        BY <3>2
      <4>2. J \in 0 .. N /\ J + 1 = K /\ J < N /\ (K = 1 <=> ~(J > 0)) /\ (J > 0 => J = K - 1)
        <5> HIDE DEF J, N
        <5>1. J = K - 1 /\ K \in Nat /\ 1 <= K /\ K <= N /\ N \in Nat
          BY <1>2, <1>5, <4>1
        <5>2. QED
          BY <5>1
      <4>3. p = Follow(w, J)
        BY <4>2 DEF Follow
      <4>4. r = Rest(w, J)
        <5>1. Nodes(heap, Follow(w, J)) = Rest(w, J)
          BY <4>2, NodesAt
        <5>2. QED
          BY <4>1, <4>3, <5>1
      <4>5. Previous(L, w[K]) = IF K = 1 THEN NULL ELSE w[K - 1]
        BY <1>5, PreviousIs
      <4>6. prev = IF J > 0 THEN w[J] ELSE NULL
        BY <4>1, <4>2, <4>5
      <4>7. rest = e - o[J] /\ o[J] <= e
        <5>1. o[J] = z /\ start = z
          <6>1. o[J] = z
            BY <4>1
          <6>2. k \in Nat /\ ~(k > 0) /\ z + k = start /\ z \in Nat
            BY <1>7, <1>9, <3>2
          <6> HIDE DEF k, z
          <6>3. QED
            BY <6>1, <6>2
        <5>2. rest = length /\ e = start + length /\ start \in Nat /\ length \in Nat
          BY <1>3, <4>1
        <5> HIDE DEF rest, e, J
        <5>3. QED
          BY <5>1, <5>2
      <4>8. QED
        BY <4>4, <4>6, <4>7
    <3>3. QED
      BY <3>1, <3>2
  <2>3. Len(r) = N - J /\ skipped = Counts(o, N, J) /\ \A i \in 1 .. N - J : r[i] = w[J + i]
    <3> HIDE DEF J, r
    <3>1. r = Rest(w, J) /\ J \in 0 .. Len(w)
      BY <1>9, <2>2
    <3>2. Len(Rest(w, J)) = Len(w) - J /\ \A i \in 1 .. Len(w) - J : Rest(w, J)[i] = w[J + i]
      BY <1>2, <3>1, RestType
    <3>3. Skipped(heap, Rest(w, J)) = Counts(o, Len(w), J)
      BY <1>1, <3>1, SkippedRest
    <3>4. QED
      BY <3>1, <3>2, <3>3
  <2>4. PICK E \in J .. N : EndsIn(o, N, e, E)
    <3> HIDE DEF J, e
    <3>1. QED
      BY <1>1, <1>3, <1>9, <2>2, EndExists
  <2>5. j = E - J
    <3> DEFINE n == Len(r)
    <3> HIDE DEF J, e, rest, skipped, n
    <3>1. n = Len(w) - J
      BY <2>3 DEF n
    <3>2. NodesGone(rest, skipped, n) = E - J
      <4>1. E \in J .. Len(w) /\ EndsIn(o, Len(w), e, E) /\ J \in 0 .. Len(w)
        BY <1>9, <2>4
      <4>2. rest = e - o[J] /\ skipped = Counts(o, Len(w), J) /\ e \in Nat
        BY <1>3, <2>2, <2>3
      <4>3. GoneUpTo(o, Len(w), e, J, E)
        BY <1>1, <4>1, <4>2, EndIs
      <4>4. QED
        BY <3>1, <4>2, <4>3 DEF GoneUpTo
    <3>3. QED
      BY <3>2 DEF n, NodesGone, j
  <2> DEFINE a == e - o[E]
             suf == IF E < N THEN Rest(ds[E + 1], a) ELSE <<>>
             k0 == IF E < N THEN E + 1 ELSE E
  <2>6. BackOf(s, N, o, e, E, suf, k0)
    <3> HIDE DEF e
    <3>1. QED
      BY <1>1, <1>3, <2>4, BackIs
  <2>7. /\ o[E] <= e /\ E \in 0 .. N /\ J \in 0 .. N /\ E \in J .. N /\ a \in Nat
        /\ E \in Nat /\ J \in Nat /\ E - J \in Nat
    <3>1. o[E] <= e /\ E \in 0 .. N
      BY <2>4 DEF EndsIn
    <3>2. J \in 0 .. N /\ E \in J .. N /\ o[E] \in Nat /\ e \in Nat
      BY <1>2, <1>3, <1>9, <2>4, <3>1
    <3> DEFINE q == o[E]
    <3> HIDE DEF J, e, N
    <3>3. E \in Nat /\ J \in Nat /\ E - J \in Nat
      BY <1>2, <3>1, <3>2
    <3>4. a \in Nat
      <4>1. q \in Nat /\ q <= e /\ e \in Nat /\ a = e - q
        BY <3>1, <3>2
      <4> HIDE DEF q, a
      <4>2. QED
        BY <4>1
    <3>5. QED
      BY <3>1, <3>2, <3>3, <3>4
  <2>8. end = Follow(w, E)
    <3> DEFINE q == Len(r)
    <3> HIDE DEF J, j, r
    <3>1. q = N - J /\ j = E - J /\ end = IF j = q THEN NULL ELSE r[j + 1]
      BY <2>3, <2>5
    <3> HIDE DEF end, q
    <3>2. CASE E < N
      <4>1. j # q /\ j + 1 \in 1 .. N - J /\ J + (j + 1) = E + 1
        <5> HIDE DEF N
        <5>1. q = N - J /\ j = E - J
          BY <3>1
        <5>2. N \in Nat /\ E \in Nat /\ J \in Nat /\ E - J \in Nat /\ E < N
          BY <1>2, <2>7, <3>2
        <5>3. QED
          BY <5>1, <5>2
      <4>2. end = w[E + 1]
        BY <2>3, <3>1, <4>1
      <4>3. QED
        BY <3>2, <4>2 DEF Follow
    <3>3. CASE ~(E < N)
      <4>1. j = q
        <5> HIDE DEF N
        <5>1. QED
          BY <1>2, <2>7, <3>1, <3>3
      <4>2. QED
        BY <3>1, <3>3, <4>1 DEF Follow
    <3>4. QED
      BY <3>2, <3>3
  <2>9. rest - skipped[j] = a
    <3>1. skipped[j] = o[E] - o[J]
      <4>1. j \in 0 .. N - J /\ J + j = E
        <5> HIDE DEF J, j, N
        <5>1. QED
          BY <1>2, <2>5, <2>7, SMTT(20)
      <4> HIDE DEF J, j, skipped
      <4>2. QED
        BY <2>3, <4>1 DEF Counts
    <3> DEFINE x == o[E]
               y == o[J]
               t == skipped[j]
    <3>2. rest = e - y /\ t = x - y /\ a = e - x /\ x \in Nat /\ y \in Nat /\ e \in Nat
      BY <1>2, <1>3, <2>2, <2>7, <3>1
    <3> HIDE DEF rest, t, x, y, a, e
    <3>3. rest - t = a
      BY <3>2
    <3>4. QED
      BY <3>3 DEF t
  <2>10. NodesBetween(w, J, E, B)
    <3> HIDE DEF J, j, r
    <3>1. \A i \in 1 .. j : i \in 1 .. N - J /\ J + i \in J + 1 .. E
      <4> HIDE DEF N
      <4>1. QED
        BY <1>2, <2>5, <2>7
    <3>2. \A i \in J + 1 .. E : i - J \in 1 .. j /\ i - J \in 1 .. N - J /\ J + (i - J) = i
      <4> HIDE DEF N
      <4>1. QED
        BY <1>2, <2>5, <2>7
    <3>3. ASSUME NEW q \in B PROVE \E i \in J + 1 .. E : q = w[i]
      <4>1. PICK i \in 1 .. j : q = r[i]
        OBVIOUS
      <4>2. q = w[J + i]
        BY <2>3, <3>1, <4>1
      <4>3. QED
        BY <3>1, <4>2
    <3>4. ASSUME NEW i \in J + 1 .. E PROVE w[i] \in B
      <4> DEFINE y == i - J
      <4>1. y \in 1 .. j /\ y \in 1 .. N - J /\ J + y = i
        BY <3>2
      <4> HIDE DEF y
      <4>2. r[y] = w[i]
        BY <2>3, <4>1
      <4>3. r[y] \in B
        BY <4>1
      <4>4. QED
        BY <4>2, <4>3
    <3> HIDE DEF B
    <3>5. QED
      BY <3>3, <3>4 DEF NodesBetween
  <2>11. FirstCut(heap, w, J, pre, h1)
    <3> HIDE DEF k
    <3>1. QED
      BY <1>1, <1>5, <1>9, FirstIsCut DEF J, pre
  <2>12. CutHeap(heap, w, J, E, pre, suf, Free(h3, B))
    <3>1. h2 = Joined(h1, prev, Follow(w, E))
      BY <2>8 DEF Joined
    <3>2. h3 = Trimmed(h2, Follow(w, E), a)
      <4> HIDE DEF h2, end, rest, skipped, j, a
      <4>1. QED
        BY <2>8, <2>9 DEF Trimmed
    <3>3. suf = IF E < Len(w) THEN Rest(ds[E + 1], a) ELSE <<>>
      OBVIOUS
    <3> HIDE DEF J, pre, suf, prev, h1, h2, h3, B, a
    <3>4. J \in 0 .. Len(w) /\ E \in J .. Len(w) /\ a \in Nat /\ prev = IF J > 0 THEN w[J] ELSE NULL
      BY <2>2, <2>7
    <3>5. QED
      BY <1>1, <2>10, <2>11, <3>1, <3>2, <3>3, <3>4, RestIsCut
  <2>13. Splice(s, o[j0], o[k0], pre \o suf) = Splice(s, start, e, <<>>)
         /\ o[j0] + Len(pre \o suf) + (Z - o[k0]) = Z - (e - start)
    <3> HIDE DEF J, pre, j0, suf, k0, e
    <3>1. FrontOf(s, Len(w), o, start, J, pre, j0) /\ BackOf(s, Len(w), o, e, E, suf, k0)
      BY <1>8, <2>6
    <3>2. e \in Nat /\ start <= e /\ e <= Len(s)
      BY <1>3
    <3>3. QED
      <4>1. SameCut(s, o[j0], o[k0], pre \o suf, start, e)
        BY <1>1, <3>1, <3>2, RangeSplices
      <4>2. QED
        BY <4>1 DEF SameCut
  <2>14. pre \in Seq(Int) /\ suf \in Seq(Int)
         /\ (IF J > 0 THEN Len(pre) \in 1 .. BlockSize ELSE pre = <<>>)
         /\ (IF E < N THEN Len(suf) \in 1 .. BlockSize ELSE suf = <<>>)
    <3> HIDE DEF J, pre, j0, suf, k0, e
    <3>1. QED
      BY <1>8, <2>6 DEF FrontOf, BackOf
  <2>15. /\ (prev = NULL <=> ~(J > 0)) /\ (end = NULL <=> ~(E < N)) /\ prev \in Nat /\ end \in Nat
         /\ prev = (IF J > 0 THEN w[J] ELSE NULL)
    <3>1. \A i \in 1 .. N : w[i] \in Nat /\ w[i] # NULL
      BY <1>2, ElementOfSeq DEF NULL
    <3>2. (J > 0 => J \in 1 .. N) /\ (E < N => E + 1 \in 1 .. N)
      <4> HIDE DEF J, N
      <4>1. QED
        BY <1>2, <2>7
    <3> HIDE DEF prev, end, J
    <3>3. end = IF E < N THEN w[E + 1] ELSE NULL
      BY <2>8 DEF Follow
    <3>4. QED
      BY <2>2, <3>1, <3>2, <3>3 DEF NULL
  <2>16. Fields(L2, IF J > 0 THEN L.head ELSE Follow(w, E),
                IF E < N THEN L.tail ELSE IF J > 0 THEN w[J] ELSE NULL, Z - length)
    <3> DEFINE x == IF J > 0 THEN L.head ELSE end
               y == IF E < N THEN L.tail ELSE prev
    <3>1. Fields(L1, F.head, F.tail, Z - length)
      <4> HIDE DEF F, Z
      <4>1. QED
        BY <1>3, <1>11, <1>12, FieldsExcept
    <3>2. L1.head = L.head /\ L1.tail = L.tail
      BY <1>11, <3>1 DEF Fields
    <3>3. x \in Nat /\ y \in Nat
      <4>1. L.head \in Nat /\ L.tail \in Nat
        BY <1>10, HeaderTypes
      <4> HIDE DEF prev, end, J
      <4>2. QED
        BY <2>15, <4>1
    <3>4. L2 = [L1 EXCEPT !.head = x, !.tail = y]
      <4> HIDE DEF L1, prev, end, J, N
      <4>1. QED
        BY <2>15, <3>2
    <3> HIDE DEF x, y
    <3>5. L2 = [[F EXCEPT !.n = Z - length] EXCEPT !.head = x, !.tail = y]
      BY <1>12, <3>4
    <3> HIDE DEF L2
    <3>6. Fields(L2, x, y, Z - length)
      <4> HIDE DEF F, Z
      <4>1. QED
        BY <1>3, <1>11, <3>3, <3>5, FieldsExcept
    <3> HIDE DEF prev, end
    <3>7. QED
      BY <2>8, <2>15, <3>6 DEF x, y
  <2>17. CutHeader(L2, L, w, J, E) /\ L2.n = Z - length
    <3> HIDE DEF L2, J
    <3>1. QED
      BY <2>16 DEF Fields, CutHeader
  <2> DEFINE hf == Free(h3, B)
  <2>18. L2.n = o[j0] + Len(pre \o suf) + (Len(s) - o[k0])
    <3>1. Z - (e - start) = Z - length
      BY <1>3
    <3> HIDE DEF L2, j0, k0, pre, suf
    <3>2. QED
      BY <2>13, <2>17, <3>1
  <2>19. CutEnds(Len(w), J, E, pre, suf, j0, k0)
    <3>1. j0 = (IF J > 0 THEN J - 1 ELSE 0) /\ k0 = (IF E < Len(w) THEN E + 1 ELSE E)
      OBVIOUS
    <3> HIDE DEF j0, k0, J, pre, suf
    <3>2. QED
      BY <2>7, <2>14, <3>1 DEF CutEnds
  <2>20. CutHeap(heap, w, J, E, pre, suf, hf)
    BY <2>12
  <2> HIDE DEF hf, L2, J, j0, k0, pre, suf
  <2>21. Sound(hf, [ls EXCEPT ![l] = L2], [S EXCEPT ![l] = Splice(s, o[j0], o[k0], pre \o suf)])
    <3>1. Counted(L2, s, o[j0], o[k0], pre \o suf)
      BY <2>18 DEF Counted
    <3>2. QED
      BY <2>17, <2>19, <2>20, <3>1, CutSound
  <2>22. Sound(hf, [ls EXCEPT ![l] = L2], [S EXCEPT ![l] = Splice(s, start, e, <<>>)])
    BY <2>13, <2>21
  <2>23. Lh[1] = L2 /\ Lh[2] = hf
    <3>1. Lh = <<L2, hf>>
      BY <2>1 DEF hf, L2
    <3>2. QED
      BY <3>1
  <2>24. QED
    BY <2>22, <2>23
<1>16. QED
  BY <1>14, <1>15

\* bl_remove_index_range removes length elements.
LEMMA RemoveRangeSound ==
  ASSUME NEW S, NEW ns, NEW cs, NEW off, Layout(heap, lists, S, ns, cs, off), NEW l \in Lists,
         NEW i \in Nat, NEW n \in Nat, RemoveRange(l, i, n)
  PROVE  /\ Sound(heap', lists', [S EXCEPT ![l] = SubSeq(S[l], 1, i) \o SubSeq(S[l], i + n + 1, Len(S[l]))])
         /\ result' = <<>> /\ n \in 1 .. Len(S[l]) - i
<1> DEFINE Lh == BlRemoveRange(lists[l], i, n)
           s == S[l]
<1>1. n > 0 /\ i + n <= lists[l].n /\ Become(l, Lh) /\ result' = <<>>
  BY DEF RemoveRange
<1>2. Right(lists[l], heap, ns[l], cs[l], off[l], s)
  BY DEF Layout
<1>3. s \in Seq(Int) /\ Len(s) \in Nat /\ lists[l].n = Len(s)
  BY <1>2, ListFacts
<1>4. Lh = BlRemoveRange(lists[l], i, n)
  OBVIOUS
<1> HIDE DEF Lh
<1>5. Sound(Lh[2], [lists EXCEPT ![l] = Lh[1]], [S EXCEPT ![l] = Splice(s, i, i + n, <<>>)])
  BY <1>1, <1>3, <1>4, BlRemoveRangeSound
<1>6. Splice(s, i, i + n, <<>>) = SubSeq(s, 1, i) \o SubSeq(s, i + n + 1, Len(s))
  <2> DEFINE k == i + n
  <2>1. k \in Nat /\ i <= k /\ k <= Len(s)
    BY <1>1, <1>3
  <2> HIDE DEF k
  <2>2. SubSeq(s, 1, i) \o SubSeq(s, k + 1, Len(s)) = Splice(s, i, k, <<>>)
    BY <1>3, <2>1, DeleteSplices
  <2>3. QED
    BY <2>2 DEF k
<1>7. Sound(Lh[2], [lists EXCEPT ![l] = Lh[1]],
            [S EXCEPT ![l] = SubSeq(s, 1, i) \o SubSeq(s, i + n + 1, Len(s))])
  BY <1>5, <1>6
<1>8. n \in 1 .. Len(s) - i
  BY <1>1, <1>3
<1> HIDE DEF s
<1>9. Sound(heap', lists', [S EXCEPT ![l] = SubSeq(s, 1, i) \o SubSeq(s, i + n + 1, Len(s))])
  BY <1>1, <1>7, Becomes
<1>10. QED
  BY <1>1, <1>8, <1>9 DEF s

\* The first entry of s that is v, counted from 1, or 0.
FirstOf(s, v) == SelectInSeq(s, LAMBDA e : e = v)

\* It is one, and there is none before it.
IsFirst(s, v, i) == i \in 1 .. Len(s) /\ s[i] = v /\ \A j \in 1 .. Len(s) : s[j] = v => i <= j

-----------------------------------------------------------------------------
(* Removal of a value *)

\* The search for the first v finds it, if there is one.
LEMMA FirstOfIs ==
  ASSUME NEW T, NEW s \in Seq(T), NEW v
  PROVE  IF Contains(s, v) THEN IsFirst(s, v, FirstOf(s, v)) ELSE FirstOf(s, v) = 0
<1> DEFINE X == {i \in 1 .. Len(s) : s[i] = v}
           n == Len(s)
<1>1. FirstOf(s, v) = IF X # {} THEN Min(X) ELSE 0
  BY DEF FirstOf, SelectInSeq
<1>2. n \in Nat /\ X \in SUBSET (0 .. n) /\ \A i \in X : i \in 1 .. n /\ s[i] = v
  BY LenProperties
<1>3. \A i \in 1 .. n : s[i] = v => i \in X
  OBVIOUS
<1>4. Contains(s, v) <=> X # {}
  BY DEF Contains
<1> HIDE DEF X, n
<1>5. CASE X # {}
  <2>1. Min(X) \in X /\ \A x \in X : Min(X) <= x
    BY <1>2, <1>5, MinMax
  <2>2. IsFirst(s, v, Min(X))
    BY <1>2, <1>3, <2>1 DEF IsFirst, n
  <2>3. QED
    BY <1>1, <1>4, <1>5, <2>2
<1>6. QED
  BY <1>1, <1>4, <1>5

\* A header whose shortcut is taken away, before a node loses an element or after.
LEMMA RemoveForgets ==
  ASSUME NEW L \in Header, NEW p, NEW prev, NEW k
  PROVE  RemoveFrom(Forget(L), p, prev, k) =
             <<Forget(RemoveFrom(L, p, prev, k)[1]), RemoveFrom(L, p, prev, k)[2]>>
<1> DEFINE F == Forget(L)
           next == heap[p].next
           big == Len(heap[p].items) > 1
           L1 == [L EXCEPT !.n = @ - 1]
           F1 == [F EXCEPT !.n = @ - 1]
           La == [L1 EXCEPT !.head = next, !.tail = IF next = NULL THEN NULL ELSE @]
           Fa == [F1 EXCEPT !.head = next, !.tail = IF next = NULL THEN NULL ELSE @]
           Lb == [L1 EXCEPT !.tail = IF p = @ THEN prev ELSE @]
           Fb == [F1 EXCEPT !.tail = IF p = @ THEN prev ELSE @]
           h1 == [heap EXCEPT ![p].items = RemoveAt(@, k)]
           h2 == Free(heap, {p})
           h3 == Free([heap EXCEPT ![prev].next = next], {p})
<1>1. RemoveFrom(L, p, prev, k) = IF big THEN <<L1, h1>> ELSE IF prev = NULL THEN <<La, h2>> ELSE <<Lb, h3>>
  BY DEF RemoveFrom
<1>2. RemoveFrom(F, p, prev, k) = IF big THEN <<F1, h1>> ELSE IF prev = NULL THEN <<Fa, h2>> ELSE <<Fb, h3>>
  <2> HIDE DEF F
  <2>1. QED
    BY DEF RemoveFrom
<1>3. F1 = Forget(L1) /\ Fa = Forget(La) /\ Fb = Forget(Lb)
  <2> HIDE DEF next
  <2>1. F = [L EXCEPT !.last = NULL, !.lastn = 0]
    BY DEF Forget, Cached
  <2>2. L = [head |-> L.head, tail |-> L.tail, n |-> L.n, last |-> L.last, lastn |-> L.lastn]
    BY DEF Header
  <2>3. F1 = Forget(L1)
    BY <2>1, <2>2 DEF Forget, Cached
  <2>4. Fa = Forget(La)
    BY <2>1, <2>2 DEF Forget, Cached
  <2>5. Fb = Forget(Lb)
    BY <2>1, <2>2 DEF Forget, Cached
  <2>6. QED
    BY <2>3, <2>4, <2>5
<1> HIDE DEF F, F1, Fa, Fb, L1, La, Lb, h1, h2, h3, big
<1>4. QED
  BY <1>1, <1>2, <1>3 DEF F

\* remove_value in the first node: the shortcut is taken away, and that is right.
LEMMA RemoveValueSound ==
  ASSUME NEW S, NEW ns, NEW cs, NEW off, Layout(heap, lists, S, ns, cs, off), NEW l \in Lists,
         NEW v, InFirstNode(l, v), RemoveValue(l, v)
  PROVE  IF Contains(S[l], v)
         THEN /\ Sound(heap', lists', [S EXCEPT ![l] = RemoveAt(S[l], FirstOf(S[l], v))])
              /\ result' = <<FirstOf(S[l], v) - 1>>
         ELSE Sound(heap', lists', S) /\ result' = <<-1>>
<1> DEFINE L == lists[l]
           w == ns[l]
           o == off[l]
           s == S[l]
           N == Len(w)
           f == FirstOf(s, v)
           i == f - 1
           c == Walk(<<L.head, 0>>, i)
           prev == Previous(L, c[1])
           Lh == RemoveFrom(L, c[1], prev, i - c[2] + 1)
<1>1. Right(L, heap, w, cs[l], o, s)
  BY DEF Layout
<1>2. /\ N \in Nat /\ s \in Seq(Int) /\ Len(s) \in Nat /\ o[0] = 0
      /\ \A a, b \in 0 .. N : a <= b => o[a] <= o[b]
      /\ \A a \in 0 .. N : o[a] \in Nat /\ o[a] <= Len(s)
  BY <1>1, ListFacts
<1>3. Elements(l) = s
  <2>1. Items(heap, lists[l].head) = S[l]
    BY HeadNodes
  <2>2. QED
    BY <2>1 DEF Elements
<1>4. IF i = -1 THEN result' = <<-1>> /\ UNCHANGED <<heap, lists>>
      ELSE Become(l, <<Cached(Lh[1], <<prev, c[2]>>), Lh[2]>>) /\ result' = <<i>>
  BY <1>3 DEF RemoveValue, FirstOf
<1>5. IF Contains(s, v) THEN IsFirst(s, v, f) ELSE f = 0
  BY <1>2, FirstOfIs
<1>6. CASE ~Contains(s, v)
  <2>1. i = -1
    BY <1>5, <1>6
  <2>2. heap' = heap /\ lists' = lists /\ result' = <<-1>>
    BY <1>4, <2>1
  <2>3. Sound(heap, lists, S)
    BY DEF Sound
  <2>4. QED
    BY <1>6, <2>2, <2>3
<1>7. CASE Contains(s, v)
  <2>1. f \in 1 .. Len(s) /\ s[f] = v /\ \A j \in 1 .. Len(s) : s[j] = v => f <= j
    BY <1>5, <1>7 DEF IsFirst
  <2>2. i \in Nat /\ i < Len(s) /\ i # -1 /\ i + 1 = f
    <3> HIDE DEF f
    <3>1. QED
      BY <1>2, <2>1
  <2>3. Contains(heap[L.head].items, v)
    BY <1>3, <1>7 DEF InFirstNode
  <2>4. N >= 1 /\ L.head = w[1] /\ 1 \in 1 .. N
    <3>1. N # 0
      <4> SUFFICES ASSUME N = 0 PROVE FALSE
        OBVIOUS
      <4>1. off[l][N] = Len(s)
        BY <1>1, ListFacts
      <4>2. Len(s) = 0
        BY <1>2, <4>1
      <4>3. QED
        BY <2>2, <4>2
    <3>2. L.head = Follow(w, 0)
      BY <1>1 DEF Right
    <3>3. QED
      BY <1>2, <3>1, <3>2 DEF Follow
  <2>5. NodeAt(heap, w, cs[l], o, s, 1)
    BY <1>1, <2>4, NodeFacts
  <2> DEFINE d == cs[l][1]
  <2>6. /\ d \in Seq(Int) /\ Len(d) \in Nat /\ heap[w[1]].items = d /\ o[1] = o[0] + Len(d) /\ SameFrom(s, o[0], d)
        /\ o[1] <= Len(s) /\ o[1] \in Nat
    <3>1. 1 - 1 = 0
      OBVIOUS
    <3>2. QED
      BY <2>5, <3>1 DEF NodeAt
  <2>7. PICK y \in 1 .. Len(d) : d[y] = v
    BY <2>3, <2>4, <2>6 DEF Contains
  <2>8. f <= y /\ f <= Len(d) /\ i < o[1]
    <3>1. s[o[0] + y] = v
      BY <2>6, <2>7 DEF SameFrom
    <3>2. o[0] + y = y /\ o[1] = Len(d) /\ y \in 1 .. Len(s)
      BY <1>2, <2>6, <2>7
    <3>3. f <= y
      BY <2>1, <3>1, <3>2
    <3> DEFINE D == Len(d)
               q == o[1]
    <3>4. D \in Nat /\ q = D /\ y \in 1 .. D /\ f <= y /\ f \in Nat /\ i = f - 1
      <4> HIDE DEF f
      <4>1. QED
        BY <1>2, <2>1, <2>6, <2>7, <3>2, <3>3
    <3> HIDE DEF f, i, D, q
    <3>5. f <= y /\ f <= D /\ i < q
      BY <3>4
    <3>6. QED
      BY <3>5 DEF D, q
  <2>9. PICK k \in 1 .. N : Found(c, w, o, k, i)
    <3> HIDE DEF i
    <3>1. \E k \in 1 .. Len(w) : Found(FindNode(L, i), w, o, k, i) /\ Found(c, w, o, k, i)
      BY <2>2, FindNodeFinds
    <3>2. QED
      BY <3>1
  <2>10. k = 1
    <3> SUFFICES ASSUME k # 1 PROVE FALSE
      OBVIOUS
    <3> HIDE DEF i, c
    <3>1. o[k - 1] <= i
      BY <2>9 DEF Found
    <3>2. k - 1 \in 0 .. N /\ 1 \in 0 .. N /\ 1 <= k - 1
      BY <1>2, <2>9
    <3>3. o[1] <= o[k - 1] /\ o[k - 1] \in Nat
      BY <1>2, <3>2
    <3>4. QED
      BY <2>2, <2>6, <2>8, <3>1, <3>3
  <2>11. c = <<w[1], 0>>
    <3>1. c = <<w[k], o[k - 1]>>
      BY <2>9 DEF Found
    <3>2. QED
      BY <1>2, <2>10, <3>1
  <2>12. c[1] = w[1] /\ c[2] = 0 /\ prev = NULL
    <3>1. c[1] = w[1] /\ c[2] = 0
      BY <2>11
    <3>2. Previous(L, w[1]) = NULL
      BY <2>4, PreviousIs
    <3>3. QED
      BY <3>1, <3>2
  <2>13. i - c[2] + 1 = f
    <3> HIDE DEF f, c
    <3>1. QED
      BY <2>2, <2>12
  <2>14. Lh = RemoveFrom(L, w[1], NULL, f)
    <3> HIDE DEF c, i
    <3>1. QED
      BY <2>12, <2>13
  <2>15. <<Cached(Lh[1], <<prev, c[2]>>), Lh[2]>> = RemoveFrom(Forget(L), w[1], NULL, f)
    <3>1. L \in Header
      BY <1>1 DEF Right
    <3> DEFINE R == RemoveFrom(L, w[1], NULL, f)
    <3>2. RemoveFrom(Forget(L), w[1], NULL, f) = <<Forget(R[1]), R[2]>>
      BY <3>1, RemoveForgets
    <3> HIDE DEF R, Lh, prev, c
    <3>3. Lh = R
      BY <2>14 DEF R
    <3>4. <<Cached(Lh[1], <<prev, c[2]>>), Lh[2]>> = <<Forget(R[1]), R[2]>>
      BY <2>12, <3>3 DEF Forget
    <3>5. QED
      BY <3>2, <3>4
  <2> DEFINE Q == RemoveFrom(Forget(L), w[1], NULL, f)
  <2>16. Become(l, Q) /\ result' = <<f - 1>>
    <3> HIDE DEF Q, Lh, prev, c
    <3>1. QED
      BY <1>4, <2>2, <2>15 DEF Q
  <2>17. Sound(Q[2], [lists EXCEPT ![l] = Q[1]], [S EXCEPT ![l] = RemoveAt(s, f)])
    <3> DEFINE x == 1
               prev1 == NULL
    <3>1. x \in 1 .. Len(ns[l]) /\ f \in 1 .. Len(cs[l][x]) /\ prev1 = (IF x = 1 THEN NULL ELSE ns[l][x - 1])
          /\ Q = RemoveFrom(Forget(lists[l]), ns[l][x], prev1, f)
      <4> HIDE DEF f
      <4>1. QED
        BY <2>1, <2>4, <2>6, <2>8
    <3> HIDE DEF x, prev1, Q, f
    <3>2. Sound(Q[2], [lists EXCEPT ![l] = Q[1]], [S EXCEPT ![l] = RemoveAt(S[l], off[l][x - 1] + f)])
      BY <3>1, RemoveSound
    <3>3. off[l][x - 1] + f = f
      BY <1>2, <2>1 DEF x
    <3>4. QED
      BY <3>2, <3>3
  <2> HIDE DEF Q, f, s
  <2>18. Sound(heap', lists', [S EXCEPT ![l] = RemoveAt(s, f)])
    BY <2>16, <2>17, Becomes
  <2>19. QED
    BY <1>7, <2>16, <2>18 DEF f, s
<1>8. QED
  BY <1>6, <1>7

-----------------------------------------------------------------------------
(* Two lists: append and split *)

\* A list with no first node is empty.
LEMMA EmptyFacts ==
  ASSUME NEW L, NEW h, NEW ns, NEW cs, NEW off, NEW s, Right(L, h, ns, cs, off, s)
  PROVE  /\ L.head = NULL <=> Len(ns) = 0
         /\ L.head = NULL => s = <<>> /\ ns = <<>> /\ L.tail = NULL /\ L.n = 0 /\ L.last = NULL
<1>1. /\ ns \in Seq(Nat \ {0}) /\ Len(ns) \in Nat /\ s \in Seq(Int) /\ off[0] = 0 /\ off[Len(ns)] = Len(s)
      /\ L.n = Len(s)
  BY ListFacts
<1>2. L.head = Follow(ns, 0) /\ L.tail = TailOf(ns) /\ (L.last # NULL => AtCut(L.last, L.lastn, ns, off))
  BY DEF Right
<1>3. L.head = NULL <=> Len(ns) = 0
  <2>1. CASE Len(ns) = 0
    BY <1>2, <2>1 DEF Follow
  <2>2. CASE Len(ns) # 0
    <3>1. 1 \in 1 .. Len(ns) /\ 0 < Len(ns) /\ 0 + 1 = 1
      BY <1>1, <2>2
    <3>2. ns[1] \in Nat \ {0}
      BY <1>1, <3>1, ElementOfSeq
    <3>3. QED
      BY <1>2, <2>2, <3>1, <3>2 DEF Follow, NULL
  <2>3. QED
    BY <2>1, <2>2
<1>4. ASSUME Len(ns) = 0 PROVE s = <<>> /\ ns = <<>> /\ L.tail = NULL /\ L.n = 0 /\ L.last = NULL
  <2>1. Len(s) = 0
    BY <1>1, <1>4
  <2>2. ns = <<>> /\ s = <<>>
    BY <1>1, <1>4, <2>1, EmptySeq
  <2>3. L.tail = NULL
    BY <1>2, <1>4 DEF TailOf
  <2>4. ~AtCut(L.last, L.lastn, ns, off)
    BY <1>4 DEF AtCut
  <2>5. QED
    BY <1>1, <1>2, <2>1, <2>2, <2>3, <2>4
<1>5. QED
  BY <1>3, <1>4

\* What an empty list is made of.
NoOffset == [i \in 0 .. 0 |-> 0]

\* A list without nodes.
LEMMA EmptyRight ==
  ASSUME NEW M \in Header, M.head = NULL, M.tail = NULL, M.n = 0, M.last = NULL, NEW h
  PROVE  Right(M, h, <<>>, <<>>, NoOffset, <<>>) /\ \A p : ~In(p, <<>>)
<1> DEFINE e == <<>>
<1>1. Pieces(e, NoOffset, e)
  BY NoPiece DEF NoOffset
<1>2. e \in Seq(Nat \ {0}) /\ Len(e) = 0
  OBVIOUS
<1> HIDE DEF e
<1>3. \A k \in 1 .. Len(e) : FALSE
  BY <1>2
<1>4. Links(h, e, e)
  BY <1>2, <1>3 DEF Links
<1>5. Follow(e, 0) = NULL /\ TailOf(e) = NULL
  BY <1>2 DEF Follow, TailOf
<1>6. Right(M, h, e, e, NoOffset, e)
  BY <1>1, <1>2, <1>4, <1>5 DEF Right
<1>7. \A p : ~In(p, e)
  BY <1>3 DEF In
<1>8. QED
  BY <1>6, <1>7 DEF e

\* The nodes of one list after those of another one.
LEMMA InJoin ==
  ASSUME NEW a \in Seq(Nat \ {0}), NEW b \in Seq(Nat \ {0}), NEW p
  PROVE  In(p, Splice(a, Len(a), Len(a), b)) <=> In(p, a) \/ In(p, b)
<1> DEFINE Up == Len(a)
           B == Len(b)
           r == Splice(a, Up, Up, b)
<1>1. Up \in Nat /\ B \in Nat
  BY LenProperties
<1>2. r \in Seq(Nat \ {0}) /\ Spliced(r, a, Up, Up, b)
  <2> DEFINE T == Nat \ {0}
  <2>1. Up <= Up
    BY <1>1
  <2> HIDE DEF T, Up
  <2>2. a \in Seq(T) /\ b \in Seq(T) /\ Up <= Len(a)
    BY <2>1 DEF T, Up
  <2>3. QED
    BY <1>1, <2>1, <2>2, SpliceType DEF T
<1>3. Len(r) = Up + B /\ (\A i \in 1 .. Up : r[i] = a[i]) /\ \A i \in 1 .. B : r[Up + i] = b[i]
  <2>1. Len(r) = Up + B + (Up - Up)
    BY <1>2 DEF Spliced
  <2>2. Up + B + (Up - Up) = Up + B
    BY <1>1
  <2>3. QED
    BY <1>2, <2>1, <2>2 DEF Spliced
<1> HIDE DEF Up, B, r
<1>4. ASSUME In(p, r) PROVE In(p, a) \/ In(p, b)
  <2>1. PICK k \in 1 .. Len(r) : r[k] = p
    BY <1>4 DEF In
  <2>2. CASE k <= Up
    <3>1. k \in 1 .. Up
      BY <1>1, <1>3, <2>1, <2>2
    <3>2. a[k] = p
      BY <1>3, <2>1, <3>1
    <3>3. QED
      BY <3>1, <3>2 DEF In, Up
  <2>3. CASE ~(k <= Up)
    <3> DEFINE y == k - Up
    <3>1. y \in 1 .. B /\ Up + y = k
      BY <1>1, <1>3, <2>1, <2>3
    <3> HIDE DEF y
    <3>2. r[Up + y] = b[y]
      BY <1>3, <3>1
    <3>3. b[y] = p
      BY <2>1, <3>1, <3>2
    <3>4. QED
      BY <3>1, <3>3 DEF In, B
  <2>4. QED
    BY <2>2, <2>3
<1>5. ASSUME In(p, a) PROVE In(p, r)
  <2>1. PICK k \in 1 .. Up : a[k] = p
    BY <1>5 DEF In, Up
  <2>2. k \in 1 .. Len(r) /\ r[k] = p
    BY <1>1, <1>3, <2>1
  <2>3. QED
    BY <2>2 DEF In
<1>6. ASSUME In(p, b) PROVE In(p, r)
  <2>1. PICK k \in 1 .. B : b[k] = p
    BY <1>6 DEF In, B
  <2>2. Up + k \in 1 .. Len(r) /\ r[Up + k] = p
    BY <1>1, <1>3, <2>1
  <2>3. QED
    BY <2>2 DEF In
<1>7. QED
  BY <1>4, <1>5, <1>6 DEF r, Up

\* The nodes of m come after those of l.
LEMMA JoinPatch ==
  ASSUME NEW h, NEW L, NEW n1, NEW c1, NEW o1, NEW s1, Right(L, h, n1, c1, o1, s1),
         NEW M, NEW n2, NEW c2, NEW o2, NEW s2, Right(M, h, n2, c2, o2, s2),
         \A p : ~(In(p, n1) /\ In(p, n2)),
         NEW h2, h2 = IF L.head = NULL \/ M.head = NULL THEN h ELSE [h EXCEPT ![L.tail].next = M.head]
  PROVE  /\ Patch(h, n1, Len(n1), Len(n1), n2, c2, h2) /\ DOMAIN h2 = DOMAIN h
         /\ \A p \in DOMAIN h : ~In(p, n1) => h2[p] = h[p]
<1> DEFINE N == Len(n1)
           R == Len(n2)
<1>1. n1 \in Seq(Nat \ {0}) /\ N \in Nat /\ n2 \in Seq(Nat \ {0}) /\ R \in Nat /\ Len(c2) = R
  BY ListFacts
<1>2. ASSUME NEW k \in 1 .. N PROVE n1[k] \in DOMAIN h /\ h[n1[k]] = [items |-> c1[k], next |-> Follow(n1, k)]
                                    /\ h[n1[k]].items = c1[k]
  <2>1. NodeAt(h, n1, c1, o1, s1, k)
    BY NodeFacts
  <2>2. QED
    BY <2>1 DEF NodeAt
<1>3. ASSUME NEW k \in 1 .. R PROVE n2[k] \in DOMAIN h /\ h[n2[k]] = [items |-> c2[k], next |-> Follow(n2, k)]
  <2>1. NodeAt(h, n2, c2, o2, s2, k)
    BY NodeFacts
  <2>2. QED
    BY <2>1 DEF NodeAt
<1>4. (L.head = NULL <=> N = 0) /\ (M.head = NULL <=> R = 0)
  BY EmptyFacts
<1>5. L.tail = TailOf(n1) /\ M.head = Follow(n2, 0)
  BY DEF Right
<1>6. \A i, j \in 1 .. N : n1[i] = n1[j] => i = j
  BY DEF Right, Links
<1>7. Distinct(n2)
  BY DEF Right, Links, Distinct
<1>8. Follow(n1, N) = NULL
  BY <1>1 DEF Follow
<1>9. ASSUME NEW a \in 0 .. R PROVE After(n1, N, n2, a) = Follow(n2, a)
  BY <1>8 DEF After, Follow
<1>10. DOMAIN h2 = DOMAIN h /\ (N > 0 => h2[n1[N]] = [items |-> h[n1[N]].items, next |-> Follow(n2, 0)])
       /\ \A p \in DOMAIN h : (N > 0 => p # n1[N]) => h2[p] = h[p]
  <2>1. CASE N = 0 \/ R = 0
    <3>1. h2 = h
      BY <1>4, <2>1
    <3>2. ASSUME N > 0 PROVE h[n1[N]] = [items |-> h[n1[N]].items, next |-> Follow(n2, 0)]
      <4>1. R = 0 /\ N \in 1 .. N
        BY <1>1, <2>1, <3>2
      <4>2. Follow(n2, 0) = NULL
        BY <4>1 DEF Follow
      <4>3. QED
        BY <1>2, <1>8, <4>1, <4>2, ZenonT(40)
    <3>3. QED
      BY <3>1, <3>2
  <2>2. CASE ~(N = 0 \/ R = 0)
    <3> DEFINE p == n1[N]
               e == Follow(n2, 0)
               d == c1[N]
    <3>1. N \in 1 .. N /\ N > 0
      BY <1>1, <2>2
    <3>2. L.tail = p /\ M.head = e
      BY <1>5, <2>2 DEF TailOf
    <3>3. h2 = [h EXCEPT ![p].next = e]
      BY <1>4, <2>2, <3>2
    <3>4. p \in DOMAIN h /\ h[p] = [items |-> d, next |-> NULL] /\ h[p].items = d
      BY <1>2, <1>8, <3>1
    <3> HIDE DEF p, e, d
    <3>5. Edited(h, p, d, e, [h EXCEPT ![p].next = e])
      BY <3>4, LinkExcept
    <3>6. Edited(h, p, d, e, h2)
      BY <3>3, <3>5
    <3>7. DOMAIN h2 = DOMAIN h /\ h2[p] = [items |-> h[p].items, next |-> e] /\ \A q \in DOMAIN h : q # p => h2[q] = h[q]
      BY <3>4, <3>6 DEF Edited
    <3>8. QED
      BY <3>1, <3>7 DEF p, e
  <2>3. QED
    BY <2>1, <2>2
<1> HIDE DEF N, R
<1>11. ASSUME NEW a \in 1 .. R PROVE n2[a] \in DOMAIN h2 /\ h2[n2[a]] = [items |-> c2[a], next |-> After(n1, N, n2, a)]
  <2>1. In(n2[a], n2)
    BY DEF In, R
  <2>2. ~In(n2[a], n1)
    BY <2>1
  <2>3. N > 0 => n2[a] # n1[N]
    <3>1. N > 0 => N \in 1 .. N
      BY <1>1
    <3>2. QED
      BY <2>2, <3>1 DEF In, N
  <2>4. h2[n2[a]] = h[n2[a]] /\ n2[a] \in DOMAIN h2
    BY <1>3, <1>10, <2>3
  <2>5. a \in 0 .. R
    OBVIOUS
  <2>6. QED
    BY <1>3, <1>9, <2>4, <2>5
<1>12. ASSUME NEW i \in 1 .. N, i < N \/ N < i PROVE n1[i] \in DOMAIN h2 /\ h2[n1[i]] = h[n1[i]]
  <2>1. N \in 1 .. N /\ i # N
    BY <1>1, <1>12
  <2>2. n1[i] # n1[N]
    BY <1>6, <2>1
  <2>3. QED
    BY <1>2, <1>10, <2>2
<1>13. ASSUME NEW i \in 1 .. N PROVE ~In(n1[i], n2)
  <2>1. In(n1[i], n1)
    BY DEF In, N
  <2>2. QED
    BY <2>1
<1>14. ASSUME N > 0 PROVE n1[N] \in DOMAIN h2 /\ h2[n1[N]] = [items |-> h[n1[N]].items, next |-> After(n1, N, n2, 0)]
  <2>1. N \in 1 .. N /\ 0 \in 0 .. R
    BY <1>1, <1>14
  <2>2. QED
    BY <1>2, <1>9, <1>10, <1>14, <2>1
<1>15. Patch(h, n1, N, N, n2, c2, h2)
  BY <1>1, <1>7, <1>11, <1>12, <1>13, <1>14 DEF Patch, N, R
<1>16. ASSUME NEW p \in DOMAIN h, ~In(p, n1) PROVE h2[p] = h[p]
  <2>1. N > 0 => N \in 1 .. N
    BY <1>1
  <2>2. N > 0 => p # n1[N]
    BY <1>16, <2>1 DEF In, N
  <2>3. QED
    BY <1>10, <2>2
<1>17. QED
  BY <1>10, <1>15, <1>16 DEF N

\* The nodes a and b of two lists give way to w and e, and all other nodes stay.
TwoApart(h, a, b, h2, w, e) ==
    /\ \A p : ~(In(p, w) /\ In(p, e))
    /\ \A p \in DOMAIN h : ~In(p, a) /\ ~In(p, b) =>
          p \in DOMAIN h2 /\ h2[p] = h[p] /\ ~In(p, w) /\ ~In(p, e)
    /\ \A p \in DOMAIN h2 : ~In(p, w) /\ ~In(p, e) => p \in DOMAIN h /\ ~In(p, a) /\ ~In(p, b)

\* Two lists change.
LEMMA TwoChange ==
  ASSUME NEW h, NEW ls, NEW S, NEW ns, NEW cs, NEW off, Layout(h, ls, S, ns, cs, off),
         NEW l \in Lists, NEW m \in Lists, l # m, NEW h2, IsFiniteSet(DOMAIN h2),
         NEW L2, NEW n2, NEW c2, NEW o2, NEW s2, Right(L2, h2, n2, c2, o2, s2),
         NEW M2, NEW n3, NEW c3, NEW o3, NEW s3, Right(M2, h2, n3, c3, o3, s3),
         TwoApart(h, ns[l], ns[m], h2, n2, n3)
  PROVE  Sound(h2, [ls EXCEPT ![l] = L2, ![m] = M2], [S EXCEPT ![l] = s2, ![m] = s3])
<1>1. /\ \A p : ~(In(p, n2) /\ In(p, n3))
      /\ \A p \in DOMAIN h : ~In(p, ns[l]) /\ ~In(p, ns[m]) =>
            p \in DOMAIN h2 /\ h2[p] = h[p] /\ ~In(p, n2) /\ ~In(p, n3)
      /\ \A p \in DOMAIN h2 : ~In(p, n2) /\ ~In(p, n3) => p \in DOMAIN h /\ ~In(p, ns[l]) /\ ~In(p, ns[m])
  BY DEF TwoApart
<1>2. QED
  BY <1>1, TwoLists

\* bl_append_list moves the elements of m to the end of l.
LEMMA AppendListSound ==
  ASSUME NEW S, NEW ns, NEW cs, NEW off, Layout(heap, lists, S, ns, cs, off), NEW l \in Lists,
         NEW m \in Lists, AppendList(l, m)
  PROVE  /\ Sound(heap', lists', [S EXCEPT ![l] = S[l] \o S[m], ![m] = <<>>])
         /\ result' = <<>> /\ l # m
<1> DEFINE L == lists[l]
           M == lists[m]
           n1 == ns[l]
           n2 == ns[m]
           o1 == off[l]
           o2 == off[m]
           N == Len(n1)
           R == Len(n2)
           L1 == [Forget(L) EXCEPT !.n = @ + M.n, !.head = IF @ = NULL THEN M.head ELSE @,
                                   !.tail = IF M.head = NULL THEN @ ELSE M.tail]
           M1 == IF L.head # NULL /\ M.head = NULL THEN M ELSE Empty
           h2 == IF L.head = NULL \/ M.head = NULL THEN heap ELSE [heap EXCEPT ![L.tail].next = M.head]
           s == S[l]
           t == S[m]
<1>1. Right(L, heap, n1, cs[l], o1, s) /\ Right(M, heap, n2, cs[m], o2, t) /\ IsFiniteSet(DOMAIN heap)
  BY DEF Layout
<1>2. l # m /\ result' = <<>> /\ lists' = [lists EXCEPT ![l] = L1, ![m] = M1] /\ heap' = h2
  BY DEF AppendList
<1>3. /\ n1 \in Seq(Nat \ {0}) /\ N \in Nat /\ s \in Seq(Int) /\ Len(s) \in Nat /\ L.n = Len(s) /\ o1[N] = Len(s)
      /\ Len(cs[l]) = N
  BY <1>1, ListFacts
<1>4. n2 \in Seq(Nat \ {0}) /\ R \in Nat /\ t \in Seq(Int) /\ Len(t) \in Nat /\ M.n = Len(t)
  BY <1>1, ListFacts
<1>5. (L.head = NULL <=> N = 0) /\ (M.head = NULL <=> R = 0)
      /\ (M.head = NULL => M.tail = NULL /\ M.n = 0 /\ M.last = NULL)
      /\ (L.head = NULL => L.tail = NULL)
  BY <1>1, EmptyFacts
<1>6. /\ L \in Header /\ L.head = Follow(n1, 0) /\ L.tail = TailOf(n1)
      /\ M \in Header /\ M.head = Follow(n2, 0) /\ M.tail = TailOf(n2)
  BY <1>1 DEF Right
<1>7. \A p : ~(In(p, n1) /\ In(p, n2))
  BY <1>2 DEF Layout
<1>8. /\ Patch(heap, n1, N, N, n2, cs[m], h2) /\ DOMAIN h2 = DOMAIN heap
      /\ \A p \in DOMAIN heap : ~In(p, n1) => h2[p] = heap[p]
  <2> HIDE DEF L, M
  <2>1. h2 = IF L.head = NULL \/ M.head = NULL THEN heap ELSE [heap EXCEPT ![L.tail].next = M.head]
    OBVIOUS
  <2> HIDE DEF h2
  <2>2. QED
    BY <1>1, <1>7, <2>1, JoinPatch
<1> HIDE DEF h2
<1>9. /\ L1 \in Header /\ L1.n = Len(s) + Len(t) /\ L1.head = (IF L.head = NULL THEN M.head ELSE L.head)
      /\ L1.tail = (IF M.head = NULL THEN L.tail ELSE M.tail) /\ L1.last = NULL
  <2> DEFINE F == Forget(L)
             n == Len(s) + Len(t)
             a == IF L.head = NULL THEN M.head ELSE L.head
             b == IF M.head = NULL THEN L.tail ELSE M.tail
  <2>1. F \in Header /\ F.head = L.head /\ F.tail = L.tail /\ F.n = Len(s) /\ F.last = NULL
    BY <1>3, <1>6, ForgetIs
  <2>2. n \in Nat /\ a \in Nat /\ b \in Nat
    <3>1. L.head \in Nat /\ L.tail \in Nat /\ M.head \in Nat /\ M.tail \in Nat
      BY <1>6, HeaderTypes
    <3>2. n \in Nat
      <4> HIDE DEF s, t
      <4>1. QED
        BY <1>3, <1>4
    <3>3. QED
      BY <3>1, <3>2
  <2> HIDE DEF F
  <2>3. L1 = [F EXCEPT !.n = n, !.head = a, !.tail = b]
    BY <1>4, <2>1 DEF F
  <2> HIDE DEF n, a, b
  <2>4. L1 = [[F EXCEPT !.n = n] EXCEPT !.head = a, !.tail = b]
    BY <2>1, <2>3
  <2>5. Fields(L1, a, b, n)
    <3> HIDE DEF L1
    <3>1. QED
      BY <2>1, <2>2, <2>4, FieldsExcept
  <2> HIDE DEF L1
  <2>6. QED
    BY <2>5 DEF Fields, n, a, b
<1> HIDE DEF L1
<1>10. L1.head = IF N > 0 THEN L.head ELSE After(n1, N, n2, 0)
  <2>1. CASE N > 0
    BY <1>5, <1>9, <2>1
  <2>2. CASE ~(N > 0)
    <3>1. N = 0
      BY <1>3, <2>2
    <3>2. L1.head = M.head
      BY <1>5, <1>9, <3>1
    <3>3. After(n1, N, n2, 0) = Follow(n2, 0)
      <4>1. Follow(n1, N) = NULL
        BY <3>1 DEF Follow
      <4>2. QED
        BY <4>1 DEF After, Follow
    <3>4. QED
      BY <1>6, <2>2, <3>2, <3>3
  <2>3. QED
    BY <2>1, <2>2
<1>11. L1.tail = IF N < N THEN L.tail ELSE IF R > 0 THEN n2[R] ELSE IF N > 0 THEN n1[N] ELSE NULL
  <2>1. ~(N < N)
    BY <1>3
  <2>2. CASE R > 0
    <3>1. M.head # NULL
      BY <1>5, <2>2
    <3>2. M.tail = n2[R]
      BY <1>6, <2>2 DEF TailOf
    <3>3. QED
      BY <1>9, <2>1, <2>2, <3>1, <3>2
  <2>3. CASE ~(R > 0)
    <3>1. M.head = NULL
      BY <1>4, <1>5, <2>3
    <3>2. L1.tail = L.tail
      BY <1>9, <3>1
    <3>3. L.tail = IF N > 0 THEN n1[N] ELSE NULL
      BY <1>3, <1>6 DEF TailOf
    <3>4. QED
      BY <2>1, <2>3, <3>2, <3>3
  <2>4. QED
    BY <2>2, <2>3
<1> DEFINE w == Splice(n1, N, N, n2)
           c3 == Splice(cs[l], N, N, cs[m])
           o3 == SpliceSums(o1, N, N, N, o2, R)
<1>12. Right(L1, h2, w, c3, o3, s \o t)
  <2>1. L1.n = o1[N] + Len(t) + (Len(s) - o1[N])
    <3>1. Len(s) + Len(t) = Len(s) + Len(t) + (Len(s) - Len(s))
      BY <1>3, <1>4
    <3>2. QED
      BY <1>3, <1>9, <3>1
  <2>2. Pieces(cs[m], o2, t)
    BY <1>1 DEF Right
  <2>3. N \in 0 .. Len(n1) /\ N <= N
    BY <1>3
  <2>4. Right(L1, h2, w, c3, o3, Splice(s, o1[N], o1[N], t))
    <3> DEFINE j == N
    <3>1. /\ j \in 0 .. Len(n1) /\ j <= j
          /\ Patch(heap, n1, j, j, n2, cs[m], h2)
          /\ L1.head = (IF j > 0 THEN L.head ELSE After(n1, j, n2, 0))
          /\ L1.tail = (IF j < Len(n1) THEN L.tail ELSE IF Len(n2) > 0 THEN n2[Len(n2)]
                        ELSE IF j > 0 THEN n1[j] ELSE NULL)
          /\ L1.n = o1[j] + Len(t) + (Len(s) - o1[j])
          /\ w = Splice(n1, j, j, n2) /\ c3 = Splice(cs[l], j, j, cs[m])
          /\ o3 = SpliceSums(o1, Len(n1), j, j, o2, Len(n2))
      BY <1>8, <1>10, <1>11, <2>1, <2>3
    <3>2. L1.last = NULL /\ L1 \in Header
      BY <1>9
    <3> HIDE DEF j, w, c3, o3, s, t
    <3>3. Right(L1, h2, Splice(n1, j, j, n2), Splice(cs[l], j, j, cs[m]),
                SpliceSums(o1, Len(n1), j, j, o2, Len(n2)), Splice(s, o1[j], o1[j], t))
      BY <1>1, <2>2, <3>1, <3>2, RightPatch
    <3>4. QED
      BY <3>1, <3>3 DEF j
  <2>5. Splice(s, o1[N], o1[N], t) = s \o t
    BY <1>3, <1>4, JoinSplices
  <2> HIDE DEF w, c3, o3
  <2>6. QED
    BY <2>4, <2>5
<1>13. /\ M1 \in Header /\ M1.head = NULL /\ M1.tail = NULL /\ M1.n = 0 /\ M1.last = NULL
  BY <1>5, <1>6, EmptyIs
<1> HIDE DEF M1
<1>14. Right(M1, h2, <<>>, <<>>, NoOffset, <<>>) /\ \A p : ~In(p, <<>>)
  BY <1>13, EmptyRight
<1>15. \A p : In(p, w) <=> In(p, n1) \/ In(p, n2)
  BY <1>3, <1>4, InJoin
<1> HIDE DEF w, c3, o3, L, M, s, t
<1> DEFINE x == s \o t
           e == <<>>
<1>16. Right(L1, h2, w, c3, o3, x) /\ Right(M1, h2, e, e, NoOffset, e) /\ \A p : ~In(p, e)
  BY <1>12, <1>14
<1> HIDE DEF x, e
<1>17. IsFiniteSet(DOMAIN h2)
  BY <1>1, <1>8
<1>18. Sound(h2, [lists EXCEPT ![l] = L1, ![m] = M1], [S EXCEPT ![l] = x, ![m] = e])
  <2>1. \A p : ~(In(p, w) /\ In(p, e))
    BY <1>16
  <2>2. \A p \in DOMAIN heap : ~In(p, n1) /\ ~In(p, n2) =>
             p \in DOMAIN h2 /\ h2[p] = heap[p] /\ ~In(p, w) /\ ~In(p, e)
    BY <1>8, <1>15, <1>16
  <2>3. \A p \in DOMAIN h2 : ~In(p, w) /\ ~In(p, e) => p \in DOMAIN heap /\ ~In(p, n1) /\ ~In(p, n2)
    BY <1>8, <1>15
  <2>4. TwoApart(heap, n1, n2, h2, w, e)
    BY <2>1, <2>2, <2>3 DEF TwoApart
  <2>5. QED
    BY <1>2, <1>16, <1>17, <2>4, TwoChange
<1>19. QED
  BY <1>2, <1>18 DEF x, e, s, t

\* The counts of one node of n elements.
OneOffset(n) == [i \in 0 .. 1 |-> IF i = 0 THEN 0 ELSE n]

\* A list of one node.
LEMMA OneNodeRight ==
  ASSUME NEW M \in Header, NEW r \in Nat \ {0}, NEW b \in Seq(Int), Len(b) \in 1 .. BlockSize,
         M.head = r, M.tail = r, M.n = Len(b), M.last = NULL,
         NEW h, r \in DOMAIN h, h[r] = [items |-> b, next |-> NULL]
  PROVE  Right(M, h, <<r>>, <<b>>, OneOffset(Len(b)), b) /\ \A p : In(p, <<r>>) <=> p = r
<1> DEFINE w == <<r>>
           c == <<b>>
<1>1. Pieces(c, OneOffset(Len(b)), b)
  BY OnePiece DEF OneOffset
<1>2. w \in Seq(Nat \ {0}) /\ Len(w) = 1 /\ w[1] = r /\ Len(c) = 1 /\ c[1] = b
  OBVIOUS
<1> HIDE DEF w, c
<1>3. (\A k \in 1 .. Len(w) : k = 1) /\ 1 \in 1 .. Len(w)
  BY <1>2
<1>4. Follow(w, 1) = NULL /\ Follow(w, 0) = r /\ TailOf(w) = r
  <2>1. ~(1 < Len(w)) /\ 0 < Len(w) /\ 0 + 1 = 1 /\ Len(w) # 0
    BY <1>2
  <2>2. QED
    BY <1>2, <2>1 DEF Follow, TailOf
<1>5. Links(h, w, c)
  BY <1>2, <1>3, <1>4 DEF Links
<1>6. Right(M, h, w, c, OneOffset(Len(b)), b)
  BY <1>1, <1>2, <1>4, <1>5 DEF Right
<1>7. \A p : In(p, w) <=> p = r
  BY <1>2, <1>3 DEF In
<1>8. QED
  BY <1>6, <1>7 DEF w, c

\* The header of a list that bl_split leaves n elements, up to the node t.
EndHeader(L, t, n) == [L EXCEPT !.head = IF t = NULL THEN NULL ELSE @, !.tail = t, !.n = n, !.last = NULL]

\* The header of the list that gets the others, from the node r on.
GrownHeader(M, L, n, r) == [M EXCEPT !.head = IF M.tail = NULL THEN r ELSE @, !.n = @ + L.n - n,
                                     !.tail = IF @ = NULL THEN r ELSE @]

\* What these headers say when the other list was empty.
LEMMA SplitHeaders ==
  ASSUME NEW L \in Header, NEW t \in Nat, NEW n \in Nat, NEW M \in Header, M.head = NULL, M.tail = NULL,
         M.n = 0, NEW r \in Nat, NEW q \in Nat, L.n - n = q,
         NEW L2, L2 = EndHeader(L, t, n), NEW M2, M2 = GrownHeader(M, L, n, r)
  PROVE  /\ Fields(L2, IF t = NULL THEN NULL ELSE L.head, t, n)
         /\ M2 \in Header /\ M2.head = r /\ M2.tail = r /\ M2.n = q /\ M2.last = M.last
<1>1. L.head \in Nat /\ L.n \in Nat /\ L.lastn \in Nat /\ NULL \in Nat
  BY HeaderTypes DEF NULL
<1>2. M.last \in Nat /\ M.lastn \in Nat
  BY HeaderTypes
<1>3. L = [head |-> L.head, tail |-> L.tail, n |-> L.n, last |-> L.last, lastn |-> L.lastn]
      /\ M = [head |-> M.head, tail |-> M.tail, n |-> M.n, last |-> M.last, lastn |-> M.lastn]
  BY DEF Header
<1>4. L2 = [head |-> IF t = NULL THEN NULL ELSE L.head, tail |-> t, n |-> n, last |-> NULL, lastn |-> L.lastn]
  BY <1>3 DEF EndHeader
<1>5. M.n + L.n - n = q
  BY <1>1
<1>6. M2 = [head |-> r, tail |-> r, n |-> q, last |-> M.last, lastn |-> M.lastn]
  BY <1>3, <1>5 DEF GrownHeader
<1>7. Fields(L2, IF t = NULL THEN NULL ELSE L.head, t, n)
  BY <1>1, <1>4 DEF Fields, Header
<1>8. M2 \in Header /\ M2.head = r /\ M2.tail = r /\ M2.n = q /\ M2.last = M.last
  BY <1>2, <1>6 DEF Header
<1>9. QED
  BY <1>7, <1>8

\* The last node of the list keeps a.
EndCut(h, w, p, a, h2) ==
    /\ DOMAIN h \subseteq DOMAIN h2 /\ h2[p] = [items |-> a, next |-> NULL]
    /\ \A q \in DOMAIN h : q # p => h2[q] = h[q]

\* The last node keeps some of its elements: it takes its own place.
LEMMA KeepPatch ==
  ASSUME NEW L, NEW h, NEW w, NEW cs, NEW off, NEW s, Right(L, h, w, cs, off, s), Len(w) > 0,
         NEW a, NEW h2, EndCut(h, w, w[Len(w)], a, h2)
  PROVE  Patch(h, w, Len(w) - 1, Len(w), <<w[Len(w)]>>, <<a>>, h2)
<1> DEFINE N == Len(w)
           p == w[N]
           ms == <<p>>
           mc == <<a>>
<1>1. N \in Nat /\ w \in Seq(Nat \ {0}) /\ N \in 1 .. N
  BY ListFacts
<1>2. ASSUME NEW i \in 1 .. N PROVE w[i] \in DOMAIN h /\ h[w[i]] = [items |-> cs[i], next |-> Follow(w, i)]
  <2>1. NodeAt(h, w, cs, off, s, i)
    BY NodeFacts
  <2>2. QED
    BY <2>1 DEF NodeAt
<1>3. \A i, j \in 1 .. N : w[i] = w[j] => i = j
  BY DEF Right, Links
<1>4. p \in Nat \ {0}
  BY <1>1, ElementOfSeq
<1>5. DOMAIN h \subseteq DOMAIN h2 /\ h2[p] = [items |-> a, next |-> NULL]
      /\ \A q \in DOMAIN h : q # p => h2[q] = h[q]
  BY DEF EndCut
<1> HIDE DEF N
<1>6. p \in DOMAIN h
  BY <1>1, <1>2
<1> DEFINE j == N - 1
<1>7. j \in Nat /\ j < N /\ j # N /\ (j > 0 => j \in 1 .. N) /\ j + 1 = N
  BY <1>1
<1> HIDE DEF p
<1>8. ms \in Seq(Nat \ {0}) /\ Len(ms) = 1 /\ Len(mc) = 1 /\ ms[1] = p /\ mc[1] = a
  BY <1>4
<1> HIDE DEF ms, mc
<1>9. (\A k \in 1 .. Len(ms) : k = 1) /\ 1 \in 1 .. Len(ms)
  BY <1>8
<1>10. Distinct(ms) /\ \A x : In(x, ms) <=> x = p
  BY <1>8, <1>9 DEF Distinct, In
<1>11. After(w, N, ms, 0) = p /\ After(w, N, ms, 1) = NULL
  <2>1. ~(1 < Len(ms)) /\ 0 < Len(ms) /\ 0 + 1 = 1 /\ ~(N < N)
    BY <1>1, <1>8
  <2>2. QED
    BY <1>8, <2>1 DEF After, Follow, N
<1>12. \A i \in 1 .. N : In(w[i], ms) => i \in j + 1 .. N
  <2>1. \A i \in 1 .. N : In(w[i], ms) => i = N
    BY <1>1, <1>3, <1>10 DEF p
  <2>2. N \in j + 1 .. N
    BY <1>1, <1>7
  <2>3. QED
    BY <2>1, <2>2
<1>13. \A x \in 1 .. Len(ms) : ms[x] \in DOMAIN h2 /\ h2[ms[x]] = [items |-> mc[x], next |-> After(w, N, ms, x)]
  BY <1>5, <1>6, <1>8, <1>9, <1>11
<1>14. ASSUME NEW i \in 1 .. N, i # N PROVE w[i] \in DOMAIN h2 /\ h2[w[i]] = h[w[i]]
  <2>1. w[i] # p
    BY <1>1, <1>3, <1>14 DEF p
  <2>2. QED
    BY <1>2, <1>5, <2>1
<1>15. ASSUME j > 0 PROVE w[j] \in DOMAIN h2 /\ h2[w[j]] = [items |-> h[w[j]].items, next |-> After(w, N, ms, 0)]
  <2>1. j \in 1 .. N /\ j # N /\ j < N /\ j + 1 = N
    BY <1>7, <1>15
  <2> HIDE DEF j
  <2>2. w[j] \in DOMAIN h2 /\ h2[w[j]] = h[w[j]] /\ h[w[j]] = [items |-> cs[j], next |-> Follow(w, j)]
    BY <1>2, <1>14, <2>1
  <2>3. Follow(w, j) = p
    BY <2>1 DEF Follow, p, N
  <2>4. QED
    BY <1>11, <2>2, <2>3
<1>16. ASSUME NEW i \in 1 .. N, i < j \/ N < i PROVE w[i] \in DOMAIN h2 /\ h2[w[i]] = h[w[i]]
  <2>1. i # N
    BY <1>7, <1>16
  <2>2. QED
    BY <1>14, <2>1
<1> HIDE DEF j
<1>17. Patch(h, w, j, N, ms, mc, h2)
  BY <1>8, <1>10, <1>12, <1>13, <1>15, <1>16 DEF Patch, N
<1>18. QED
  BY <1>17 DEF j, N, ms, mc, p

\* The last node of the list leaves it.
LEMMA LeavePatch ==
  ASSUME NEW L, NEW h, NEW w, NEW cs, NEW off, NEW s, Right(L, h, w, cs, off, s), Len(w) > 0,
         NEW h2, DOMAIN h2 = DOMAIN h,
         Len(w) > 1 => h2[w[Len(w) - 1]] = [items |-> cs[Len(w) - 1], next |-> NULL],
         \A q \in DOMAIN h : (Len(w) > 1 => q # w[Len(w) - 1]) => h2[q] = h[q]
  PROVE  Patch(h, w, Len(w) - 1, Len(w), <<>>, <<>>, h2)
<1> DEFINE N == Len(w)
           j == N - 1
           ms == <<>>
<1>1. N \in Nat /\ w \in Seq(Nat \ {0}) /\ N > 0
  BY ListFacts
<1>2. ASSUME NEW i \in 1 .. N PROVE w[i] \in DOMAIN h /\ h[w[i]] = [items |-> cs[i], next |-> Follow(w, i)]
                                    /\ h[w[i]].items = cs[i]
  <2>1. NodeAt(h, w, cs, off, s, i)
    BY NodeFacts
  <2>2. QED
    BY <2>1 DEF NodeAt
<1>3. \A i, k \in 1 .. N : w[i] = w[k] => i = k
  BY DEF Right, Links
<1>4. /\ N > 1 => h2[w[j]] = [items |-> cs[j], next |-> NULL]
      /\ \A q \in DOMAIN h : (N > 1 => q # w[j]) => h2[q] = h[q]
  OBVIOUS
<1> HIDE DEF N
<1>5. j \in Nat /\ j < N /\ (j > 0 <=> N > 1) /\ (j > 0 => j \in 1 .. N) /\ N <= N
  BY <1>1
<1> HIDE DEF j
<1>6. ms \in Seq(Nat \ {0}) /\ Len(ms) = 0
  OBVIOUS
<1> HIDE DEF ms
<1>7. \A k \in 1 .. Len(ms) : FALSE
  BY <1>6
<1>8. Distinct(ms) /\ \A x : ~In(x, ms)
  BY <1>7 DEF Distinct, In
<1>9. After(w, N, ms, 0) = NULL
  <2>1. ~(0 < Len(ms)) /\ ~(N < N)
    BY <1>1, <1>6
  <2>2. QED
    BY <2>1 DEF After, Follow, N
<1>10. ASSUME NEW i \in 1 .. N, i < j \/ N < i PROVE w[i] \in DOMAIN h2 /\ h2[w[i]] = h[w[i]]
  <2>1. i # j /\ (N > 1 => j \in 1 .. N)
    <3>1. i \in 1 .. N /\ (i < j \/ N < i) /\ j \in Nat /\ N \in Nat
      BY <1>1, <1>5, <1>10
    <3>2. i # j
      BY <3>1
    <3>3. QED
      BY <1>5, <3>2
  <2>2. N > 1 => w[i] # w[j]
    BY <1>3, <2>1
  <2>3. QED
    BY <1>2, <1>4, <2>2
<1>11. ASSUME j > 0 PROVE w[j] \in DOMAIN h2 /\ h2[w[j]] = [items |-> h[w[j]].items, next |-> After(w, N, ms, 0)]
  BY <1>2, <1>4, <1>5, <1>9, <1>11
<1>12. Patch(h, w, j, N, ms, ms, h2)
  BY <1>6, <1>7, <1>8, <1>10, <1>11 DEF Patch, N
<1>13. QED
  BY <1>12 DEF j, N, ms

\* Where bl_split cuts the last node of a list, at element i: it keeps pre, b leaves it.
CutsLast(s, n, off, d, i, k, pre, b) ==
    /\ k \in 0 .. Len(d) - 1 /\ k = i - off[n - 1]
    /\ pre = SubSeq(d, 1, k) /\ pre \in Seq(Int) /\ Len(pre) = k
    /\ b = Rest(d, k) /\ b \in Seq(Int) /\ Len(b) \in 1 .. BlockSize /\ Len(b) = Len(s) - i
    /\ b = Rest(s, i) /\ SubSeq(s, 1, i) = Splice(s, off[n - 1], off[n], pre)

\* Element i is the k-th in the last node, N, before which there are z elements.
InLast(w, off, s, N, z, i, k) ==
    /\ N \in Nat /\ N = Len(w) /\ N > 0 /\ z \in Nat /\ z = off[N - 1]
    /\ i \in Nat /\ z <= i /\ i < Len(s) /\ k = i - z

\* Where the last node of a list is cut at element i.
LEMMA LastIsCut ==
  ASSUME NEW L, NEW h, NEW w, NEW cs, NEW off, NEW s, Right(L, h, w, cs, off, s),
         NEW N, NEW z, NEW i, NEW k, InLast(w, off, s, N, z, i, k)
  PROVE  CutsLast(s, N, off, cs[N], i, k, SubSeq(cs[N], 1, k), Rest(cs[N], k))
<1> DEFINE d == cs[N]
           D == Len(d)
           Z == Len(s)
           pre == SubSeq(d, 1, k)
           b == Rest(d, k)
<1>0. N \in Nat /\ N = Len(w) /\ N > 0 /\ z \in Nat /\ z = off[N - 1] /\ i \in Nat /\ z <= i /\ i < Z /\ k = i - z
  BY DEF InLast
<1>1. N \in Nat /\ s \in Seq(Int) /\ Z \in Nat /\ off[N] = Z /\ N > 0
  BY <1>0, ListFacts
<1>2. NodeAt(h, w, cs, off, s, N)
  <2>1. N \in 1 .. Len(w)
    BY <1>0, <1>1
  <2>2. QED
    BY <2>1, NodeFacts
<1>3. d \in Seq(Int) /\ D \in Nat /\ D \in 1 .. BlockSize /\ Z = z + D /\ z \in Nat /\ SameFrom(s, z, d)
  BY <1>0, <1>1, <1>2 DEF NodeAt
<1>4. k = i - z /\ z <= i /\ i < Z /\ i \in Nat
  BY <1>0
<1> HIDE DEF d, D, Z
<1>5. k \in 0 .. D - 1 /\ k \in Nat /\ k <= D /\ z + k = i /\ D - k = Z - i /\ D - k \in 1 .. BlockSize /\ i <= Z
      /\ z <= Z
  BY <1>1, <1>3, <1>4, Small
<1>6. pre \in Seq(Int) /\ Len(pre) = k /\ \A j \in 1 .. k : pre[j] = d[j]
  BY <1>3, <1>5, FrontSplices DEF D
<1>7. b \in Seq(Int) /\ Len(b) = D - k /\ \A j \in 1 .. D - k : b[j] = d[k + j]
  <2>1. k \in 0 .. Len(d)
    BY <1>3, <1>5 DEF D
  <2>2. QED
    BY <1>3, <2>1, RestType DEF D
<1>8. \A j \in 1 .. D : s[z + j] = d[j]
  BY <1>3 DEF SameFrom, D
<1> HIDE DEF pre, b
<1>9. SameFrom(s, i, b)
  <2> SUFFICES ASSUME NEW j \in 1 .. D - k PROVE s[i + j] = b[j]
    BY <1>7 DEF SameFrom
  <2> DEFINE x == k + j
  <2>1. x \in 1 .. D /\ z + x = i + j
    BY <1>3, <1>5
  <2> HIDE DEF x
  <2>2. s[z + x] = d[x]
    BY <1>8, <2>1
  <2>3. QED
    BY <1>7, <2>1, <2>2 DEF x
<1>10. b = Rest(s, i)
  <2>1. i \in 0 .. Len(s) /\ Len(s) \in 0 .. Len(s) /\ Len(s) = i + Len(b)
    <3>1. i \in 0 .. Z /\ Z \in 0 .. Z /\ Z = i + Len(b)
      BY <1>1, <1>4, <1>5, <1>7
    <3>2. QED
      BY <3>1 DEF Z
  <2>2. Rest(s, i) = b \o Rest(s, Len(s))
    BY <1>1, <1>7, <1>9, <2>1, RestConcat
  <2>3. Rest(s, Len(s)) = <<>>
    BY <1>1, RestEnds
  <2>4. b \o <<>> = b
    BY <1>7
  <2>5. QED
    BY <2>2, <2>3, <2>4
<1>11. SameFrom(s, z, pre)
  <2>1. \A j \in 1 .. k : j \in 1 .. D
    BY <1>3, <1>5
  <2>2. QED
    BY <1>6, <1>8, <2>1 DEF SameFrom
<1>12. SubSeq(s, 1, i) = Splice(s, z, off[N], pre)
  <2>1. Splice(s, z, Z, pre) = Splice(s, z + Len(pre), Z, <<>>)
    <3>1. z + Len(pre) <= Z /\ Z <= Len(s) /\ z \in Nat /\ Z \in Nat
      <4>1. Z <= Z
        BY <1>1
      <4>2. QED
        BY <1>1, <1>3, <1>5, <1>6, <4>1 DEF Z
    <3>2. s \in Seq(Int) /\ pre \in Seq(Int) /\ SameFrom(s, z, pre)
      BY <1>1, <1>6, <1>11
    <3>3. QED
      BY <3>1, <3>2, SpliceKeepsFront
  <2>2. SubSeq(s, 1, i) = Splice(s, i, Z, <<>>)
    <3>1. i <= Len(s) /\ i \in Nat
      BY <1>4, <1>5 DEF Z
    <3>2. SubSeq(s, 1, i) = Splice(s, i, Len(s), <<>>)
      BY <1>1, <3>1, FrontSplices
    <3>3. QED
      BY <3>2 DEF Z
  <2>3. z + Len(pre) = i /\ off[N] = Z
    BY <1>1, <1>5, <1>6
  <2>4. QED
    BY <2>1, <2>2, <2>3
<1>13. CutsLast(s, N, off, d, i, k, pre, b)
  <2>1. Len(d) = D /\ Len(s) = Z /\ z = off[N - 1]
    BY <1>0 DEF D, Z
  <2>2. k \in 0 .. Len(d) - 1 /\ k = i - off[N - 1]
    BY <1>4, <1>5, <2>1
  <2>3. Len(b) \in 1 .. BlockSize /\ Len(b) = Len(s) - i
    BY <1>5, <1>7, <2>1
  <2>4. SubSeq(s, 1, i) = Splice(s, off[N - 1], off[N], pre)
    BY <1>12, <2>1
  <2>5. QED
    BY <1>6, <1>7, <1>10, <2>2, <2>3, <2>4 DEF CutsLast, pre, b
<1>14. QED
  BY <1>13 DEF d, pre, b

\* The heap in which the nodes n2 of those of w stay, and r is a list of its own.
SplitHeap(h, w, n2, r, b, h2) ==
    /\ r \in DOMAIN h2 /\ h2[r] = [items |-> b, next |-> NULL]
    /\ \A p : In(p, n2) \/ p = r <=> In(p, w) \/ p = r
    /\ ~In(r, n2) /\ DOMAIN h2 = DOMAIN h \cup {r} /\ (r \in DOMAIN h => In(r, w))
    /\ \A p \in DOMAIN h : ~In(p, w) => h2[p] = h[p]

\* N is the last node of w, and j the one before it, if any.
LastNode(w, N, j) == N \in Nat /\ N = Len(w) /\ N > 0 /\ j \in Nat /\ j = N - 1

\* The header of a list in which the nodes ms, which hold pre, take the place of its
\* last node.
EndsAt(L2, head, w, off, j, N, ms, pre) ==
    /\ L2 \in Header /\ L2.last = NULL /\ L2.n = off[j] + Len(pre)
    /\ L2.head = (IF j > 0 THEN head ELSE After(w, N, ms, 0))
    /\ L2.tail = (IF Len(ms) > 0 THEN ms[Len(ms)] ELSE IF j > 0 THEN w[j] ELSE NULL)

\* The header of a list of one node, r, that holds b.
HoldsNode(M2, r, b) ==
    /\ r \in Nat \ {0} /\ b \in Seq(Int) /\ Len(b) \in 1 .. BlockSize
    /\ M2 \in Header /\ M2.head = r /\ M2.tail = r /\ M2.n = Len(b) /\ M2.last = NULL

\* The list l keeps its first i elements, and the empty list m gets the others.
LEMMA SplitOff ==
  ASSUME NEW h, NEW ls, NEW S, NEW ns, NEW cs, NEW off, Layout(h, ls, S, ns, cs, off),
         NEW l \in Lists, NEW m \in Lists, l # m, ls[m].head = NULL,
         NEW ms \in Seq(Nat \ {0}), NEW mc, NEW mo, NEW pre, Pieces(mc, mo, pre),
         NEW h2, IsFiniteSet(DOMAIN h2), NEW N, NEW j, LastNode(ns[l], N, j),
         Patch(h, ns[l], j, N, ms, mc, h2),
         NEW n2, n2 = Splice(ns[l], j, N, ms),
         NEW L2, EndsAt(L2, ls[l].head, ns[l], off[l], j, N, ms, pre),
         NEW r, NEW b, NEW M2, HoldsNode(M2, r, b),
         SplitHeap(h, ns[l], n2, r, b, h2)
  PROVE  Sound(h2, [ls EXCEPT ![l] = L2, ![m] = M2],
               [S EXCEPT ![l] = Splice(S[l], off[l][j], off[l][N], pre), ![m] = b])
<1> DEFINE w == ns[l]
           s == S[l]
           o == off[l]
           x == Splice(s, o[j], o[N], pre)
           c2 == Splice(cs[l], j, N, mc)
           o2 == SpliceSums(o, N, j, N, mo, Len(ms))
           n3 == <<r>>
           c3 == <<b>>
           o3 == OneOffset(Len(b))
<1>0. N \in Nat /\ N = Len(w) /\ N > 0 /\ j \in Nat /\ j = N - 1
  BY DEF LastNode
<1>1. Right(ls[l], h, w, cs[l], o, s) /\ Right(ls[m], h, ns[m], cs[m], off[m], S[m])
  BY DEF Layout
<1>2. /\ N \in Nat /\ w \in Seq(Nat \ {0}) /\ s \in Seq(Int) /\ Len(s) \in Nat /\ o[N] = Len(s)
      /\ \A k \in 0 .. N : o[k] \in Nat
  <2>1. /\ w \in Seq(Nat \ {0}) /\ s \in Seq(Int) /\ Len(s) \in Nat /\ o[Len(w)] = Len(s)
        /\ \A k \in 0 .. Len(w) : o[k] \in Nat
    BY <1>1, ListFacts
  <2>2. QED
    BY <1>0, <2>1
<1>3. ns[m] = <<>>
  BY <1>1, EmptyFacts
<1>4. j \in 0 .. N /\ N \in 0 .. N /\ j <= N /\ N <= N /\ ~(N < N)
  BY <1>0
<1>5. pre \in Seq(Int) /\ Len(pre) \in Nat
  BY LenProperties DEF Pieces, Cuts
<1>6. /\ L2 \in Header /\ L2.last = NULL /\ L2.n = o[j] + Len(pre)
      /\ L2.head = (IF j > 0 THEN ls[l].head ELSE After(w, N, ms, 0))
      /\ L2.tail = (IF Len(ms) > 0 THEN ms[Len(ms)] ELSE IF j > 0 THEN w[j] ELSE NULL)
  BY DEF EndsAt
<1>7. Right(L2, h2, n2, c2, o2, x)
  <2>1. L2.n = o[j] + Len(pre) + (Len(s) - o[N])
    <3> DEFINE a == Len(pre)
               y == o[j]
    <3>1. a \in Nat /\ y \in Nat /\ L2.n = y + a /\ Len(s) \in Nat /\ o[N] = Len(s)
      BY <1>2, <1>4, <1>5, <1>6
    <3> HIDE DEF a, y
    <3>2. L2.n = y + a + (Len(s) - o[N])
      BY <3>1
    <3>3. QED
      BY <3>2 DEF a, y
  <2>2. L2.tail = IF N < Len(w) THEN ls[l].tail ELSE IF Len(ms) > 0 THEN ms[Len(ms)]
                  ELSE IF j > 0 THEN w[j] ELSE NULL
    BY <1>0, <1>4, <1>6
  <2> DEFINE k == N
  <2>3. /\ j \in 0 .. Len(w) /\ k \in 0 .. Len(w) /\ j <= k /\ Patch(h, w, j, k, ms, mc, h2)
        /\ L2.head = (IF j > 0 THEN ls[l].head ELSE After(w, k, ms, 0))
        /\ L2.tail = (IF k < Len(w) THEN ls[l].tail ELSE IF Len(ms) > 0 THEN ms[Len(ms)]
                      ELSE IF j > 0 THEN w[j] ELSE NULL)
        /\ L2.n = o[j] + Len(pre) + (Len(s) - o[k])
    BY <1>0, <1>4, <1>6, <2>1, <2>2
  <2> HIDE DEF k
  <2>4. Right(L2, h2, Splice(w, j, k, ms), Splice(cs[l], j, k, mc),
              SpliceSums(o, Len(w), j, k, mo, Len(ms)), Splice(s, o[j], o[k], pre))
    BY <1>1, <1>6, <2>3, RightPatch
  <2>5. QED
    BY <1>0, <2>4 DEF k
<1>8. Right(M2, h2, n3, c3, o3, b) /\ \A p : In(p, n3) <=> p = r
  BY OneNodeRight DEF SplitHeap, HoldsNode
<1> HIDE DEF x, c2, o2, n3, c3, o3
<1>9. TwoApart(h, w, ns[m], h2, n2, n3)
  <2>1. \A p : ~In(p, ns[m])
    <3>1. \A p : ~In(p, <<>>)
      <4> DEFINE e == <<>>
      <4>1. Len(e) = 0
        OBVIOUS
      <4> HIDE DEF e
      <4>2. \A k \in 1 .. Len(e) : FALSE
        BY <4>1
      <4>3. \A p : ~In(p, e)
        BY <4>2 DEF In
      <4>4. QED
        BY <4>3 DEF e
    <3>2. QED
      BY <1>3, <3>1
  <2> HIDE DEF w
  <2>2. /\ \A p : In(p, n2) \/ p = r <=> In(p, w) \/ p = r
        /\ ~In(r, n2) /\ DOMAIN h2 = DOMAIN h \cup {r} /\ (r \in DOMAIN h => In(r, w))
        /\ \A p \in DOMAIN h : ~In(p, w) => h2[p] = h[p]
    BY DEF w, SplitHeap
  <2>3. QED
    BY <1>8, <2>1, <2>2 DEF TwoApart
<1>10. Sound(h2, [ls EXCEPT ![l] = L2, ![m] = M2], [S EXCEPT ![l] = x, ![m] = b])
  BY <1>7, <1>8, <1>9, TwoChange
<1>11. QED
  BY <1>10 DEF x

\* The node without the last one of a list, and the list with its last node replaced by
\* itself.
LEMMA LastSplices ==
  ASSUME NEW w \in Seq(Nat \ {0}), NEW N, NEW j, LastNode(w, N, j), Distinct(w)
  PROVE  /\ Splice(w, j, N, <<w[N]>>) = w
         /\ \A p : In(p, Splice(w, j, N, <<>>)) <=> In(p, w) /\ p # w[N]
<1> DEFINE T == Nat \ {0}
           f == SubSeq(w, 1, j)
<1>1. N \in Nat /\ N = Len(w) /\ N > 0 /\ j \in Nat /\ j = N - 1 /\ w \in Seq(T)
  BY DEF LastNode
<1>2. N \in 1 .. Len(w) /\ N - 1 = j /\ j <= Len(w) /\ j <= N /\ N <= Len(w)
  BY <1>1
<1> HIDE DEF T
<1>3. w[N] \in T
  BY <1>1, <1>2, ElementOfSeq
<1>4. Splice(w, j, N, <<w[N]>>) = w
  <2> DEFINE x == <<w[N]>>
  <2>1. x \in Seq(T) /\ Len(x) = 1 /\ x[1] = w[N]
    BY <1>3
  <2> HIDE DEF x
  <2>2. Spliced(w, w, j, N, x)
    BY <1>1, <1>2, <2>1 DEF Spliced
  <2>3. w = Splice(w, j, N, x)
    BY <1>1, <1>2, <2>1, <2>2, SpliceOnly
  <2>4. QED
    BY <2>3 DEF x
<1>5. f = Splice(w, j, N, <<>>) /\ Len(f) = j /\ \A i \in 1 .. j : f[i] = w[i]
  <2>1. f = Splice(w, j, Len(w), <<>>) /\ Len(f) = j /\ \A i \in 1 .. j : f[i] = w[i]
    BY <1>1, <1>2, FrontSplices
  <2>2. QED
    BY <1>1, <2>1
<1> HIDE DEF f
<1>6. ASSUME NEW p, In(p, f) PROVE In(p, w) /\ p # w[N]
  <2>1. PICK i \in 1 .. j : f[i] = p
    BY <1>5, <1>6 DEF In
  <2>2. i \in 1 .. Len(w) /\ w[i] = p /\ i # N
    BY <1>1, <1>5, <2>1
  <2>3. p # w[N]
    BY <1>2, <2>2 DEF Distinct
  <2>4. QED
    BY <2>2, <2>3 DEF In
<1>7. ASSUME NEW p, In(p, w), p # w[N] PROVE In(p, f)
  <2>1. PICK i \in 1 .. Len(w) : w[i] = p
    BY <1>7 DEF In
  <2>2. i \in 1 .. j
    <3>1. i # N
      BY <1>7, <2>1
    <3>2. QED
      BY <1>1, <2>1, <3>1
  <2>3. i \in 1 .. Len(f) /\ f[i] = p
    BY <1>5, <2>1, <2>2
  <2>4. QED
    BY <2>3 DEF In
<1>8. QED
  BY <1>4, <1>5, <1>6, <1>7

\* A node found that has no next one is the last one.
LEMMA LastFound ==
  ASSUME NEW L, NEW h, NEW w, NEW cs, NEW off, NEW s, Right(L, h, w, cs, off, s),
         NEW c, NEW K, NEW i \in Nat, Found(c, w, off, K, i), h[c[1]].next = NULL
  PROVE  K = Len(w) /\ LastNode(w, K, K - 1) /\ InLast(w, off, s, K, off[K - 1], i, i - off[K - 1])
         /\ c[1] = w[K] /\ c[2] = off[K - 1]
<1>1. K \in 1 .. Len(w) /\ c[1] = w[K] /\ c[2] = off[K - 1] /\ off[K - 1] <= i /\ i < off[K]
  BY DEF Found
<1>2. NodeAt(h, w, cs, off, s, K)
  BY <1>1, NodeFacts
<1>3. h[w[K]].next = Follow(w, K) /\ off[K - 1] \in Nat /\ off[K] \in Nat /\ off[K] <= Len(s)
  BY <1>2 DEF NodeAt
<1>4. Len(w) \in Nat /\ w \in Seq(Nat \ {0}) /\ Len(s) \in Nat
  BY ListFacts
<1>5. K = Len(w)
  <2> SUFFICES ASSUME K < Len(w) PROVE FALSE
    BY <1>1, <1>4
  <2>1. K + 1 \in 1 .. Len(w)
    BY <1>1, <1>4
  <2>2. w[K + 1] \in Nat \ {0}
    BY <1>4, <2>1, ElementOfSeq
  <2>3. QED
    BY <1>1, <1>3, <2>2 DEF Follow, NULL
<1>6. LastNode(w, K, K - 1)
  BY <1>1, <1>4, <1>5 DEF LastNode
<1>7. i < Len(s)
  <2> DEFINE b == off[K]
             Z == Len(s)
  <2>1. b \in Nat /\ b <= Z /\ Z \in Nat /\ i < b
    BY <1>1, <1>3, <1>4
  <2> HIDE DEF b, Z
  <2>2. i < Z
    BY <2>1
  <2>3. QED
    BY <2>2 DEF Z
<1>8. InLast(w, off, s, K, off[K - 1], i, i - off[K - 1])
  BY <1>1, <1>3, <1>4, <1>5, <1>7 DEF InLast
<1>9. QED
  BY <1>1, <1>5, <1>6, <1>8

\* The heap after a node was written.
Written(h, p, c, next, h2) ==
    /\ DOMAIN h2 = DOMAIN h \cup {p} /\ h2[p] = [items |-> c, next |-> next]
    /\ \A q \in DOMAIN h : q # p => h2[q] = h[q]

\* What writing a node gives, as one fact.
LEMMA WriteWrites ==
  ASSUME NEW h, NEW p, NEW c, NEW next
  PROVE  Written(h, p, c, next, Write(h, p, c, next))
  BY DEF Written, Write

\* The heap after a split in the middle of the last node.
LEMMA MiddleHeap ==
  ASSUME NEW L, NEW w, NEW cs, NEW off, NEW s, Right(L, heap, w, cs, off, s), IsFiniteSet(DOMAIN heap),
         NEW N, NEW j, LastNode(w, N, j), NEW a, NEW b,
         NEW h2, h2 = Write(Write(heap, NewNode, b, NULL), w[N], a, NULL)
  PROVE  /\ EndCut(heap, w, w[N], a, h2) /\ SplitHeap(heap, w, w, NewNode, b, h2)
         /\ IsFiniteSet(DOMAIN h2) /\ NewNode \in Nat \ {0}
<1> DEFINE p == w[N]
           r == NewNode
           h1 == Write(heap, r, b, NULL)
<1>1. N \in 1 .. Len(w) /\ N = Len(w)
  BY DEF LastNode
<1>2. NodeAt(heap, w, cs, off, s, N)
  BY <1>1, NodeFacts
<1>3. p \in DOMAIN heap
  BY <1>2 DEF NodeAt
<1>4. r \in Nat \ {0} /\ r \notin DOMAIN heap
  BY NewNodeFresh
<1>5. In(p, w)
  BY <1>1 DEF In
<1>6. ASSUME NEW q, In(q, w) PROVE q \in DOMAIN heap
  BY <1>6 DEF In, Right, Links
<1> HIDE DEF p, r
<1>7. /\ DOMAIN h1 = DOMAIN heap \cup {r} /\ h1[r] = [items |-> b, next |-> NULL]
      /\ \A q \in DOMAIN heap : q # r => h1[q] = heap[q]
  <2>1. Written(heap, r, b, NULL, h1)
    BY WriteWrites
  <2>2. QED
    BY <2>1 DEF Written
<1>8. h2 = Write(h1, p, a, NULL)
  BY DEF p, r
<1> HIDE DEF h1
<1>9. /\ DOMAIN h2 = DOMAIN h1 \cup {p} /\ h2[p] = [items |-> a, next |-> NULL]
      /\ \A q \in DOMAIN h1 : q # p => h2[q] = h1[q]
  <2>1. Written(h1, p, a, NULL, Write(h1, p, a, NULL))
    BY WriteWrites
  <2>2. Written(h1, p, a, NULL, h2)
    BY <1>8, <2>1
  <2>3. QED
    BY <2>2 DEF Written
<1>10. DOMAIN h2 = DOMAIN heap \cup {r} /\ r # p
  BY <1>3, <1>4, <1>7, <1>9
<1>11. \A q \in DOMAIN heap : q # p => h2[q] = heap[q]
  BY <1>4, <1>7, <1>9
<1>12. h2[r] = [items |-> b, next |-> NULL]
  BY <1>7, <1>9, <1>10
<1>13. EndCut(heap, w, p, a, h2)
  BY <1>9, <1>10, <1>11 DEF EndCut
<1>14. ~In(r, w)
  BY <1>4, <1>6
<1>15. \A q \in DOMAIN heap : ~In(q, w) => h2[q] = heap[q]
  BY <1>5, <1>11
<1>16. SplitHeap(heap, w, w, r, b, h2)
  BY <1>4, <1>10, <1>12, <1>14, <1>15 DEF SplitHeap
<1>17. IsFiniteSet(DOMAIN h2)
  BY <1>10, FS_AddElement
<1>18. QED
  BY <1>4, <1>13, <1>16, <1>17 DEF p, r

\* The heap after a split between two nodes.
LEMMA BetweenHeap ==
  ASSUME NEW L, NEW w, NEW cs, NEW off, NEW s, Right(L, heap, w, cs, off, s), IsFiniteSet(DOMAIN heap),
         NEW N, NEW j, LastNode(w, N, j), NEW last, last = IF j > 0 THEN w[j] ELSE NULL,
         NEW h2, h2 = IF last = NULL THEN heap ELSE [heap EXCEPT ![last].next = NULL]
  PROVE  /\ Patch(heap, w, j, N, <<>>, <<>>, h2)
         /\ SplitHeap(heap, w, Splice(w, j, N, <<>>), w[N], cs[N], h2)
         /\ IsFiniteSet(DOMAIN h2) /\ w[N] \in Nat \ {0}
<1> DEFINE n2 == Splice(w, j, N, <<>>)
           p == w[N]
<1>1. N \in Nat /\ N \in 1 .. Len(w) /\ N = Len(w) /\ N > 0 /\ j \in Nat /\ j = N - 1
  BY DEF LastNode
<1>2. w \in Seq(Nat \ {0})
  BY ListFacts
<1>3. Distinct(w) /\ Links(heap, w, cs)
  BY DEF Right, Links, Distinct
<1>4. \A q : In(q, n2) <=> In(q, w) /\ q # p
  BY <1>2, <1>3, LastSplices
<1> HIDE DEF n2
<1>5. ASSUME NEW i \in 1 .. Len(w) PROVE w[i] \in DOMAIN heap /\ heap[w[i]] = [items |-> cs[i], next |-> Follow(w, i)]
                                        /\ w[i] \in Nat \ {0}
  <2>1. w[i] \in Nat \ {0}
    BY <1>2, ElementOfSeq
  <2>2. QED
    BY <1>3, <2>1 DEF Links
<1>6. Follow(w, N) = NULL
  BY <1>1 DEF Follow
<1>7. /\ DOMAIN h2 = DOMAIN heap
      /\ Len(w) > 1 => h2[w[Len(w) - 1]] = [items |-> cs[Len(w) - 1], next |-> NULL]
      /\ \A q \in DOMAIN heap : (Len(w) > 1 => q # w[Len(w) - 1]) => h2[q] = heap[q]
  <2>1. CASE j > 0
    <3> DEFINE x == w[j]
               d == cs[j]
               next == Follow(w, j)
    <3>1. j \in 1 .. Len(w)
      BY <1>1, <2>1
    <3>2. x \in DOMAIN heap /\ heap[x] = [items |-> d, next |-> next] /\ x # NULL /\ last = x
      BY <1>5, <2>1, <3>1 DEF NULL
    <3> HIDE DEF x, d, next
    <3>3. h2 = [heap EXCEPT ![x].next = NULL]
      BY <3>2
    <3>4. Edited(heap, x, d, NULL, [heap EXCEPT ![x].next = NULL])
      BY <3>2, LinkExcept
    <3>5. DOMAIN h2 = DOMAIN heap /\ h2[x] = [items |-> d, next |-> NULL] /\ \A q \in DOMAIN heap : q # x => h2[q] = heap[q]
      BY <3>3, <3>4 DEF Edited
    <3>6. Len(w) > 1 /\ Len(w) - 1 = j
      BY <1>1, <2>1
    <3>7. QED
      BY <3>5, <3>6 DEF x, d
  <2>2. CASE ~(j > 0)
    <3>1. h2 = heap /\ ~(Len(w) > 1)
      BY <1>1, <2>2
    <3>2. QED
      BY <3>1
  <2>3. QED
    BY <2>1, <2>2
<1>8. Patch(heap, w, j, N, <<>>, <<>>, h2)
  <2>1. Len(w) > 0
    BY <1>1
  <2>2. Patch(heap, w, Len(w) - 1, Len(w), <<>>, <<>>, h2)
    BY <1>7, <2>1, LeavePatch
  <2>3. QED
    BY <1>1, <2>2
<1>9. p \in DOMAIN heap /\ heap[p] = [items |-> cs[N], next |-> NULL] /\ p \in Nat \ {0} /\ In(p, w)
  BY <1>1, <1>5, <1>6 DEF In
<1>10. h2[p] = heap[p]
  <2>1. ASSUME Len(w) > 1 PROVE p # w[Len(w) - 1]
    <3>1. Len(w) - 1 \in 1 .. Len(w) /\ Len(w) - 1 # N
      BY <1>1, <2>1
    <3>2. QED
      BY <1>1, <1>3, <3>1 DEF Distinct
  <2>2. QED
    BY <1>7, <1>9, <2>1
<1>11. ASSUME NEW q \in DOMAIN heap, ~In(q, w) PROVE h2[q] = heap[q]
  <2>1. ASSUME Len(w) > 1 PROVE q # w[Len(w) - 1]
    <3>1. Len(w) - 1 \in 1 .. Len(w)
      BY <1>1, <2>1
    <3>2. QED
      BY <1>11, <3>1 DEF In
  <2>2. QED
    BY <1>7, <2>1
<1>12. SplitHeap(heap, w, n2, p, cs[N], h2)
  <2>1. \A q : In(q, n2) \/ q = p <=> In(q, w) \/ q = p
    BY <1>4
  <2>2. ~In(p, n2) /\ DOMAIN h2 = DOMAIN heap \cup {p} /\ p \in DOMAIN h2
    BY <1>4, <1>7, <1>9
  <2>3. QED
    BY <1>9, <1>10, <1>11, <2>1, <2>2 DEF SplitHeap
<1>13. QED
  BY <1>7, <1>8, <1>9, <1>12 DEF n2

\* The last node of a list after a split.
SplitTail(t, w, j, ms) ==
    t \in Nat /\ t = IF Len(ms) > 0 THEN ms[Len(ms)] ELSE IF j > 0 THEN w[j] ELSE NULL

\* Where the list begins after a split.
SplitHead(t, head, w, j, N, ms) ==
    (IF t = NULL THEN NULL ELSE head) = IF j > 0 THEN head ELSE After(w, N, ms, 0)

\* All of that: the node N keeps pre, in the nodes ms, and b moves, in the node r.
Splitting(h, head, w, d, o, s, N, j, i, k, pre, b, ms, mc, mo, h2, r, t) ==
    /\ LastNode(w, N, j) /\ CutsLast(s, N, o, d[N], i, k, pre, b)
    /\ ms \in Seq(Nat \ {0}) /\ Pieces(mc, mo, pre)
    /\ IsFiniteSet(DOMAIN h2) /\ Patch(h, w, j, N, ms, mc, h2)
    /\ r \in Nat \ {0} /\ SplitHeap(h, w, Splice(w, j, N, ms), r, b, h2)
    /\ SplitTail(t, w, j, ms) /\ SplitHead(t, head, w, j, N, ms)

\* The headers of bl_split, with what it cuts, give the two parts of the list.
LEMMA SplitEnds ==
  ASSUME NEW S, NEW ns, NEW cs, NEW off, Layout(heap, lists, S, ns, cs, off),
         NEW l \in Lists, NEW m \in Lists, l # m, lists[m].head = NULL,
         NEW i \in Nat, NEW N, NEW j, NEW k, NEW pre, NEW b, NEW ms, NEW mc, NEW mo, NEW h2, NEW r, NEW t,
         Splitting(heap, lists[l].head, ns[l], cs[l], off[l], S[l], N, j, i, k, pre, b, ms, mc, mo, h2, r, t),
         NEW L2, L2 = EndHeader(lists[l], t, i), NEW M2, M2 = GrownHeader(lists[m], lists[l], i, r)
  PROVE  Sound(h2, [lists EXCEPT ![l] = L2, ![m] = M2],
               [S EXCEPT ![l] = SubSeq(S[l], 1, i), ![m] = Rest(S[l], i)])
<1> DEFINE L == lists[l]
           M == lists[m]
           w == ns[l]
           o == off[l]
           s == S[l]
           q == Len(b)
           x == Splice(s, o[j], o[N], pre)
           n2 == Splice(w, j, N, ms)
<1>0. /\ LastNode(ns[l], N, j) /\ CutsLast(S[l], N, off[l], cs[l][N], i, k, pre, b)
      /\ ms \in Seq(Nat \ {0}) /\ Pieces(mc, mo, pre)
      /\ IsFiniteSet(DOMAIN h2) /\ Patch(heap, ns[l], j, N, ms, mc, h2)
      /\ r \in Nat \ {0} /\ SplitHeap(heap, ns[l], n2, r, b, h2)
      /\ SplitTail(t, ns[l], j, ms) /\ SplitHead(t, lists[l].head, ns[l], j, N, ms)
  BY DEF Splitting
<1>1. /\ L \in Header /\ M \in Header /\ Right(L, heap, w, cs[l], o, s)
      /\ Right(M, heap, ns[m], cs[m], off[m], S[m]) /\ M.head = NULL
  BY DEF Layout
<1>2. N \in Nat /\ N = Len(w) /\ N > 0 /\ j \in Nat /\ j = N - 1 /\ j \in 0 .. Len(w)
  BY <1>0 DEF LastNode
<1>3. o[j] \in Nat /\ L.n = Len(s) /\ Len(s) \in Nat
  <2> HIDE DEF L, w, o, s
  <2>1. N \in 1 .. Len(w)
    BY <1>2
  <2>2. NodeAt(heap, w, cs[l], o, s, N)
    BY <1>1, <2>1, NodeFacts
  <2>3. L.n = Len(s) /\ Len(s) \in Nat
    BY <1>1, ListFacts
  <2>4. QED
    BY <1>2, <2>2, <2>3 DEF NodeAt
<1>4. /\ k \in Nat /\ k = i - o[j] /\ Len(pre) = k /\ b \in Seq(Int) /\ q \in 1 .. BlockSize
      /\ q = Len(s) - i /\ b = Rest(s, i) /\ SubSeq(s, 1, i) = x
  <2> DEFINE d == cs[l][N]
  <2>1. CutsLast(s, N, o, d, i, k, pre, b)
    BY <1>0
  <2> HIDE DEF s, o, d, x, q
  <2>2. /\ k \in 0 .. Len(d) - 1 /\ k = i - o[N - 1] /\ Len(pre) = k /\ b \in Seq(Int)
        /\ Len(b) \in 1 .. BlockSize /\ Len(b) = Len(s) - i /\ b = Rest(s, i)
        /\ SubSeq(s, 1, i) = Splice(s, o[N - 1], o[N], pre)
    BY <2>1 DEF CutsLast
  <2>3. N - 1 = j
    BY <1>2
  <2>4. QED
    BY <2>2, <2>3 DEF q, x
<1>5. M.tail = NULL /\ M.n = 0 /\ M.last = NULL
  BY <1>1, EmptyFacts
<1> HIDE DEF L, M, w, o, s, q, x, n2
<1>6. i = o[j] + Len(pre)
  BY <1>3, <1>4
<1>7. L.n - i = q /\ q \in Nat /\ r \in Nat /\ t \in Nat
  BY <1>0, <1>3, <1>4, Small DEF SplitTail
<1>8. /\ Fields(L2, IF t = NULL THEN NULL ELSE L.head, t, i)
      /\ M2 \in Header /\ M2.head = r /\ M2.tail = r /\ M2.n = q /\ M2.last = M.last
  <2>1. L2 = EndHeader(L, t, i) /\ M2 = GrownHeader(M, L, i, r)
    BY DEF L, M
  <2>2. QED
    BY <1>1, <1>5, <1>7, <2>1, SplitHeaders
<1>9. EndsAt(L2, L.head, w, o, j, N, ms, pre)
  <2>1. (IF t = NULL THEN NULL ELSE L.head) = IF j > 0 THEN L.head ELSE After(w, N, ms, 0)
    BY <1>0 DEF SplitHead, L, w
  <2>2. t = IF Len(ms) > 0 THEN ms[Len(ms)] ELSE IF j > 0 THEN w[j] ELSE NULL
    BY <1>0 DEF SplitTail, w
  <2>3. QED
    BY <1>6, <1>8, <2>1, <2>2 DEF Fields, EndsAt
<1>10. Sound(h2, [lists EXCEPT ![l] = L2, ![m] = M2], [S EXCEPT ![l] = x, ![m] = b])
  <2>1. HoldsNode(M2, r, b)
    BY <1>0, <1>4, <1>5, <1>8 DEF HoldsNode, q
  <2>2. EndsAt(L2, lists[l].head, ns[l], off[l], j, N, ms, pre)
    BY <1>9 DEF L, w, o
  <2>3. Sound(h2, [lists EXCEPT ![l] = L2, ![m] = M2],
              [S EXCEPT ![l] = Splice(S[l], off[l][j], off[l][N], pre), ![m] = b])
    <3>1. n2 = Splice(ns[l], j, N, ms)
      BY DEF n2, w
    <3>2. QED
      BY <1>0, <2>1, <2>2, <3>1, SplitOff
  <2>4. QED
    BY <2>3 DEF x, s, o
<1>11. QED
  <2>1. SubSeq(S[l], 1, i) = x /\ b = Rest(S[l], i)
    BY <1>4 DEF s
  <2>2. QED
    BY <1>10, <2>1

\* bl_split leaves the first i elements and moves the others to the empty list m.
LEMMA SplitSound ==
  ASSUME NEW S, NEW ns, NEW cs, NEW off, Layout(heap, lists, S, ns, cs, off),
         NEW l \in Lists, NEW m \in Lists, NEW i \in Nat, i < Len(S[l]),
         OneNodeToEmpty(l, m, i), Split(l, m, i)
  PROVE  /\ Sound(heap', lists', [S EXCEPT ![l] = SubSeq(S[l], 1, i), ![m] = Rest(S[l], i)])
         /\ result' = <<>> /\ l # m /\ S[m] = <<>>
<1> DEFINE L == lists[l]
           M == lists[m]
           w == ns[l]
           o == off[l]
           s == S[l]
           d == cs[l]
           c == FindNode(L, i)
<1>1. /\ L \in Header /\ M \in Header /\ Right(L, heap, w, d, o, s) /\ IsFiniteSet(DOMAIN heap)
      /\ Right(M, heap, ns[m], cs[m], off[m], S[m])
  BY DEF Layout
<1>2. l # m /\ M.head = NULL /\ heap[c[1]].next = NULL /\ result' = <<>>
  BY DEF Split, OneNodeToEmpty
<1>3. S[m] = <<>> /\ M.tail = NULL
  BY <1>1, <1>2, EmptyFacts
<1>4. PICK K \in 1 .. Len(w) : Found(c, w, o, K, i)
  BY FindNodeFinds
<1> HIDE DEF c
<1>5. /\ LastNode(w, K, K - 1) /\ InLast(w, o, s, K, o[K - 1], i, i - o[K - 1])
      /\ c[1] = w[K] /\ c[2] = o[K - 1]
  BY <1>1, <1>2, <1>4, LastFound
<1> DEFINE j == K - 1
           k == i - o[j]
           p == w[K]
           pre == SubSeq(d[K], 1, k)
           b == Rest(d[K], k)
           moved == IF k = 0 THEN p ELSE NewNode
           last == IF k > 0 THEN p ELSE IF i = 0 THEN NULL ELSE FindNode(L, i - 1)[1]
           h2 == IF k > 0 THEN Write(Write(heap, NewNode, b, NULL), p, pre, NULL)
                 ELSE IF last = NULL THEN heap ELSE [heap EXCEPT ![last].next = NULL]
           L2 == EndHeader(L, last, i)
           M2 == GrownHeader(M, L, i, moved)
<1>6. /\ lists' = [lists EXCEPT ![l] = L2, ![m] = M2]
      /\ heap' = h2
  <2>1. heap[p].items = d[K] /\ heap[p].next = NULL
    <3>1. NodeAt(heap, w, d, o, s, K)
      BY <1>1, NodeFacts
    <3>2. QED
      BY <1>2, <1>5, <3>1 DEF NodeAt
  <2>2. c = FindNode(lists[l], i) /\ c[1] = p /\ c[2] = o[j]
    BY <1>5 DEF c
  <2>3. lists[m].tail = NULL
    BY <1>3
  <2> HIDE DEF p, j
  <2>4. QED
    BY <2>1, <2>2, <2>3 DEF Split, Rest, EndHeader, GrownHeader
<1>7. /\ K \in Nat /\ K = Len(w) /\ K > 0 /\ j \in Nat /\ o[j] \in Nat /\ o[j] <= i /\ k \in Nat
  BY <1>5 DEF InLast, LastNode
<1>8. LastNode(w, K, j) /\ CutsLast(s, K, o, d[K], i, k, pre, b)
  BY <1>1, <1>5, LastIsCut
<1>9. Len(d[K]) \in 1 .. BlockSize /\ w \in Seq(Nat \ {0}) /\ Distinct(w)
  <2>1. NodeAt(heap, w, d, o, s, K)
    BY <1>1, NodeFacts
  <2>2. w \in Seq(Nat \ {0})
    BY <1>1, ListFacts
  <2>3. QED
    BY <1>1, <2>1, <2>2 DEF NodeAt, Right, Links, Distinct
<1>10. /\ k \in 0 .. Len(d[K]) - 1 /\ pre \in Seq(Int) /\ Len(pre) = k /\ b \in Seq(Int)
  BY <1>8 DEF CutsLast
<1>11. p \in Nat \ {0}
  BY <1>7, <1>9, ElementOfSeq
<1> HIDE DEF j, k, p, pre, b, moved, last, h2, L2, M2
<1> DEFINE S2 == [S EXCEPT ![l] = SubSeq(s, 1, i), ![m] = Rest(s, i)]
<1>12. CASE k > 0
  <2>1. moved = NewNode /\ last = p
    BY <1>12 DEF moved, last
  <2>2. h2 = Write(Write(heap, NewNode, b, NULL), w[K], pre, NULL)
    BY <1>12 DEF h2, p
  <2> DEFINE ms == <<p>>
             mc == <<pre>>
             mo == [a \in 0 .. 1 |-> IF a = 0 THEN 0 ELSE Len(pre)]
             n2 == Splice(w, j, K, ms)
  <2>3. EndCut(heap, w, w[K], pre, h2) /\ SplitHeap(heap, w, w, NewNode, b, h2)
        /\ IsFiniteSet(DOMAIN h2) /\ NewNode \in Nat \ {0}
    BY <1>1, <1>8, <2>2, MiddleHeap
  <2>4. Patch(heap, w, j, K, ms, mc, h2)
    <3>1. Len(w) > 0 /\ EndCut(heap, w, w[Len(w)], pre, h2)
      BY <1>7, <2>3
    <3>2. Patch(heap, w, Len(w) - 1, Len(w), <<w[Len(w)]>>, <<pre>>, h2)
      BY <1>1, <3>1, KeepPatch
    <3>3. Len(w) - 1 = j /\ Len(w) = K
      BY <1>7 DEF j
    <3>4. QED
      BY <3>2, <3>3 DEF p
  <2>5. n2 = w
    BY <1>8, <1>9, LastSplices DEF p
  <2>6. Pieces(mc, mo, pre)
    <3>1. Len(pre) \in 1 .. BlockSize
      BY <1>9, <1>10, <1>12, Small
    <3>2. QED
      BY <1>10, <3>1, OnePiece
  <2>7. ms \in Seq(Nat \ {0}) /\ Len(ms) = 1 /\ ms[1] = p
    BY <1>11
  <2> HIDE DEF ms, mc, mo, n2
  <2>8. SplitHeap(heap, w, n2, moved, b, h2) /\ moved \in Nat \ {0}
    BY <2>1, <2>3, <2>5
  <2>9. SplitTail(last, w, j, ms)
    BY <1>11, <2>1, <2>7 DEF SplitTail
  <2>10. SplitHead(last, L.head, w, j, K, ms)
    <3>1. L.head = Follow(w, 0) /\ last # NULL
      BY <1>1, <1>11, <2>1 DEF Right, NULL
    <3>2. ASSUME ~(j > 0) PROVE L.head = After(w, K, ms, 0)
      <4>1. K = 1
        <5>1. K - 1 = j
          BY DEF j
        <5>2. j = 0
          BY <1>7, <3>2
        <5>3. K \in Nat
          BY <1>7
        <5> HIDE DEF w
        <5>4. QED
          BY <5>1, <5>2, <5>3
      <4>2. Follow(w, 0) = w[1] /\ After(w, K, ms, 0) = ms[1]
        BY <1>7, <2>7 DEF Follow, After
      <4>3. QED
        BY <2>7, <3>1, <4>1, <4>2 DEF p
    <3>3. QED
      BY <3>1, <3>2 DEF SplitHead
  <2>11. Sound(h2, [lists EXCEPT ![l] = L2, ![m] = M2], S2)
    <3>1. Splitting(heap, L.head, w, d, o, s, K, j, i, k, pre, b, ms, mc, mo, h2, moved, last)
      BY <1>8, <2>3, <2>4, <2>6, <2>7, <2>8, <2>9, <2>10 DEF Splitting, n2
    <3>2. QED
      BY <1>2, <3>1, SplitEnds DEF L2, M2
  <2>12. QED
    BY <1>2, <1>3, <1>6, <2>11
<1>13. CASE ~(k > 0)
  <2>1. k = 0 /\ moved = p
    BY <1>7, <1>13 DEF moved
  <2>2. pre = <<>> /\ b = d[K]
    <3>1. pre = <<>>
      BY <1>10, <2>1
    <3>2. d[K] \in Seq(Int)
      BY <1>1, <1>7, ListFacts, ElementOfSeq
    <3>3. Rest(d[K], 0) = d[K]
      BY <3>2, RestEnds
    <3>4. QED
      BY <2>1, <3>1, <3>3 DEF b
  <2>3. o[j] = i
    BY <1>7, <2>1 DEF k
  <2>4. last = IF j > 0 THEN w[j] ELSE NULL
    <3>1. o[0] = 0 /\ \A e, f \in 0 .. Len(w) : e < f => o[e] < o[f]
      <4> HIDE DEF L, w, o, s, d
      <4>1. o[0] = 0
        BY <1>1, ListFacts
      <4>2. ASSUME NEW e \in 0 .. Len(w), NEW f \in 0 .. Len(w), e < f PROVE o[e] < o[f]
        BY <1>1, <4>2, ListFacts
      <4>3. QED
        BY <4>1, <4>2
    <3>2. CASE j > 0
      <4>1. j - 1 \in 0 .. Len(w) /\ j \in 0 .. Len(w) /\ j - 1 < j /\ 0 \in 0 .. Len(w) /\ j \in 1 .. Len(w)
        BY <1>7, <3>2 DEF j
      <4>2. o[j - 1] < i /\ 0 < i
        BY <2>3, <3>1, <3>2, <4>1
      <4>3. i - 1 \in Nat /\ i - 1 < Len(s)
        BY <1>1, <4>2, ListFacts
      <4>4. PICK e \in 1 .. Len(w) : Found(FindNode(lists[l], i - 1), w, o, e, i - 1)
        BY <4>3, FindNodeFinds
      <4>5. /\ FindNode(lists[l], i - 1) = <<w[e], o[e - 1]>> /\ o[e - 1] <= i - 1 /\ i - 1 < o[e]
            /\ e \in 0 .. Len(w) /\ e - 1 \in 0 .. Len(w)
        BY <1>7, <4>4 DEF Found
      <4>6. /\ o[e - 1] \in Nat /\ o[e] \in Nat /\ o[j - 1] \in Nat
            /\ \A f \in 0 .. Len(w) : \A g \in 0 .. Len(w) : f <= g => o[f] <= o[g]
        BY <1>1, <4>1, <4>5, ListFacts
      <4>7. ~(e < j)
        <5>1. ASSUME e < j PROVE FALSE
          <6>1. e <= j - 1
            BY <1>7, <5>1
          <6>2. o[e] <= o[j - 1]
            BY <4>1, <4>5, <4>6, <6>1
          <6>3. o[j] \in Nat /\ o[j - 1] < o[j] /\ i - 1 < o[e]
            BY <1>7, <2>3, <4>2, <4>5
          <6>4. e <= j /\ e # j /\ o[e] < o[j] + 0
            BY <1>7, <3>1, <4>1, <4>5, <5>1, <1>7
          <6>5. QED
            BY <2>3, <4>5, <4>6, <6>3, <6>4
        <5>2. QED
          BY <5>1
      <4>8. ~(e > j)
        <5>1. ASSUME e > j PROVE FALSE
          <6>1. j <= e - 1
            BY <1>7, <5>1
          <6>2. o[j] <= o[e - 1]
            BY <4>1, <4>5, <4>6, <6>1
          <6>3. QED
            BY <2>3, <4>5, <4>6, <6>2
        <5>2. QED
          BY <5>1
      <4>9. e = j
        BY <1>7, <4>7, <4>8
      <4>10. FindNode(L, i - 1)[1] = w[j]
        BY <4>5, <4>9
      <4>11. QED
        BY <1>13, <3>2, <4>2, <4>10 DEF last
    <3>3. CASE ~(j > 0)
      <4>1. j = 0
        BY <1>7, <3>3
      <4>2. i = 0
        BY <2>3, <3>1, <4>1
      <4>3. QED
        BY <1>13, <3>3, <4>2 DEF last
    <3>4. QED
      BY <3>2, <3>3
  <2>5. h2 = IF last = NULL THEN heap ELSE [heap EXCEPT ![last].next = NULL]
    BY <1>13 DEF h2
  <2> DEFINE ms == <<>>
             mc == <<>>
             mo == [a \in 0 .. 0 |-> 0]
             n2 == Splice(w, j, K, ms)
  <2>6. /\ Patch(heap, w, j, K, ms, mc, h2) /\ SplitHeap(heap, w, n2, w[K], d[K], h2)
        /\ IsFiniteSet(DOMAIN h2)
    BY <1>1, <1>8, <2>4, <2>5, BetweenHeap
  <2>7. Pieces(mc, mo, pre)
    BY <2>2, NoPiece
  <2>8. ms \in Seq(Nat \ {0}) /\ Len(ms) = 0
    OBVIOUS
  <2> HIDE DEF ms, mc, mo, n2
  <2>9. SplitHeap(heap, w, n2, moved, b, h2) /\ moved \in Nat \ {0}
    BY <1>11, <2>1, <2>2, <2>6 DEF p
  <2>10. ASSUME j > 0 PROVE w[j] \in Nat \ {0}
    <3>1. j \in 1 .. Len(w)
      BY <1>7, <2>10 DEF j
    <3>2. QED
      BY <1>9, <3>1, ElementOfSeq
  <2>11. SplitTail(last, w, j, ms)
    BY <2>4, <2>8, <2>10 DEF SplitTail, NULL
  <2>12. SplitHead(last, L.head, w, j, K, ms)
    <3>1. After(w, K, ms, 0) = NULL
      BY <1>7, <2>8 DEF After, Follow
    <3>2. QED
      BY <2>4, <2>10, <3>1 DEF SplitHead, NULL
  <2>13. Sound(h2, [lists EXCEPT ![l] = L2, ![m] = M2], S2)
    <3>1. Splitting(heap, L.head, w, d, o, s, K, j, i, k, pre, b, ms, mc, mo, h2, moved, last)
      BY <1>8, <2>6, <2>7, <2>8, <2>9, <2>11, <2>12 DEF Splitting, n2
    <3>2. QED
      BY <1>2, <3>1, SplitEnds DEF L2, M2
  <2>14. QED
    BY <1>2, <1>3, <1>6, <2>13
<1>14. QED
  BY <1>12, <1>13

-----------------------------------------------------------------------------
(* Sorting *)

\* The nodes that bl_append makes of a sequence hold it, each but the last one full.
LEMMA ChunksHold ==
  ASSUME NEW s \in Seq(Int)
  PROVE  \E off : Pieces(Chunks(s), off, s)
<1> DEFINE B == BlockSize
           N == Len(s)
           n == (N + B - 1) \div B
           off == [k \in 0 .. n |-> ChunkEnd(k, B, N)]
           c(k) == SubSeq(s, (k - 1) * B + 1, Min({k * B, N}))
           cs == [k \in 1 .. n |-> c(k)]
<1>1. N \in Nat /\ B \in Nat /\ B >= 1
  BY Small, LenProperties
<1>2. n \in Nat /\ N <= n * B /\ (N = 0 <=> n = 0)
  <2> DEFINE m == (N + B - 1) \div B
  <2> HIDE DEF B, N
  <2>1. m = (N + B - 1) \div B
    OBVIOUS
  <2> HIDE DEF m
  <2>2. Enough(m, N, B)
    BY <1>1, <2>1, HowManyChunks
  <2>3. QED
    BY <2>2 DEF m, Enough
<1>3. Chunks(s) = cs
  BY DEF Chunks
<1>4. ASSUME NEW k \in 1 .. n
      PROVE  /\ c(k) \in Seq(Int) /\ Len(c(k)) \in 1 .. B
             /\ off[k - 1] \in Nat /\ off[k] \in Nat /\ off[k] = off[k - 1] + Len(c(k))
             /\ \A i \in 1 .. Len(c(k)) : s[off[k - 1] + i] = c(k)[i]
  <2> DEFINE x == (k - 1) * B
             e == ChunkEnd(k, B, N)
  <2>1. ChunkSize(k, n, B, N)
    BY <1>1, ChunkSizes
  <2>2. k \in Nat /\ x \in Nat /\ e \in Nat /\ e <= N /\ e - x \in 1 .. B /\ k * B \in Nat
        /\ ChunkEnd(k - 1, B, N) = x
    BY <2>1 DEF ChunkSize
  <2>3. Min({k * B, N}) = e
    <3> DEFINE y == k * B
    <3>1. y \in Int /\ N \in Int /\ {y, N} \in SUBSET Int
      BY <1>1, <2>2
    <3> HIDE DEF y, N
    <3>2. CASE y < N
      <4>1. y \in {y, N} /\ \A z \in {y, N} : y <= z
        BY <3>1, <3>2
      <4>2. Min({y, N}) = y
        BY <3>1, <4>1, LeastIs
      <4>3. e = y
        BY <3>2 DEF ChunkEnd, y
      <4>4. QED
        BY <4>2, <4>3 DEF y
    <3>3. CASE ~(y < N)
      <4>1. N \in {y, N} /\ \A z \in {y, N} : N <= z
        BY <3>1, <3>3
      <4>2. Min({y, N}) = N
        BY <3>1, <4>1, LeastIs
      <4>3. e = N
        BY <3>3 DEF ChunkEnd, y
      <4>4. QED
        BY <4>2, <4>3 DEF y
    <3>4. QED
      BY <3>2, <3>3
  <2>4. off[k - 1] = x /\ off[k] = e
    <3>1. k \in 0 .. n /\ k - 1 \in 0 .. n
      BY <1>2, <2>2
    <3>2. off[k - 1] = ChunkEnd(k - 1, B, N) /\ off[k] = ChunkEnd(k, B, N)
      BY <3>1
    <3>3. QED
      BY <2>2, <3>2
  <2>5. c(k) = SubSeq(s, x + 1, e)
    BY <2>3
  <2> HIDE DEF x, e, off, c, n, B, N
  <2>6. /\ SubSeq(s, x + 1, e) \in Seq(Int) /\ Len(SubSeq(s, x + 1, e)) = e - x
        /\ \A i \in 1 .. e - x : SubSeq(s, x + 1, e)[i] = s[x + i]
    <3>1. x + 1 \in Nat /\ x + 1 <= e /\ e <= Len(s)
      BY <2>2 DEF N
    <3>2. SubSeq(s, x + 1, e) = [i \in 1 .. e - x |-> s[x + i]]
      BY <2>2, <3>1
    <3>3. \A i \in 1 .. e - x : s[x + i] \in Int
      <4> TAKE i \in 1 .. e - x
      <4>1. x + i \in 1 .. Len(s)
        BY <2>2, <3>1
      <4>2. QED
        BY <4>1, ElementOfSeq
    <3>4. e - x \in Nat
      BY <2>2
    <3> DEFINE f == [i \in 1 .. e - x |-> s[x + i]]
               z == e - x
    <3>5. f \in [1 .. z -> Int] /\ z \in Nat
      BY <3>3, <3>4
    <3>6. f \in Seq(Int) /\ Len(f) = z
      <4> HIDE DEF f, z
      <4>1. QED
        BY <3>5, FunctionIsSequence
    <3>7. QED
      BY <3>2, <3>6
  <2>7. QED
    BY <2>2, <2>4, <2>5, <2>6
<1>5. cs \in Seq(Seq(Int)) /\ Len(cs) = n /\ \A k \in 1 .. n : cs[k] = c(k)
  <2>1. cs \in [1 .. n -> Seq(Int)]
    BY <1>4
  <2>2. \A k \in 1 .. n : cs[k] = c(k)
    OBVIOUS
  <2> HIDE DEF cs, n, c
  <2>3. QED
    BY <1>2, <2>1, <2>2, FunctionIsSequence
<1>6. off[0] = 0 /\ off[n] = N
  <2>1. ChunkEnd(0, B, N) = 0
    BY <1>1 DEF ChunkEnd
  <2>2. ChunkEnd(n, B, N) = N
    BY <1>1, <1>2 DEF ChunkEnd
  <2>3. 0 \in 0 .. n /\ n \in 0 .. n
    BY <1>2
  <2>4. QED
    BY <2>1, <2>2, <2>3
<1>7. off \in [0 .. n -> Nat]
  <2>1. ASSUME NEW k \in 0 .. n PROVE ChunkEnd(k, B, N) \in Nat
    <3>1. k \in Nat /\ k * B \in Nat
      BY <1>1, <1>2
    <3>2. QED
      BY <1>1, <3>1 DEF ChunkEnd
  <2>2. QED
    BY <2>1
<1> HIDE DEF off, n, c, cs, B
<1>8. Pieces(cs, off, s)
  <2>1. /\ \A k \in 1 .. Len(cs) : Len(cs[k]) \in 1 .. BlockSize
        /\ \A k \in 1 .. Len(cs) : off[k] = off[k - 1] + Len(cs[k])
        /\ \A k \in 1 .. Len(cs) : \A i \in 1 .. Len(cs[k]) : s[off[k - 1] + i] = cs[k][i]
    <3>1. ASSUME NEW k \in 1 .. Len(cs)
          PROVE  /\ Len(cs[k]) \in 1 .. BlockSize /\ off[k] = off[k - 1] + Len(cs[k])
                 /\ \A i \in 1 .. Len(cs[k]) : s[off[k - 1] + i] = cs[k][i]
      <4>1. k \in 1 .. n /\ cs[k] = c(k)
        BY <1>5
      <4>2. /\ Len(c(k)) \in 1 .. B /\ off[k] = off[k - 1] + Len(c(k))
            /\ \A i \in 1 .. Len(c(k)) : s[off[k - 1] + i] = c(k)[i]
        BY <1>4, <4>1
      <4>3. QED
        BY <4>1, <4>2 DEF B
    <3>2. QED
      BY <3>1
  <2>2. QED
    BY <1>5, <1>6, <1>7, <2>1 DEF Pieces, Cuts
<1>9. QED
  BY <1>3, <1>8

\* A sorted sequence and one of nothing less, one after the other.
LEMMA SortedJoin ==
  ASSUME NEW r \in Seq(Int), NEW q \in Seq(Int), Sorted(r), Sorted(q),
         \A i \in 1 .. Len(r) : \A j \in 1 .. Len(q) : r[i] <= q[j]
  PROVE  Sorted(r \o q)
<1> DEFINE a == Len(r)
           b == Len(q)
           u == r \o q
<1>1. a \in Nat /\ b \in Nat
  BY LenProperties
<1>2. /\ Len(u) = a + b /\ \A i \in 1 .. a : u[i] = r[i]
      /\ \A i \in 1 .. a + b : i > a => u[i] = q[i - a]
  OBVIOUS
<1> HIDE DEF u
<1> SUFFICES ASSUME NEW i \in 1 .. (a + b) - 1 PROVE u[i] <= u[i + 1]
  BY <1>2 DEF Sorted, u
<1>3. CASE i + 1 <= a
  <2>1. i \in 1 .. a - 1 /\ i \in 1 .. a /\ i + 1 \in 1 .. a
    BY <1>1, <1>3
  <2>2. QED
    BY <1>2, <2>1 DEF Sorted
<1>4. CASE i = a
  <2>1. i \in 1 .. a /\ 1 \in 1 .. b /\ i + 1 \in 1 .. a + b /\ i + 1 > a /\ (i + 1) - a = 1
    BY <1>1, <1>4
  <2>2. QED
    BY <1>2, <2>1
<1>5. CASE i > a
  <2>1. i - a \in 1 .. b - 1 /\ i + 1 \in 1 .. a + b /\ i + 1 > a /\ (i + 1) - a = (i - a) + 1 /\ i \in 1 .. a + b
    BY <1>1, <1>5
  <2>2. q[i - a] <= q[(i - a) + 1]
    BY <2>1 DEF Sorted
  <2>3. QED
    BY <1>2, <1>5, <2>1, <2>2
<1>6. QED
  BY <1>1, <1>3, <1>4, <1>5

\* Ascending order is an arrangement, and sorted.
LEMMA AscendingSorts ==
  ASSUME NEW s \in Seq(Int)
  PROVE  /\ Ascending(s) \in Seq(Int) /\ Len(Ascending(s)) = Len(s) /\ Sorted(Ascending(s))
         /\ Arranges(Ascending(s), s, 1 .. Len(s))
<1> DEFINE D == 1 .. Len(s)
           before == {p \in D \X D : s[p[1]] < s[p[2]] \/ (s[p[1]] = s[p[2]] /\ p[1] < p[2])}
           g == InOrderOf(before, D)
           r == [n \in D |-> s[g[n]]]
<1>1. DOMAIN s = D /\ Len(s) \in Nat /\ \A i \in D : s[i] \in Int
  BY LenProperties, ElementOfSeq
<1>2. Ascending(s) = r
  BY <1>1 DEF Ascending
<1>3. IsFiniteSet(D) /\ Cardinality(D) = Len(s)
  BY <1>1, IntervalSize
<1>4. StrictOrder(before, D)
  <2>1. D \subseteq Int
    BY <1>1
  <2>2. ASSUME NEW x \in D PROVE <<x, x>> \notin before
    BY <1>1, <2>1
  <2>3. ASSUME NEW x \in D, NEW y \in D, NEW z \in D, <<x, y>> \in before, <<y, z>> \in before
        PROVE  <<x, z>> \in before
    BY <1>1, <2>1, <2>3
  <2>4. ASSUME NEW x \in D, NEW y \in D, x # y PROVE <<x, y>> \in before \/ <<y, x>> \in before
    BY <1>1, <2>1, <2>4
  <2>5. QED
    BY <2>2, <2>3, <2>4 DEF StrictOrder
<1> HIDE DEF before
<1>5. /\ g \in Seq(D) /\ Len(g) = Len(s)
      /\ \A i \in 1 .. Len(g) : g[i] \in D
      /\ \A x \in D : \E i \in 1 .. Len(g) : g[i] = x
      /\ \A i, j \in 1 .. Len(g) : i < j <=> <<g[i], g[j]>> \in before
      /\ \A i, j \in 1 .. Len(g) : g[i] = g[j] => i = j
  <2> HIDE DEF D
  <2>1. /\ g \in Seq(D) /\ Len(g) = Cardinality(D)
        /\ \A i \in 1 .. Len(g) : g[i] \in D
        /\ \A x \in D : \E i \in 1 .. Len(g) : g[i] = x
        /\ \A i, j \in 1 .. Len(g) : i < j <=> <<g[i], g[j]>> \in before
        /\ \A i, j \in 1 .. Len(g) : g[i] = g[j] => i = j
    BY <1>3, <1>4, Sorting
  <2>2. QED
    BY <1>3, <2>1
<1> HIDE DEF g
<1>6. r \in [D -> Int]
  BY <1>1, <1>5
<1>7. r \in Seq(Int) /\ Len(r) = Len(s) /\ \A i \in D : r[i] = s[g[i]]
  <2>1. \A i \in D : r[i] = s[g[i]]
    OBVIOUS
  <2> HIDE DEF r
  <2>2. QED
    BY <1>1, <1>6, <2>1, FunctionIsSequence
<1> HIDE DEF r
<1>8. Sorted(r)
  <2> SUFFICES ASSUME NEW i \in 1 .. Len(s) - 1 PROVE r[i] <= r[i + 1]
    BY <1>7 DEF Sorted
  <2>1. i \in D /\ i + 1 \in D /\ i < i + 1
    BY <1>1
  <2>2. <<g[i], g[i + 1]>> \in before /\ g[i] \in D /\ g[i + 1] \in D
    BY <1>5, <2>1
  <2>3. s[g[i]] <= s[g[i + 1]]
    BY <1>1, <2>2 DEF before
  <2>4. QED
    BY <1>7, <2>1, <2>3
<1>9. ArrangedBy(r, s, D, [i \in D |-> g[i]])
  <2> DEFINE f == [i \in D |-> g[i]]
  <2>1. f \in [D -> D] /\ \A i \in D : f[i] = g[i]
    BY <1>5
  <2> HIDE DEF f
  <2>2. ArrangedBy(r, s, D, f)
    BY <1>5, <1>7, <2>1, ZenonT(40) DEF ArrangedBy
  <2>3. QED
    BY <2>2 DEF f
<1>10. QED
  <2>1. Arranges(r, s, D)
    BY <1>9 DEF Arranges
  <2>2. QED
    BY <1>2, <1>7, <1>8, <2>1

\* Nodes that hold one sequence, and then those that hold another one.
LEMMA PiecesJoin ==
  ASSUME NEW cs, NEW off, NEW s, Pieces(cs, off, s), NEW ms, NEW mo, NEW m, Pieces(ms, mo, m)
  PROVE  \E o : Pieces(cs \o ms, o, s \o m)
BY ListAssumption, CutsJoin DEF Pieces

\* Nodes that hold the entries of s in ascending order.
SortsTo(cs, s) ==
    \E off, m : Pieces(cs, off, m) /\ Sorted(m) /\ Arranges(m, s, 1 .. Len(s))

\* The elements below, equal to and above one of them, each sorted, are the sequence
\* sorted; and there are fewer below, and above.
LEMMA AroundSorts ==
  ASSUME NEW s \in Seq(Int), NEW v \in Range(s),
         NEW lo, lo = Filter(s, {e \in Range(s) : e < v}),
         NEW hi, hi = Filter(s, {e \in Range(s) : e > v}),
         NEW eq, eq = Filter(s, {v})
  PROVE  /\ lo \in Seq(Int) /\ Len(lo) < Len(s) /\ hi \in Seq(Int) /\ Len(hi) < Len(s)
         /\ eq \in Seq(Int)
         /\ \A less, greater : SortsTo(less, lo) /\ SortsTo(greater, hi)
                => SortsTo((less \o Chunks(eq)) \o greater, s)
<1> DEFINE R == Range(s)
           lows == {e \in R : e < v}
           highs == {e \in R : e > v}
           X == Positions(s, lows)
           Y == Positions(s, {v})
           Z == Positions(s, highs)
<1>1. Len(s) \in Nat /\ \A n \in 1 .. Len(s) : s[n] \in Int /\ s[n] \in R
  <2>1. DOMAIN s = 1 .. Len(s) /\ Len(s) \in Nat
    BY LenProperties
  <2>2. QED
    BY <2>1, ElementOfSeq DEF Range
<1>2. PICK n \in 1 .. Len(s) : s[n] = v
  BY LenProperties DEF Range
<1>3. v \in Int /\ v \notin lows /\ v \notin highs
  BY <1>1, <1>2
<1> HIDE DEF R
<1>4. /\ \A x \in X : x \in 1 .. Len(s) /\ s[x] < v
      /\ \A x \in Y : x \in 1 .. Len(s) /\ s[x] = v
      /\ \A x \in Z : x \in 1 .. Len(s) /\ s[x] > v
  BY DEF Positions
<1>5. X \cap Y = {} /\ (X \cup Y) \cap Z = {} /\ (X \cup Y) \cup Z = 1 .. Len(s)
  <2>1. \A x \in 1 .. Len(s) : x \in X \/ x \in Y \/ x \in Z
    <3> TAKE x \in 1 .. Len(s)
    <3>1. s[x] < v \/ s[x] = v \/ s[x] > v
      BY <1>1, <1>3
    <3>2. QED
      BY <1>1, <3>1 DEF Positions
  <2> HIDE DEF X, Y, Z
  <2>2. \A x \in X : x \notin Y /\ x \notin Z
    BY <1>1, <1>3, <1>4
  <2>3. \A x \in Y : x \notin Z
    BY <1>1, <1>3, <1>4
  <2>4. QED
    BY <1>4, <2>1, <2>2, <2>3
<1> HIDE DEF lows, highs, X, Y, Z
<1>6. /\ lo \in Seq(Int) /\ Arranges(lo, s, X) /\ hi \in Seq(Int) /\ Arranges(hi, s, Z)
      /\ eq \in Seq(Int) /\ Arranges(eq, s, Y)
  <2>1. lo = Filter(s, lows) /\ hi = Filter(s, highs)
    BY DEF lows, highs, R
  <2>2. Filter(s, lows) \in Seq(Int) /\ Arranges(Filter(s, lows), s, Positions(s, lows))
    BY FilterArranges
  <2>3. Filter(s, highs) \in Seq(Int) /\ Arranges(Filter(s, highs), s, Positions(s, highs))
    BY FilterArranges
  <2>4. Filter(s, {v}) \in Seq(Int) /\ Arranges(Filter(s, {v}), s, Positions(s, {v}))
    BY FilterArranges
  <2>5. QED
    BY <2>1, <2>2, <2>3, <2>4 DEF X, Y, Z
<1>7. Len(lo) < Len(s) /\ Len(hi) < Len(s)
  <2>1. lo = Filter(s, lows) /\ hi = Filter(s, highs)
    BY DEF lows, highs, R
  <2>2. s[n] \notin lows /\ s[n] \notin highs
    BY <1>2, <1>3
  <2>3. Len(Filter(s, lows)) < Len(s)
    BY <2>2, FilterShorter
  <2>4. Len(Filter(s, highs)) < Len(s)
    BY <2>2, FilterShorter
  <2>5. QED
    BY <2>1, <2>3, <2>4
<1>8. ASSUME NEW less, NEW greater, SortsTo(less, lo), SortsTo(greater, hi)
      PROVE  SortsTo((less \o Chunks(eq)) \o greater, s)
  <2>1. PICK o1, m1 : Pieces(less, o1, m1) /\ Sorted(m1) /\ Arranges(m1, lo, 1 .. Len(lo))
    BY <1>8 DEF SortsTo
  <2>2. PICK o3, m3 : Pieces(greater, o3, m3) /\ Sorted(m3) /\ Arranges(m3, hi, 1 .. Len(hi))
    BY <1>8 DEF SortsTo
  <2>3. PICK o2 : Pieces(Chunks(eq), o2, eq)
    BY <1>6, ChunksHold
  <2>4. m1 \in Seq(Int) /\ m3 \in Seq(Int) /\ Len(m1) \in Nat /\ Len(m3) \in Nat /\ Len(lo) \in Nat
        /\ Len(hi) \in Nat /\ Len(eq) \in Nat
    BY <1>6, <2>1, <2>2, LenProperties DEF Pieces, Cuts
  <2>5. Arranges(m1, s, X) /\ Arranges(m3, s, Z)
    <3>1. Arranges(m1, s, X)
      BY <1>6, <2>1, <2>4, ArrangeAgain
    <3>2. Arranges(m3, s, Z)
      BY <1>6, <2>2, <2>4, ArrangeAgain
    <3>3. QED
      BY <3>1, <3>2
  <2> DEFINE m12 == m1 \o eq
             m == m12 \o m3
             c12 == less \o Chunks(eq)
  <2>6. PICK o12 : Pieces(c12, o12, m12)
    BY <2>1, <2>3, PiecesJoin
  <2>7. m12 \in Seq(Int) /\ Arranges(m12, s, X \cup Y)
    <3>1. Arranges(m12, s, X \cup Y)
      BY <1>5, <1>6, <2>4, <2>5, ArrangeJoin
    <3>2. m12 \in Seq(Int)
      BY <1>6, <2>4
    <3>3. QED
      BY <3>1, <3>2
  <2>8. Sorted(eq) /\ \A i \in 1 .. Len(eq) : eq[i] = v
    <3>1. \A i \in 1 .. Len(eq) : eq[i] = v
      BY <1>4, <1>6, ArrangedAre
    <3>2. QED
      <4>1. ASSUME NEW i \in 1 .. Len(eq) - 1 PROVE eq[i] <= eq[i + 1]
        <5>1. i \in 1 .. Len(eq) /\ i + 1 \in 1 .. Len(eq)
          BY <2>4
        <5>2. eq[i] = v /\ eq[i + 1] = v
          BY <3>1, <5>1
        <5>3. QED
          BY <1>3, <5>2
      <4>2. QED
        BY <3>1, <4>1 DEF Sorted
  <2>9. Sorted(m12)
    <3>1. \A i \in 1 .. Len(m1) : m1[i] < v
      BY <1>4, <2>5, ArrangedAre
    <3>2. \A i \in 1 .. Len(m1) : m1[i] \in Int
      BY <2>4, ElementOfSeq
    <3>3. \A i \in 1 .. Len(m1) : \A j \in 1 .. Len(eq) : m1[i] <= eq[j]
      <4> TAKE i \in 1 .. Len(m1)
      <4> TAKE j \in 1 .. Len(eq)
      <4>1. m1[i] < v /\ m1[i] \in Int /\ eq[j] = v
        BY <2>8, <3>1, <3>2
      <4>2. QED
        BY <1>3, <4>1
    <3>4. QED
      BY <1>6, <2>1, <2>4, <2>8, <3>3, SortedJoin
  <2> HIDE DEF m12, c12
  <2>10. PICK o : Pieces(c12 \o greater, o, m)
    BY <2>2, <2>6, PiecesJoin
  <2>11. Arranges(m, s, 1 .. Len(s))
    <3>1. Arranges(m, s, (X \cup Y) \cup Z)
      BY <1>5, <2>4, <2>5, <2>7, ArrangeJoin
    <3>2. QED
      BY <1>5, <3>1
  <2>12. Sorted(m)
    <3>1. ASSUME NEW i \in 1 .. Len(m12) PROVE m12[i] <= v /\ m12[i] \in Int
      <4>1. PICK x \in X \cup Y : m12[i] = s[x]
        BY <2>7, ArrangedAre
      <4>2. QED
        BY <1>1, <1>3, <1>4, <4>1
    <3>2. ASSUME NEW i \in 1 .. Len(m3) PROVE m3[i] > v /\ m3[i] \in Int
      <4>1. PICK x \in Z : m3[i] = s[x]
        BY <2>5, ArrangedAre
      <4>2. QED
        BY <1>1, <1>3, <1>4, <4>1
    <3>3. \A i \in 1 .. Len(m12) : \A j \in 1 .. Len(m3) : m12[i] <= m3[j]
      <4> TAKE i \in 1 .. Len(m12)
      <4> TAKE j \in 1 .. Len(m3)
      <4>1. m12[i] <= v /\ m12[i] \in Int /\ m3[j] > v /\ m3[j] \in Int
        BY <3>1, <3>2
      <4>2. QED
        BY <1>3, <4>1
    <3>4. QED
      BY <2>2, <2>4, <2>7, <2>9, <3>3, SortedJoin
  <2> HIDE DEF m
  <2>13. SortsTo(c12 \o greater, s)
    BY <2>10, <2>11, <2>12 DEF SortsTo
  <2>14. QED
    BY <2>13 DEF c12
<1>9. QED
  BY <1>6, <1>7, <1>8

\* One more level of the sort, after levels that can leave f.
SortLevel(f) == [s \in Seq(Int) |-> IF Len(s) <= BlockSize THEN {Chunks(Ascending(s))} ELSE Around(s, f)]

\* What nodes hold before any level of the sort.
SortBase == [s \in Seq(Int) |-> {Chunks(s)}]

\* What nodes can hold, for every sequence.
NodeSets == [Seq(Int) -> SUBSET Seq(Seq(Int))]

\* The levels of the sort, up to n.
SortLevels(f, n) == f = [k \in 0 .. n |-> IF k = 0 THEN SortBase ELSE SortLevel(f[k - 1])]

\* Chunks are sequences of elements.
LEMMA ChunksType ==
  ASSUME NEW s \in Seq(Int)
  PROVE  Chunks(s) \in Seq(Seq(Int))
<1>1. PICK off : Pieces(Chunks(s), off, s)
  BY ChunksHold
<1>2. QED
  BY <1>1 DEF Pieces, Cuts

\* cs is made of one of A, of d and of one of B.
Joins3(cs, Up, d, B) == \E less \in Up, greater \in B : cs = (less \o d) \o greater

\* cs is what nodes around the element v of s can hold.
AroundAt(cs, s, f, v) == Joins3(cs, f[Filter(s, {e \in Range(s) : e < v})], Chunks(Filter(s, {v})),
                                f[Filter(s, {e \in Range(s) : e > v})])

\* What three lists of nodes hold, one after the other.
Combined(Up, d, B) == {less \o d \o greater : less \in Up, greater \in B}

\* What is combined of A, d and B comes from A and B.
LEMMA CombinedFrom ==
  ASSUME NEW Up, NEW d, NEW B, NEW cs \in Combined(Up, d, B)
  PROVE  Joins3(cs, Up, d, B)
BY DEF Combined, Joins3

\* What nodes around an element can hold comes from three lists around it.
LEMMA AroundFrom ==
  ASSUME NEW s, NEW f, NEW cs \in Around(s, f)
  PROVE  \E v \in Range(s) : AroundAt(cs, s, f, v)
<1> DEFINE Up(v) == f[Filter(s, {e \in Range(s) : e < v})]
           B(v) == f[Filter(s, {e \in Range(s) : e > v})]
           d(v) == Chunks(Filter(s, {v}))
           E(v) == Combined(Up(v), d(v), B(v))
<1>1. Around(s, f) = UNION {E(v) : v \in Range(s)}
  BY DEF Around, Combined
<1>2. PICK v \in Range(s) : cs \in E(v)
  <2> HIDE DEF E
  <2>1. QED
    BY <1>1
<1>3. Joins3(cs, Up(v), d(v), B(v))
  <2> DEFINE a == Up(v)
             b == B(v)
             c == d(v)
  <2>1. cs \in Combined(a, c, b)
    BY <1>2
  <2> HIDE DEF a, b, c
  <2>2. Joins3(cs, a, c, b)
    BY <2>1, CombinedFrom
  <2>3. QED
    BY <2>2 DEF a, b, c
<1>4. AroundAt(cs, s, f, v)
  BY <1>3 DEF AroundAt
<1>5. QED
  BY <1>4

\* The levels of the sort are well defined.
LEMMA LevelType ==
  ASSUME NEW f \in NodeSets
  PROVE  SortLevel(f) \in NodeSets
<1> SUFFICES ASSUME NEW s \in Seq(Int)
             PROVE  (IF Len(s) <= BlockSize THEN {Chunks(Ascending(s))} ELSE Around(s, f)) \in SUBSET Seq(Seq(Int))
  BY DEF NodeSets, SortLevel
<1>1. Chunks(Ascending(s)) \in Seq(Seq(Int))
  BY AscendingSorts, ChunksType
<1>2. ASSUME NEW cs \in Around(s, f) PROVE cs \in Seq(Seq(Int))
  <2>1. PICK v \in Range(s) : AroundAt(cs, s, f, v)
    BY AroundFrom
  <2> DEFINE lo == Filter(s, {e \in Range(s) : e < v})
             hi == Filter(s, {e \in Range(s) : e > v})
             eq == Filter(s, {v})
  <2>2. lo \in Seq(Int) /\ hi \in Seq(Int) /\ eq \in Seq(Int)
    <3>1. lo \in Seq(Int)
      BY FilterArranges
    <3>2. hi \in Seq(Int)
      BY FilterArranges
    <3>3. eq \in Seq(Int)
      BY FilterArranges
    <3>4. QED
      BY <3>1, <3>2, <3>3
  <2> HIDE DEF lo, hi, eq
  <2>3. PICK less \in f[lo], greater \in f[hi] : cs = (less \o Chunks(eq)) \o greater
    BY <2>1 DEF lo, hi, eq, AroundAt, Joins3
  <2>4. less \in Seq(Seq(Int)) /\ greater \in Seq(Seq(Int)) /\ Chunks(eq) \in Seq(Seq(Int))
    <3>1. f[lo] \in SUBSET Seq(Seq(Int)) /\ f[hi] \in SUBSET Seq(Seq(Int))
      BY <2>2 DEF NodeSets
    <3>2. Chunks(eq) \in Seq(Seq(Int))
      BY <2>2, ChunksType
    <3>3. QED
      BY <2>3, <3>1, <3>2
  <2> DEFINE T == Seq(Int)
             d == Chunks(eq)
  <2> HIDE DEF T, d
  <2>5. less \in Seq(T) /\ greater \in Seq(T) /\ d \in Seq(T)
    BY <2>4 DEF T, d
  <2>6. (less \o d) \o greater \in Seq(T)
    BY <2>5
  <2>7. QED
    BY <2>3, <2>6 DEF T, d
<1>3. QED
  BY <1>1, <1>2

\* There are such levels.
LEMMA LevelsExist ==
  ASSUME NEW n \in Nat
  PROVE  \E f : SortLevels(f, n)
<1> DEFINE H == [f \in NodeSets |-> SortLevel(f)]
<1>1. SortBase \in NodeSets
  BY ChunksType DEF SortBase, NodeSets
<1>2. H \in [NodeSets -> NodeSets]
  BY LevelType
<1>3. PICK g \in [0 .. n -> NodeSets] : Iterates(g, n, SortBase, H)
  <2> HIDE DEF H
  <2>1. QED
    BY <1>1, <1>2, IterateExists
<1>4. g = [k \in 0 .. n |-> IF k = 0 THEN SortBase ELSE H[g[k - 1]]]
  BY <1>3 DEF Iterates
<1>5. ASSUME NEW k \in 0 .. n, k # 0 PROVE H[g[k - 1]] = SortLevel(g[k - 1])
  <2>1. k - 1 \in 0 .. n
    BY <1>5
  <2>2. g[k - 1] \in NodeSets
    BY <2>1
  <2>3. QED
    BY <2>2
<1> HIDE DEF H
<1>6. [k \in 0 .. n |-> IF k = 0 THEN SortBase ELSE H[g[k - 1]]]
      = [k \in 0 .. n |-> IF k = 0 THEN SortBase ELSE SortLevel(g[k - 1])]
  BY <1>5
<1>7. QED
  BY <1>4, <1>6 DEF SortLevels

\* The n-th of the levels is what nodes made of n elements can hold.
LEMMA NodesOfLevels ==
  ASSUME NEW n \in Nat
  PROVE  \E f : SortLevels(f, n) /\ SortedNodes(n) = f[n]
<1> DEFINE Step(g) == [k \in 0 .. n |->
                         IF k = 0 THEN [s \in Seq(Int) |-> {Chunks(s)}]
                         ELSE [s \in Seq(Int) |-> IF Len(s) <= BlockSize THEN {Chunks(Ascending(s))}
                                                  ELSE Around(s, g[k - 1])]]
           f == CHOOSE g : g = Step(g)
<1>1. SortedNodes(n) = f[n]
  BY DEF SortedNodes
<1>2. \E g : g = Step(g)
  BY LevelsExist DEF SortLevels, SortLevel, SortBase
<1>3. f = Step(f)
  BY <1>2
<1> HIDE DEF f
<1>4. SortLevels(f, n)
  BY <1>3 DEF SortLevels, SortLevel, SortBase
<1>5. QED
  BY <1>1, <1>4

\* The nodes that the sort of n elements leaves hold them in ascending order.
SortsUpTo(f, k) == \A s \in Seq(Int) : Len(s) <= k => \A cs \in f[s] : SortsTo(cs, s)

\* In one level more, one element more.
LEMMA LevelSorts ==
  ASSUME NEW f, NEW k \in Nat, SortsUpTo(f, k)
  PROVE  SortsUpTo(SortLevel(f), k + 1)
<1> SUFFICES ASSUME NEW s \in Seq(Int), Len(s) <= k + 1, NEW cs \in SortLevel(f)[s]
             PROVE  SortsTo(cs, s)
  BY DEF SortsUpTo
<1>1. cs \in IF Len(s) <= BlockSize THEN {Chunks(Ascending(s))} ELSE Around(s, f)
  BY DEF SortLevel
<1>2. CASE Len(s) <= BlockSize
  <2>1. cs = Chunks(Ascending(s))
    BY <1>1, <1>2
  <2>2. /\ Ascending(s) \in Seq(Int) /\ Sorted(Ascending(s))
        /\ Arranges(Ascending(s), s, 1 .. Len(s))
    BY AscendingSorts
  <2>3. PICK off : Pieces(Chunks(Ascending(s)), off, Ascending(s))
    BY <2>2, ChunksHold
  <2>4. QED
    BY <2>1, <2>2, <2>3 DEF SortsTo
<1>3. CASE ~(Len(s) <= BlockSize)
  <2>1. cs \in Around(s, f)
    BY <1>1, <1>3
  <2>2. PICK v \in Range(s) : AroundAt(cs, s, f, v)
    BY <2>1, AroundFrom
  <2> DEFINE lo == Filter(s, {e \in Range(s) : e < v})
             hi == Filter(s, {e \in Range(s) : e > v})
             eq == Filter(s, {v})
  <2>3. /\ lo \in Seq(Int) /\ Len(lo) < Len(s) /\ hi \in Seq(Int) /\ Len(hi) < Len(s)
        /\ \A less, greater : SortsTo(less, lo) /\ SortsTo(greater, hi)
                => SortsTo((less \o Chunks(eq)) \o greater, s)
    BY AroundSorts
  <2> HIDE DEF lo, hi, eq
  <2>4. PICK less \in f[lo], greater \in f[hi] : cs = (less \o Chunks(eq)) \o greater
    BY <2>2 DEF lo, hi, eq, AroundAt, Joins3
  <2>5. Len(lo) <= k /\ Len(hi) <= k
    <3>1. Len(lo) \in Nat /\ Len(hi) \in Nat /\ Len(s) \in Nat
      BY <2>3, LenProperties
    <3>2. QED
      BY <2>3, <3>1
  <2>6. SortsTo(less, lo) /\ SortsTo(greater, hi)
    BY <2>3, <2>4, <2>5 DEF SortsUpTo
  <2>7. QED
    BY <2>3, <2>4, <2>6
<1>4. QED
  BY <1>2, <1>3

\* However the elements are drawn, the nodes hold the elements in order.
LEMMA NodesSort ==
  ASSUME NEW n \in Nat
  PROVE  SortsUpTo(SortedNodes(n), n)
<1>1. PICK f : SortLevels(f, n) /\ SortedNodes(n) = f[n]
  BY NodesOfLevels
<1>2. f[0] = SortBase /\ \A k \in 1 .. n : f[k] = SortLevel(f[k - 1])
  <2>1. f = [k \in 0 .. n |-> IF k = 0 THEN SortBase ELSE SortLevel(f[k - 1])]
    BY <1>1 DEF SortLevels
  <2>2. \A k \in 0 .. n : f[k] = IF k = 0 THEN SortBase ELSE SortLevel(f[k - 1])
    BY <2>1
  <2>3. 0 \in 0 .. n /\ \A k \in 1 .. n : k \in 0 .. n /\ k # 0
    OBVIOUS
  <2>4. QED
    BY <2>2, <2>3
<1> DEFINE Up == {k \in 0 .. n : SortsUpTo(f[k], k)}
<1>3. 0 \in Up
  <2>1. ASSUME NEW s \in Seq(Int), Len(s) <= 0, NEW cs \in SortBase[s] PROVE SortsTo(cs, s)
    <3>1. cs = Chunks(s) /\ Len(s) = 0
      BY <2>1, LenProperties DEF SortBase
    <3>2. PICK off : Pieces(Chunks(s), off, s)
      BY ChunksHold
    <3>3. Sorted(s)
      BY <3>1 DEF Sorted
    <3>4. Arranges(s, s, 1 .. Len(s))
      <4>1. ArrangedBy(s, s, 1 .. Len(s), [i \in 1 .. Len(s) |-> i])
        BY DEF ArrangedBy
      <4>2. QED
        BY <4>1 DEF Arranges
    <3>5. QED
      BY <3>1, <3>2, <3>3, <3>4 DEF SortsTo
  <2>2. SortsUpTo(f[0], 0)
    BY <1>2, <2>1 DEF SortsUpTo
  <2>3. QED
    BY <2>2
<1>4. ASSUME NEW k \in 1 .. n, k - 1 \in Up PROVE k \in Up
  <2>1. k - 1 \in Nat /\ SortsUpTo(f[k - 1], k - 1)
    BY <1>4
  <2> DEFINE j == k - 1
  <2>2. j + 1 = k /\ f[k] = SortLevel(f[j])
    BY <1>2
  <2> HIDE DEF j
  <2>3. SortsUpTo(SortLevel(f[j]), j + 1)
    BY <2>1, LevelSorts DEF j
  <2>4. SortsUpTo(f[k], k)
    BY <2>2, <2>3
  <2>5. QED
    BY <2>4
<1>5. n \in Up
  <2>1. n \in 0 .. n
    OBVIOUS
  <2> HIDE DEF Up
  <2>2. \A k \in 0 .. n : k \in Up
    BY <1>3, <1>4, UpInduction
  <2>3. QED
    BY <2>1, <2>2
<1>6. QED
  BY <1>1, <1>5

\* r has the entries of s in ascending order.
Reorders(r, s) ==
    /\ Sorted(r)
    /\ \E order \in Bijection(DOMAIN s, DOMAIN s) : r = [i \in DOMAIN s |-> s[order[i]]]

\* An arrangement of all entries is as long, and reorders them.
LEMMA ArrangedAll ==
  ASSUME NEW r \in Seq(Int), NEW s \in Seq(Int), Sorted(r), Arranges(r, s, 1 .. Len(s))
  PROVE  Len(r) = Len(s) /\ Reorders(r, s)
<1>1. PICK g : ArrangedBy(r, s, 1 .. Len(s), g)
  BY DEF Arranges
<1> DEFINE Up == 1 .. Len(r)
           D == 1 .. Len(s)
<1>2. Len(r) \in Nat /\ Len(s) \in Nat /\ DOMAIN s = D /\ DOMAIN r = Up
  BY LenProperties
<1>3. /\ g \in [Up -> D]
      /\ \A i, j \in Up : g[i] = g[j] => i = j
      /\ \A x \in D : \E i \in Up : g[i] = x
      /\ \A i \in Up : r[i] = s[g[i]]
  BY <1>1 DEF ArrangedBy
<1>4. IsFiniteSet(Up) /\ Cardinality(Up) = Len(r) /\ Cardinality(D) = Len(s)
  BY <1>2, IntervalSize
<1> HIDE DEF D
<1>5. g \in Bijection(Up, D)
  <2> HIDE DEF Up
  <2>1. QED
    BY <1>3 DEF Bijection, Injection, Surjection, IsInjective
<1>6. Len(r) = Len(s)
  <2> HIDE DEF Up
  <2>1. ExistsBijection(Up, D)
    BY <1>5 DEF ExistsBijection
  <2>2. QED
    BY <1>4, <2>1, FS_Bijection
<1>7. Up = D
  BY <1>6 DEF D
<1>8. r = [i \in D |-> s[g[i]]]
  <2>1. r \in [Up -> Int]
    BY SeqDef, <1>2
  <2> HIDE DEF Up
  <2>2. QED
    BY <1>3, <1>7, <2>1
<1>9. QED
  BY <1>2, <1>5, <1>6, <1>7, <1>8 DEF Reorders

\* A sorted sequence reorders itself.
LEMMA SortedReorders ==
  ASSUME NEW s \in Seq(Int), Sorted(s)
  PROVE  Reorders(s, s)
<1>1. ArrangedBy(s, s, 1 .. Len(s), [i \in 1 .. Len(s) |-> i])
  BY DEF ArrangedBy
<1>2. Arranges(s, s, 1 .. Len(s))
  BY <1>1 DEF Arranges
<1>3. QED
  BY <1>2, ArrangedAll

\* The header of a list sorted into new nodes.
LEMMA SortedHeader ==
  ASSUME NEW L \in Header, NEW a \in Nat, NEW b \in Nat
  PROVE  Fields([Forget(L) EXCEPT !.head = a, !.tail = b], a, b, L.n)
<1> DEFINE F == Forget(L)
           G == [F EXCEPT !.head = a, !.tail = b]
<1>1. /\ F \in Header /\ F.n = L.n /\ F.last = NULL /\ F.lastn = 0
  BY ForgetIs
<1>3. L.n \in Nat
  BY HeaderTypes
<1> HIDE DEF F
<1>5. Fields(G, a, b, L.n)
  BY <1>1, <1>3 DEF Fields, Header, NULL
<1> HIDE DEF G
<1>6. QED
  BY <1>5 DEF G, F

\* New nodes take the place of those of a list.
LEMMA LinkedReplaces ==
  ASSUME NEW w, NEW B, \A p : p \in B <=> In(p, w), IsFiniteSet(DOMAIN heap),
         NEW h, h = Free(heap, B),
         NEW ps, NEW cs, ps \in Seq(Nat \ {0}), Len(ps) = Len(cs), Len(ps) \in Nat, Distinct(ps),
         \A i \in 1 .. Len(ps) : ps[i] \notin DOMAIN h,
         NEW h2, h2 = Linked(h, ps, cs)
  PROVE  Replaced(heap, w, ps, cs, h2)
<1>1. /\ \A p : p \in DOMAIN h <=> p \in DOMAIN heap /\ ~In(p, w)
      /\ \A p \in DOMAIN h : h[p] = heap[p]
  BY DEF Free
<1>2. DOMAIN ps = 1 .. Len(ps) /\ \A p : p \in Range(ps) <=> In(p, ps)
  BY LenProperties DEF Range, In
<1>3. DOMAIN h2 = DOMAIN h \cup Range(ps)
  BY DEF Linked
<1>4. ASSUME NEW p \in DOMAIN h PROVE h2[p] = h[p]
  BY <1>4 DEF Linked
<1>5. ASSUME NEW a \in 1 .. Len(ps) PROVE h2[ps[a]] = [items |-> cs[a], next |-> Follow(ps, a)]
  <2> DEFINE p == ps[a]
             k == CHOOSE j \in DOMAIN ps : ps[j] = p
  <2>1. p \in Range(ps) /\ p \notin DOMAIN h
    BY <1>2 DEF Range
  <2>2. h2[p] = [items |-> cs[k], next |-> IF k = Len(ps) THEN NULL ELSE ps[k + 1]]
    BY <2>1 DEF Linked
  <2>3. k \in 1 .. Len(ps) /\ ps[k] = p
    BY <1>2
  <2>4. k = a
    BY <2>3 DEF Distinct
  <2> HIDE DEF k
  <2>5. (IF a = Len(ps) THEN NULL ELSE ps[a + 1]) = Follow(ps, a)
    BY DEF Follow
  <2>6. QED
    BY <2>2, <2>4, <2>5
<1>6. IsFiniteSet(DOMAIN h2)
  <2>1. IsFiniteSet(DOMAIN h)
    <3>1. DOMAIN h \subseteq DOMAIN heap
      BY <1>1
    <3>2. QED
      BY <3>1, FS_Subset
  <2>2. IsFiniteSet(Range(ps))
    <3>1. IsFiniteSet(1 .. Len(ps))
      BY IntervalSize
    <3> DEFINE I == 1 .. Len(ps)
               R == Range(ps)
               g == [i \in I |-> ps[i]]
    <3>2. /\ \A i \in I : g[i] = ps[i] /\ ps[i] \in R
          /\ \A p \in R : \E i \in I : ps[i] = p
      BY <1>2 DEF Range
    <3>3. \A i, j \in I : ps[i] = ps[j] => i = j
      BY DEF Distinct
    <3>4. g \in [I -> R]
      BY <3>2
    <3> HIDE DEF I, R, g
    <3>5. g \in Bijection(I, R)
      BY <3>2, <3>3, <3>4 DEF Bijection, Injection, Surjection, IsInjective
    <3>6. ExistsBijection(I, R)
      BY <3>5 DEF ExistsBijection
    <3>7. IsFiniteSet(I)
      BY <3>1 DEF I
    <3>8. IsFiniteSet(R)
      BY <3>6, <3>7, FS_Bijection
    <3>9. QED
      BY <3>8 DEF R
  <2> DEFINE U == DOMAIN h
             V == Range(ps)
  <2>3. IsFiniteSet(U \cup V)
    <3> HIDE DEF U, V
    <3>1. IsFiniteSet(U) /\ IsFiniteSet(V)
      BY <2>1, <2>2 DEF U, V
    <3>2. QED
      BY <3>1, FS_Union
  <2>4. QED
    BY <1>3, <2>3
<1>7. \A a \in 1 .. Len(ps) : ps[a] \notin DOMAIN heap \/ In(ps[a], w)
  BY <1>1
<1>8. \A p : p \in DOMAIN h2 <=> In(p, ps) \/ (p \in DOMAIN heap /\ ~In(p, w))
  BY <1>1, <1>2, <1>3
<1>9. \A p \in DOMAIN heap : ~In(p, ps) /\ ~In(p, w) => h2[p] = heap[p]
  BY <1>1, <1>4
<1>10. QED
  BY <1>5, <1>6, <1>7, <1>8, <1>9 DEF Replaced

\* A list of at most one element is sorted.
LEMMA ShortSorted ==
  ASSUME NEW s \in Seq(Int), Len(s) <= 1
  PROVE  Sorted(s)
<1>1. Len(s) \in Nat
  OBVIOUS
<1>2. QED
  BY <1>1 DEF Sorted

\* A list whose head is its tail has one node.
LEMMA OneNodeHolds ==
  ASSUME NEW L, NEW h, NEW w, NEW cs, NEW off, NEW s, Right(L, h, w, cs, off, s),
         L.head = L.tail, Len(s) > 1
  PROVE  Len(w) = 1 /\ cs[1] = s /\ w[1] = L.head
<1> DEFINE N == Len(w)
<1>1. /\ N \in Nat /\ Len(s) \in Nat /\ Len(cs) = N /\ off[0] = 0 /\ off[N] = Len(s) /\ cs \in Seq(Seq(Int))
      /\ s \in Seq(Int)
  BY ListFacts
<1>2. L.head = Follow(w, 0) /\ L.tail = TailOf(w) /\ Distinct(w)
  BY DEF Right, Links, Distinct
<1>3. N > 0
  BY <1>1
<1>4. w[1] = w[N] /\ L.head = w[1]
  <2>1. Follow(w, 0) = w[0 + 1]
    BY <1>3 DEF Follow
  <2>2. TailOf(w) = w[N]
    BY <1>1, <1>3 DEF TailOf
  <2>3. 0 + 1 = 1
    OBVIOUS
  <2>4. L.head = w[0 + 1] /\ L.tail = w[N] /\ L.head = L.tail
    BY <1>2, <2>1, <2>2, Zenon
  <2> HIDE DEF N
  <2>5. QED
    BY <2>3, <2>4, Zenon
<1>5. N = 1
  <2> HIDE DEF N
  <2>1. 1 \in 1 .. N /\ N \in 1 .. N
    BY <1>1, <1>3
  <2>2. QED
    BY <1>2, <1>4, <2>1 DEF Distinct, N
<1>6. NodeAt(h, w, cs, off, s, 1)
  <2>1. 1 \in 1 .. Len(w)
    BY <1>5
  <2>2. QED
    BY <2>1, NodeFacts
<1>7. off[1] = off[1 - 1] + Len(cs[1]) /\ SameFrom(s, off[1 - 1], cs[1]) /\ cs[1] \in Seq(Int) /\ Len(cs[1]) \in Nat
  BY <1>6 DEF NodeAt
<1>8. Len(cs[1]) = Len(s) /\ SameFrom(s, 0, cs[1])
  BY <1>1, <1>5, <1>7
<1>9. cs[1] = s
  <2> DEFINE c == cs[1]
  <2>1. c \in Seq(Int) /\ Len(c) = Len(s) /\ \A i \in 1 .. Len(c) : s[0 + i] = c[i]
    BY <1>7, <1>8 DEF SameFrom
  <2> HIDE DEF c
  <2>2. \A i \in 1 .. Len(c) : s[i] = c[i]
    BY <1>1, <2>1
  <2>3. c = s
    BY <1>1, <2>1, <2>2, SMTT(20)
  <2>4. QED
    BY <2>3 DEF c
<1>10. QED
  BY <1>4, <1>5, <1>9

\* A list of one node is sorted in place.
LEMMA SortInPlace ==
  ASSUME NEW S, NEW ns, NEW cs, NEW off, Layout(heap, lists, S, ns, cs, off), NEW l \in Lists,
         lists[l].head = lists[l].tail, Len(S[l]) > 1,
         NEW h2, h2 = [heap EXCEPT ![lists[l].head].items = Ascending(@)]
  PROVE  Sound(h2, [lists EXCEPT ![l] = Cached(lists[l], <<lists[l].head, 0>>)], [S EXCEPT ![l] = Ascending(S[l])])
<1> DEFINE L == lists[l]
           w == ns[l]
           s == S[l]
           p == L.head
           c == Ascending(s)
           L2 == Cached(L, <<p, 0>>)
<1>1. Right(L, heap, w, cs[l], off[l], s) /\ L \in Header
  BY DEF Layout, Right
<1>2. Len(w) = 1 /\ cs[l][1] = s /\ w[1] = p
  BY <1>1, OneNodeHolds
<1>3. NodeAt(heap, w, cs[l], off[l], s, 1)
  BY <1>1, <1>2, NodeFacts
<1>4. /\ p \in DOMAIN heap /\ heap[p] = [items |-> s, next |-> Follow(w, 1)] /\ heap[p].items = s
      /\ Len(s) \in 1 .. BlockSize /\ p \in Nat
  BY <1>2, <1>3 DEF NodeAt
<1>5. /\ Len(s) \in Nat /\ s \in Seq(Int) /\ off[l][0] = 0 /\ off[l][1] = Len(s) /\ L.n = Len(s)
  <2>1. /\ Len(s) \in Nat /\ s \in Seq(Int) /\ off[l][0] = 0 /\ off[l][Len(w)] = Len(s) /\ L.n = Len(s)
    BY <1>1, ListFacts
  <2>2. QED
    BY <1>2, <2>1
<1>6. c \in Seq(Int) /\ Len(c) = Len(s)
  BY <1>5, AscendingSorts
<1>7. Edited(heap, p, c, Follow(w, 1), [heap EXCEPT ![p].items = c])
  BY <1>4, ItemsExcept
<1>8. h2 = [heap EXCEPT ![p].items = c]
  BY <1>4
<1>9. Edited(heap, w[1], c, Follow(w, 1), h2)
  BY <1>2, <1>7, <1>8
<1>10. /\ L2 \in Header /\ L2.head = L.head /\ L2.last = p /\ L2.lastn = 0 /\ L2.tail = L.tail /\ L2.n = L.n
  <2> HIDE DEF p, L
  <2>1. L \in Header /\ p \in Nat
    BY <1>1, <1>4
  <2>2. QED
    BY <2>1 DEF Cached, Header
<1>11. Kept(L2, L, w, off[l], 1)
  <2>1. 1 \in 1 .. 1 /\ p = w[1] /\ 0 = off[l][1 - 1]
    BY <1>2, <1>5
  <2> HIDE DEF L2, L, p, w
  <2>2. QED
    BY <1>10, <2>1 DEF Kept
<1>12. Splice(s, off[l][1 - 1], off[l][1], c) = c
  BY <1>5, <1>6, SpliceAll
<1>13. L2.n = off[l][1 - 1] + Len(c) + (Len(s) - off[l][1])
  BY <1>5, <1>6, <1>10
<1>14. 1 \in 1 .. Len(w) /\ Len(c) \in 1 .. BlockSize
  BY <1>2, <1>4, <1>6
<1> DEFINE k == 1
<1>15. /\ k \in 1 .. Len(w) /\ Edited(heap, w[k], c, Follow(w, k), h2) /\ Kept(L2, L, w, off[l], k)
       /\ L2.n = off[l][k - 1] + Len(c) + (Len(s) - off[l][k])
       /\ Splice(s, off[l][k - 1], off[l][k], c) = c
  BY <1>9, <1>11, <1>12, <1>13, <1>14
<1> HIDE DEF L2, c, k
<1>16. Sound(h2, [lists EXCEPT ![l] = L2], [S EXCEPT ![l] = Splice(s, off[l][k - 1], off[l][k], c)])
  BY <1>6, <1>10, <1>14, <1>15, WriteNode
<1>17. QED
  BY <1>15, <1>16 DEF c, L2

\* What the sort of at least one element into new nodes leaves holds it in order.
LEMMA AroundIsSorted ==
  ASSUME NEW s \in Seq(Int), NEW x \in Around(s, SortedNodes(Len(s)))
  PROVE  SortsTo(x, s)
<1> DEFINE f == SortedNodes(Len(s))
<1>1. SortsUpTo(f, Len(s)) /\ Len(s) \in Nat
  BY NodesSort
<1> HIDE DEF f
<1>2. PICK v \in Range(s) : AroundAt(x, s, f, v)
  BY AroundFrom DEF f
<1> DEFINE lo == Filter(s, {e \in Range(s) : e < v})
           hi == Filter(s, {e \in Range(s) : e > v})
           eq == Filter(s, {v})
<1>3. /\ lo \in Seq(Int) /\ Len(lo) < Len(s) /\ hi \in Seq(Int) /\ Len(hi) < Len(s)
      /\ \A less, greater : SortsTo(less, lo) /\ SortsTo(greater, hi)
             => SortsTo((less \o Chunks(eq)) \o greater, s)
  BY AroundSorts
<1>4. Joins3(x, f[lo], Chunks(eq), f[hi])
  BY <1>2 DEF AroundAt
<1> HIDE DEF lo, hi, eq
<1>5. PICK less \in f[lo], greater \in f[hi] : x = (less \o Chunks(eq)) \o greater
  BY <1>4 DEF Joins3
<1>6. Len(lo) <= Len(s) /\ Len(hi) <= Len(s)
  BY <1>1, <1>3
<1>7. SortsTo(less, lo) /\ SortsTo(greater, hi)
  BY <1>1, <1>3, <1>5, <1>6 DEF SortsUpTo
<1>8. QED
  BY <1>3, <1>5, <1>7

\* The ends of a sequence of nodes.
LEMMA NodeSeqEnds ==
  ASSUME NEW ps \in Seq(Nat \ {0}), Len(ps) > 0
  PROVE  /\ Head(ps) = Follow(ps, 0) /\ Last(ps) = TailOf(ps) /\ Head(ps) \in Nat /\ Last(ps) \in Nat
<1>1. Len(ps) \in Nat /\ 1 \in 1 .. Len(ps) /\ Len(ps) \in 1 .. Len(ps)
  OBVIOUS
<1>2. Head(ps) = ps[1] /\ Last(ps) = ps[Len(ps)]
  BY <1>1 DEF Last
<1>3. Follow(ps, 0) = ps[0 + 1] /\ TailOf(ps) = ps[Len(ps)] /\ 0 + 1 = 1
  BY <1>1 DEF Follow, TailOf
<1>4. ps[1] \in Nat /\ ps[Len(ps)] \in Nat
  BY <1>1, ElementOfSeq
<1>5. QED
  BY <1>2, <1>3, <1>4

\* The sort into new nodes: the old ones are freed.
LEMMA SortNewNodes ==
  ASSUME NEW S, NEW ns, NEW cs, NEW off, Layout(heap, lists, S, ns, cs, off), NEW l \in Lists,
         NEW x, SortsTo(x, S[l]), Len(S[l]) > 0,
         NEW h, h = Free(heap, Range(ns[l])),
         NEW ps, ps = SubSeq(Memory(h, Len(x)), 1, Len(x)),
         NEW L2, L2 = [Forget(lists[l]) EXCEPT !.head = Head(ps), !.tail = Last(ps)]
  PROVE  \E m : /\ Sound(Linked(h, ps, x), [lists EXCEPT ![l] = L2], [S EXCEPT ![l] = m])
                /\ Reorders(m, S[l])
<1> DEFINE w == ns[l]
           s == S[l]
           h2 == Linked(h, ps, x)
<1>1. Right(lists[l], heap, w, cs[l], off[l], s) /\ lists[l] \in Header /\ IsFiniteSet(DOMAIN heap)
  BY DEF Layout, Right
<1>2. s \in Seq(Int) /\ Len(s) \in Nat /\ lists[l].n = Len(s)
  BY <1>1, ListFacts
<1>3. \A p : p \in Range(w) <=> In(p, w)
  BY HeadNodes
<1>4. PICK o, m : Pieces(x, o, m) /\ Sorted(m) /\ Arranges(m, s, 1 .. Len(s))
  BY DEF SortsTo
<1>5. /\ m \in Seq(Int) /\ Len(m) = o[Len(x)] /\ x \in Seq(Seq(Int)) /\ o[0] = 0
  BY <1>4 DEF Pieces, Cuts
<1>6. Len(m) = Len(s) /\ Reorders(m, s)
  BY <1>2, <1>4, <1>5, ArrangedAll
<1>7. Len(x) \in Nat /\ Len(x) > 0
  <2>1. Len(x) \in Nat
    BY <1>5
  <2>2. Len(x) # 0
    <3>1. SUFFICES ASSUME Len(x) = 0 PROVE FALSE
      OBVIOUS
    <3>2. Len(s) = o[0]
      BY <1>5, <1>6, <3>1, Zenon
    <3>3. QED
      BY <1>2, <1>5, <3>2
  <2>3. QED
    BY <2>1, <2>2
<1>8. IsFiniteSet(DOMAIN h)
  <2>1. DOMAIN h \subseteq DOMAIN heap
    BY DEF Free
  <2>2. QED
    BY <1>1, <2>1, FS_Subset
<1>9. /\ ps \in Seq(Nat \ {0}) /\ Len(ps) = Len(x) /\ Distinct(ps) /\ Len(ps) \in Nat
      /\ \A i \in 1 .. Len(ps) : ps[i] \notin DOMAIN h
  BY <1>7, <1>8, MemoryFresh
<1> HIDE DEF w, s, h2
<1>10. Replaced(heap, w, ps, x, h2)
  <2> DEFINE B == Range(w)
  <2>1. h = Free(heap, B) /\ \A p : p \in B <=> In(p, w)
    BY <1>3 DEF w
  <2> HIDE DEF B
  <2>2. QED
    BY <1>1, <1>9, <2>1, LinkedReplaces DEF h2
<1>11. /\ Head(ps) = Follow(ps, 0) /\ Last(ps) = TailOf(ps) /\ Head(ps) \in Nat /\ Last(ps) \in Nat
  BY <1>7, <1>9, NodeSeqEnds
<1>12. Fields(L2, Head(ps), Last(ps), lists[l].n)
  BY <1>1, <1>11, SortedHeader
<1>13. HeadsAll(L2, ps, m)
  BY <1>2, <1>6, <1>11, <1>12 DEF HeadsAll, Fields
<1>14. Sound(h2, [lists EXCEPT ![l] = L2], [S EXCEPT ![l] = m])
  BY <1>4, <1>10, <1>13, WholeList DEF w
<1>15. QED
  BY <1>6, <1>14 DEF h2, s

\* bl_sort reorders the elements, in ascending order.
LEMMA SortSound ==
  ASSUME NEW S, NEW ns, NEW cs, NEW off, Layout(heap, lists, S, ns, cs, off), NEW l \in Lists, BlSort(l)
  PROVE  /\ \E m : Sound(heap', lists', [S EXCEPT ![l] = m]) /\ Reorders(m, S[l])
         /\ result' = <<>>
<1> DEFINE L == lists[l]
           s == S[l]
           h == Free(heap, Range(Nodes(heap, L.head)))
<1>1. Right(L, heap, ns[l], cs[l], off[l], s) /\ S \in [Lists -> Seq(Int)]
  BY DEF Layout
<1>2. s \in Seq(Int) /\ Len(s) \in Nat /\ L.n = Len(s)
  BY <1>1, ListFacts
<1>3. Nodes(heap, L.head) = ns[l] /\ Items(heap, L.head) = s
  BY HeadNodes
<1>4. Elements(l) = s
  BY <1>3 DEF Elements
<1>5. /\ result' = <<>>
      /\ IF L.n <= 1 THEN UNCHANGED <<heap, lists>>
         ELSE IF L.head = L.tail
         THEN Become(l, <<Cached(L, <<L.head, 0>>), [heap EXCEPT ![L.head].items = Ascending(@)]>>)
         ELSE \E x \in Around(Elements(l), SortedNodes(L.n)) :
                  LET ps == SubSeq(Memory(h, Len(x)), 1, Len(x)) IN
                  Become(l, <<[Forget(L) EXCEPT !.head = Head(ps), !.tail = Last(ps)], Linked(h, ps, x)>>)
  BY DEF BlSort
<1> SUFFICES \E m : Sound(heap', lists', [S EXCEPT ![l] = m]) /\ Reorders(m, s)
  BY <1>5
<1> HIDE DEF h
<1>6. CASE L.n <= 1
  <2>1. heap' = heap /\ lists' = lists
    BY <1>5, <1>6
  <2>2. Sorted(s)
    BY <1>2, <1>6, ShortSorted
  <2>3. Reorders(s, s)
    BY <1>2, <2>2, SortedReorders
  <2>4. Sound(heap, lists, S) /\ [S EXCEPT ![l] = s] = S
    BY <1>1, SameSeqs DEF Sound
  <2>5. QED
    BY <2>1, <2>3, <2>4
<1>7. CASE L.n > 1 /\ L.head = L.tail
  <2> DEFINE L2 == Cached(L, <<L.head, 0>>)
             h2 == [heap EXCEPT ![L.head].items = Ascending(@)]
             m == Ascending(s)
  <2>1. Become(l, <<L2, h2>>)
    BY <1>2, <1>5, <1>7
  <2>2. Sound(h2, [lists EXCEPT ![l] = L2], [S EXCEPT ![l] = m])
    BY <1>2, <1>7, SortInPlace
  <2>3. Reorders(m, s)
    BY <1>2, AscendingSorts, ArrangedAll
  <2> HIDE DEF L2, h2, m
  <2>4. Sound(heap', lists', [S EXCEPT ![l] = m])
    BY <2>1, <2>2, BecomesPair
  <2>5. QED
    BY <2>3, <2>4
<1>8. CASE L.n > 1 /\ L.head # L.tail
  <2>1. PICK x \in Around(s, SortedNodes(L.n)) :
            LET ps == SubSeq(Memory(h, Len(x)), 1, Len(x)) IN
            Become(l, <<[Forget(L) EXCEPT !.head = Head(ps), !.tail = Last(ps)], Linked(h, ps, x)>>)
    <3>1. ~(L.n <= 1)
      BY <1>2, <1>8
    <3> HIDE DEF L
    <3>2. QED
      BY <1>4, <1>5, <1>8, <3>1
  <2> DEFINE ps == SubSeq(Memory(h, Len(x)), 1, Len(x))
             L2 == [Forget(L) EXCEPT !.head = Head(ps), !.tail = Last(ps)]
             h2 == Linked(h, ps, x)
  <2>2. Become(l, <<L2, h2>>)
    BY <2>1
  <2>3. SortsTo(x, s)
    BY <1>2, <2>1, AroundIsSorted
  <2>4. h = Free(heap, Range(ns[l])) /\ Len(s) > 0
    BY <1>2, <1>3, <1>8 DEF h
  <2>5. PICK m : Sound(h2, [lists EXCEPT ![l] = L2], [S EXCEPT ![l] = m]) /\ Reorders(m, s)
    <3> HIDE DEF ps, L2
    <3>1. ps = SubSeq(Memory(h, Len(x)), 1, Len(x)) /\ L2 = [Forget(L) EXCEPT !.head = Head(ps), !.tail = Last(ps)]
      BY DEF ps, L2
    <3>2. QED
      BY <2>3, <2>4, <3>1, SortNewNodes
  <2> HIDE DEF L2, h2
  <2>6. Sound(heap', lists', [S EXCEPT ![l] = m])
    BY <2>2, <2>5, BecomesPair
  <2>7. QED
    BY <2>5, <2>6
<1>9. L.n <= 1 \/ L.n > 1
  <2> HIDE DEF L, s
  <2>1. QED
    BY <1>2
<1>10. QED
  BY <1>6, <1>7, <1>8, <1>9

\* The elements of every list.
Seqs == [l \in Lists |-> Elements(l)]

\* The nodes, the ends, the counts and the shortcut of each list fit its elements.
Inv == Sound(heap, lists, Seqs)

-----------------------------------------------------------------------------
(* The inductive invariant *)

\* What lists hold is what going along their nodes finds.
LEMMA SoundNow ==
  ASSUME NEW h, NEW ls, NEW S, Sound(h, ls, S)
  PROVE  S = [l \in Lists |-> Items(h, ls[l].head)]
<1>1. PICK ns, cs, off : Layout(h, ls, S, ns, cs, off)
  BY DEF Sound
<1>2. S \in [Lists -> Seq(Int)]
  BY <1>1 DEF Layout
<1>3. \A l \in Lists : Items(h, ls[l].head) = S[l]
  BY <1>1, HeadNodes
<1>4. QED
  BY <1>2, <1>3

\* After a step that leaves S2 in the lists.
LEMMA Moved ==
  ASSUME NEW S2, Sound(heap', lists', S2)
  PROVE  Inv' /\ Seqs' = S2
<1>1. S2 = [l \in Lists |-> Items(heap', lists'[l].head)]
  BY SoundNow
<1>2. Seqs' = S2
  BY <1>1 DEF Seqs, Elements
<1>3. Sound(heap', lists', Seqs')
  BY <1>2
<1>4. QED
  BY <1>2, <1>3 DEF Inv

\* At first the lists are empty.
LEMMA InitEmpty ==
  ASSUME Init
  PROVE  Sound(heap, lists, [l \in Lists |-> <<>>])
<1> DEFINE S == [l \in Lists |-> <<>>]
           o == [l \in Lists |-> NoOffset]
<1>2. heap = <<>> /\ lists = [l \in Lists |-> Empty]
  BY DEF Init
<1>3. DOMAIN heap = {}
  BY <1>2
<1>4. IsFiniteSet(DOMAIN heap)
  BY <1>3, FS_EmptySet
<1>5. Right(Empty, heap, <<>>, <<>>, NoOffset, <<>>) /\ \A p : ~In(p, <<>>)
  BY EmptyIs, EmptyRight
<1>6. lists \in [Lists -> Header] /\ S \in [Lists -> Seq(Int)]
  BY <1>2, EmptyIs
<1>7. \A l \in Lists : Right(lists[l], heap, S[l], S[l], o[l], S[l]) /\ \A p : ~In(p, S[l])
  BY <1>2, <1>5
<1> HIDE DEF S, o
<1>8. Layout(heap, lists, S, S, S, o)
  BY <1>3, <1>4, <1>6, <1>7 DEF Layout
<1>9. Sound(heap, lists, S)
  BY <1>8 DEF Sound
<1>10. QED
  BY <1>9 DEF S

\* So the invariant holds at first.
LEMMA InitInv == Init => Inv
<1>1. SUFFICES ASSUME Init PROVE Inv
  OBVIOUS
<1>2. Sound(heap, lists, [l \in Lists |-> <<>>])
  BY <1>1, InitEmpty
<1>3. Seqs = [l \in Lists |-> <<>>]
  BY <1>2, SoundNow DEF Seqs, Elements
<1>4. QED
  BY <1>2, <1>3 DEF Inv

\* The nodes of the lists are as bl_check_consistency asks.
LEMMA InvConsistent == Inv => Consistent
<1>1. SUFFICES ASSUME Inv PROVE Consistent
  OBVIOUS
<1>2. PICK ns, cs, off : Layout(heap, lists, Seqs, ns, cs, off)
  BY <1>1 DEF Inv, Sound
<1>3. \A l \in Lists : /\ Nodes(heap, lists[l].head) = ns[l] /\ Skipped(heap, ns[l]) = off[l]
                       /\ \A p : p \in Range(ns[l]) <=> In(p, ns[l])
  BY <1>2, HeadNodes
<1>4. \A l \in Lists : Right(lists[l], heap, ns[l], cs[l], off[l], Seqs[l])
  BY <1>2 DEF Layout
<1>5. ASSUME NEW l \in Lists
      PROVE  /\ lists[l].tail = IF ns[l] = <<>> THEN NULL ELSE Last(ns[l])
             /\ lists[l].n = off[l][Len(ns[l])]
  <2> DEFINE w == ns[l]
  <2>1. /\ w \in Seq(Nat \ {0}) /\ Len(w) \in Nat /\ off[l][Len(w)] = Len(Seqs[l]) /\ lists[l].n = Len(Seqs[l])
    BY <1>4, ListFacts
  <2>2. lists[l].tail = TailOf(w)
    BY <1>4 DEF Right
  <2> HIDE DEF w
  <2>3. TailOf(w) = IF w = <<>> THEN NULL ELSE Last(w)
    <3>1. w = <<>> <=> Len(w) = 0
      BY <2>1
    <3>2. QED
      BY <3>1 DEF TailOf, Last
  <2>4. QED
    BY <2>1, <2>2, <2>3 DEF w
<1>6. ASSUME NEW l \in Lists, NEW p, In(p, ns[l])
      PROVE  Len(heap[p].items) \in 1 .. BlockSize
  <2>1. PICK k \in 1 .. Len(ns[l]) : ns[l][k] = p
    BY <1>6 DEF In
  <2>2. NodeAt(heap, ns[l], cs[l], off[l], Seqs[l], k)
    BY <1>4, NodeFacts
  <2>3. QED
    BY <2>1, <2>2 DEF NodeAt
<1>7. \A p \in DOMAIN heap : \E l \in Lists : In(p, ns[l])
  BY <1>2 DEF Layout
<1>8. \A l, m \in Lists : \A p : In(p, ns[l]) /\ In(p, ns[m]) => l = m
  BY <1>2 DEF Layout
<1>9. \A p \in DOMAIN heap : Len(heap[p].items) \in 1 .. BlockSize
  BY <1>6, <1>7
<1>10. \A p \in DOMAIN heap : \E l \in Lists : p \in Range(Nodes(heap, lists[l].head))
  BY <1>3, <1>7
<1>11. ASSUME NEW l \in Lists, NEW m \in Lists, l # m
       PROVE  Range(Nodes(heap, lists[l].head)) \cap Range(Nodes(heap, lists[m].head)) = {}
  <2> DEFINE X == Range(Nodes(heap, lists[l].head))
             Y == Range(Nodes(heap, lists[m].head))
  <2>1. \A p : (p \in X => In(p, ns[l])) /\ (p \in Y => In(p, ns[m]))
    BY <1>3
  <2> HIDE DEF X, Y
  <2>2. X \cap Y = {}
    BY <1>8, <1>11, <2>1
  <2>3. QED
    BY <2>2 DEF X, Y
<1>12. \A l \in Lists :
          LET L == lists[l]
              w == Nodes(heap, L.head)
          IN  /\ L.tail = IF w = <<>> THEN NULL ELSE Last(w)
              /\ L.n = Skipped(heap, w)[Len(w)]
  BY <1>3, <1>5
<1>13. QED
  BY <1>9, <1>10, <1>11, <1>12 DEF Consistent

\* The shortcut of every list is at one of its nodes, and counts the elements before it.
LEMMA InvShortcut == Inv => ShortcutRight
<1>1. SUFFICES ASSUME Inv PROVE ShortcutRight
  OBVIOUS
<1>2. PICK ns, cs, off : Layout(heap, lists, Seqs, ns, cs, off)
  BY <1>1 DEF Inv, Sound
<1>3. SUFFICES ASSUME NEW l \in Lists, lists[l].last # NULL
               PROVE  LET w == Nodes(heap, lists[l].head)
                      IN  \E k \in DOMAIN w : /\ w[k] = lists[l].last
                                              /\ lists[l].lastn = Skipped(heap, w)[k - 1]
  BY DEF ShortcutRight
<1>4. Nodes(heap, lists[l].head) = ns[l] /\ Skipped(heap, ns[l]) = off[l]
  BY <1>2, HeadNodes
<1>5. Right(lists[l], heap, ns[l], cs[l], off[l], Seqs[l])
  BY <1>2 DEF Layout
<1>6. AtCut(lists[l].last, lists[l].lastn, ns[l], off[l]) /\ ns[l] \in Seq(Nat \ {0})
  BY <1>3, <1>5 DEF Right, Links
<1>7. DOMAIN ns[l] = 1 .. Len(ns[l])
  BY <1>6, LenProperties
<1>8. QED
  BY <1>4, <1>6, <1>7 DEF AtCut

\* The element found is the nth.
LEMMA InvAccess == Inv => AccessFindsNth
<1>1. SUFFICES ASSUME Inv PROVE AccessFindsNth
  OBVIOUS
<1>2. PICK ns, cs, off : Layout(heap, lists, Seqs, ns, cs, off)
  BY <1>1 DEF Inv, Sound
<1>3. SUFFICES ASSUME NEW l \in Lists, NEW i \in 0 .. lists[l].n - 1
               PROVE  Element(FindNode(lists[l], i), i) = Elements(l)[i + 1]
  BY DEF AccessFindsNth
<1>4. Right(lists[l], heap, ns[l], cs[l], off[l], Seqs[l])
  BY <1>2 DEF Layout
<1>5. Len(Seqs[l]) \in Nat /\ lists[l].n = Len(Seqs[l])
  BY <1>4, ListFacts
<1>6. i \in Nat /\ i < Len(Seqs[l])
  BY <1>3, <1>5
<1>7. PICK k \in 1 .. Len(ns[l]) : Found(FindNode(lists[l], i), ns[l], off[l], k, i)
  BY <1>2, <1>6, FindNodeFinds
<1>8. Element(FindNode(lists[l], i), i) = Seqs[l][i + 1]
  BY <1>4, <1>6, <1>7, ElementIs
<1>9. QED
  BY <1>8 DEF Seqs

\* The invariant, unfolded.
LEMMA InvLayout ==
  ASSUME Inv
  PROVE  \E ns, cs, off : Layout(heap, lists, Seqs, ns, cs, off)
BY DEF Inv, Sound

\* What a list holds, and how long its header says it is.
LEMMA InvList ==
  ASSUME Inv, NEW l \in Lists
  PROVE  Seqs[l] \in Seq(Int) /\ Len(Seqs[l]) \in Nat /\ lists[l].n = Len(Seqs[l])
<1>1. PICK ns, cs, off : Layout(heap, lists, Seqs, ns, cs, off)
  BY InvLayout
<1>2. Right(lists[l], heap, ns[l], cs[l], off[l], Seqs[l])
  BY <1>1 DEF Layout
<1>3. QED
  BY <1>2, ListFacts

-----------------------------------------------------------------------------
(* The steps of the lists are steps of the sequences *)

\* A step that answers nothing and changes one list is one of AbstractList.
LEMMA PutStep ==
  ASSUME NEW l, NEW s, result' = <<>>, Seqs' = [Seqs EXCEPT ![l] = s]
  PROVE  A!Put(l, s)
BY DEF A!Put, Seqs

\* The operators of the modules that AbstractList extends are those of BlockList.
LEMMA SameReverse ==
  ASSUME NEW s PROVE A!Reverse(s) = Reverse(s)
BY DEF A!Reverse, Reverse

\* The same for bijections.
LEMMA SameBijection ==
  ASSUME NEW X PROVE A!Bijection(X, X) = Bijection(X, X)
BY DEF A!Bijection, Bijection, A!Injection, Injection, A!Surjection, Surjection, A!IsInjective, IsInjective

\* The same for the operators on sequences.
LEMMA SameOthers ==
  ASSUME NEW s, NEW v, NEW i
  PROVE  /\ A!Contains(s, v) <=> Contains(s, v)
         /\ A!InsertAt(s, i, v) = InsertAt(s, i, v)
         /\ A!RemoveAt(s, i) = RemoveAt(s, i)
         /\ A!ReplaceAt(s, i, v) = ReplaceAt(s, i, v)
         /\ A!Front(s) = Front(s) /\ A!Last(s) = Last(s)
BY DEF A!Contains, Contains, A!InsertAt, InsertAt, A!RemoveAt, RemoveAt, A!ReplaceAt, ReplaceAt, A!Front, Front, A!Last, Last

\* The same for the first entry that is v.
LEMMA SameFirst ==
  ASSUME NEW s, NEW v
  PROVE  A!SelectInSeq(s, LAMBDA e : e = v) = FirstOf(s, v)
BY DEF FirstOf, A!SelectInSeq, SelectInSeq, A!Min, Min

\* bl_get and bl_access.
LEMMA GetNext ==
  ASSUME Inv, NEW l \in Lists, NEW i \in 0 .. lists[l].n - 1, Get(l, i)
  PROVE  Inv' /\ A!Next
<1> DEFINE s == Seqs[l]
<1>1. s \in Seq(Int) /\ Len(s) \in Nat /\ lists[l].n = Len(s)
  BY InvList
<1>2. i \in Nat /\ i < Len(s) /\ i \in 0 .. Len(s) /\ 1 \in 1 .. Len(s) - i
  BY <1>1
<1>3. PICK ns, cs, off : Layout(heap, lists, Seqs, ns, cs, off)
  BY InvLayout
<1>4. Sound(heap', lists', Seqs) /\ result' = <<s[i + 1]>>
  BY <1>2, <1>3, GetSound
<1>5. Inv' /\ Seqs' = Seqs
  BY <1>4, Moved
<1>6. SubSeq(s, i + 1, i + 1) = <<s[i + 1]>>
  <2> HIDE DEF s
  <2>1. i + 1 \in 1 .. Len(s)
    BY <1>1, <1>2
  <2>2. QED
    BY <1>1, <2>1, OneEntry
<1>7. A!Read(l, i, 1)
  BY <1>4, <1>5, <1>6 DEF A!Read, Seqs
<1>8. A!Next
  BY <1>2, <1>7 DEF A!Next, Seqs
<1>9. QED
  BY <1>5, <1>8

\* bl_reverse.
LEMMA ReverseNext ==
  ASSUME Inv, NEW l \in Lists, BlReverse(l)
  PROVE  Inv' /\ A!Next
<1>1. PICK ns, cs, off : Layout(heap, lists, Seqs, ns, cs, off)
  BY InvLayout
<1>2. Sound(heap', lists', [Seqs EXCEPT ![l] = Reverse(Seqs[l])]) /\ result' = <<>>
  BY <1>1, ReverseSound
<1>3. Inv' /\ Seqs' = [Seqs EXCEPT ![l] = Reverse(Seqs[l])]
  BY <1>2, Moved
<1>4. A!Put(l, Reverse(Seqs[l]))
  BY <1>2, <1>3, PutStep
<1>5. A!Reversal(l)
  BY <1>4, SameReverse DEF A!Reversal, Seqs
<1>6. A!Next
  BY <1>5 DEF A!Next
<1>7. QED
  BY <1>3, <1>6

\* bl_sort.
LEMMA SortNext ==
  ASSUME Inv, NEW l \in Lists, BlSort(l)
  PROVE  Inv' /\ A!Next
<1>1. PICK ns, cs, off : Layout(heap, lists, Seqs, ns, cs, off)
  BY InvLayout
<1>2. PICK m : Sound(heap', lists', [Seqs EXCEPT ![l] = m]) /\ Reorders(m, Seqs[l])
  BY <1>1, SortSound
<1>3. result' = <<>>
  BY <1>1, SortSound
<1>4. Inv' /\ Seqs' = [Seqs EXCEPT ![l] = m]
  BY <1>2, Moved
<1>5. A!Put(l, m)
  BY <1>3, <1>4, PutStep
<1>6. A!Sort(l)
  <2>1. PICK order \in Bijection(DOMAIN Seqs[l], DOMAIN Seqs[l]) : m = [i \in DOMAIN Seqs[l] |-> Seqs[l][order[i]]]
    BY <1>2 DEF Reorders
  <2>2. Sorted(m) /\ order \in A!Bijection(DOMAIN Seqs[l], DOMAIN Seqs[l])
    BY <1>2, <2>1, SameBijection DEF Reorders
  <2>3. \E q \in A!Bijection(DOMAIN Seqs[l], DOMAIN Seqs[l]) :
            LET t == [i \in DOMAIN Seqs[l] |-> Seqs[l][q[i]]]
            IN  (\A i \in 1 .. Len(t) - 1 : t[i] <= t[i + 1]) /\ A!Put(l, t)
    BY <1>5, <2>1, <2>2 DEF Sorted
  <2>4. QED
    BY <2>3 DEF A!Sort, Seqs
<1>7. A!Next
  BY <1>6 DEF A!Next
<1>8. QED
  BY <1>4, <1>7

\* bl_copy.
LEMMA CopyNext ==
  ASSUME Inv, NEW l \in Lists, NEW i \in 0 .. lists[l].n - 1, NEW n \in 1 .. MaxLen, Copy(l, i, n)
  PROVE  Inv' /\ A!Next
<1> DEFINE s == Seqs[l]
<1>1. s \in Seq(Int) /\ Len(s) \in Nat /\ lists[l].n = Len(s)
  BY InvList
<1>2. PICK ns, cs, off : Layout(heap, lists, Seqs, ns, cs, off)
  BY InvLayout
<1>3. i \in Nat /\ n \in Nat /\ i \in 0 .. Len(s)
  BY <1>1, ListAssumption
<1>4. Sound(heap', lists', Seqs) /\ result' = SubSeq(s, i + 1, i + n) /\ n \in 1 .. Len(s) - i
  BY <1>2, <1>3, CopySound
<1>5. Inv' /\ Seqs' = Seqs
  BY <1>4, Moved
<1>6. A!Read(l, i, n)
  BY <1>4, <1>5 DEF A!Read, Seqs
<1>7. A!Next
  BY <1>3, <1>4, <1>6 DEF A!Next, Seqs
<1>8. QED
  BY <1>5, <1>7

\* bl_set.
LEMMA SetNext ==
  ASSUME Inv, NEW l \in Lists, NEW i \in 0 .. lists[l].n - 1, NEW v \in Values, Set(l, i, v)
  PROVE  Inv' /\ A!Next
<1> DEFINE s == Seqs[l]
<1>1. s \in Seq(Int) /\ Len(s) \in Nat /\ lists[l].n = Len(s)
  BY InvList
<1>2. PICK ns, cs, off : Layout(heap, lists, Seqs, ns, cs, off)
  BY InvLayout
<1>3. i \in Nat /\ i < Len(s) /\ i \in 0 .. Len(s) /\ i \in 0 .. Len(s) - 1 /\ v \in Int
  BY <1>1, ListAssumption
<1>4. Sound(heap', lists', [Seqs EXCEPT ![l] = ReplaceAt(s, i + 1, v)]) /\ result' = <<>>
  BY <1>2, <1>3, SetSound
<1>5. Inv' /\ Seqs' = [Seqs EXCEPT ![l] = ReplaceAt(s, i + 1, v)]
  BY <1>4, Moved
<1>6. A!Put(l, ReplaceAt(s, i + 1, v))
  BY <1>4, <1>5, PutStep
<1>7. A!Put(l, A!ReplaceAt(s, i + 1, v))
  BY <1>6, SameOthers
<1>8. A!Set(l, i, v)
  BY <1>3, <1>7 DEF A!Set, Seqs
<1>9. A!Next
  BY <1>3, <1>8 DEF A!Next, Seqs
<1>10. QED
  BY <1>5, <1>9

\* bl_insert.
LEMMA InsertNext ==
  ASSUME Inv, NEW l \in Lists, NEW i \in 0 .. lists[l].n, NEW v \in Values, Insert(l, i, v)
  PROVE  Inv' /\ A!Next
<1> DEFINE s == Seqs[l]
<1>1. s \in Seq(Int) /\ Len(s) \in Nat /\ lists[l].n = Len(s)
  BY InvList
<1>2. PICK ns, cs, off : Layout(heap, lists, Seqs, ns, cs, off)
  BY InvLayout
<1>3. i \in 0 .. Len(s) /\ v \in Int
  BY <1>1, ListAssumption
<1>4. Sound(heap', lists', [Seqs EXCEPT ![l] = InsertAt(s, i + 1, v)]) /\ result' = <<>>
  BY <1>2, <1>3, InsertStep
<1>5. Inv' /\ Seqs' = [Seqs EXCEPT ![l] = InsertAt(s, i + 1, v)]
  BY <1>4, Moved
<1>6. A!Put(l, InsertAt(s, i + 1, v))
  BY <1>4, <1>5, PutStep
<1>7. A!Put(l, A!InsertAt(s, i + 1, v))
  BY <1>6, SameOthers
<1>8. A!Insert(l, i, v)
  BY <1>3, <1>7 DEF A!Insert, Seqs
<1>9. A!Next
  BY <1>3, <1>8 DEF A!Next, Seqs
<1>10. QED
  BY <1>5, <1>9

\* A range of elements leaves a list.
LEMMA DeleteStep ==
  ASSUME NEW l \in Lists, NEW i, NEW n, i \in 0 .. Len(Seqs[l]), n \in 1 .. Len(Seqs[l]) - i,
         result' = <<>>,
         Seqs' = [Seqs EXCEPT ![l] = SubSeq(Seqs[l], 1, i) \o SubSeq(Seqs[l], i + n + 1, Len(Seqs[l]))]
  PROVE  A!Next
<1>1. A!Put(l, SubSeq(Seqs[l], 1, i) \o SubSeq(Seqs[l], i + n + 1, Len(Seqs[l])))
  BY PutStep
<1>2. A!Delete(l, i, n)
  BY <1>1 DEF A!Delete, Seqs
<1>3. QED
  BY <1>2 DEF A!Next, Seqs

\* bl_remove_index.
LEMMA RemoveIndexNext ==
  ASSUME Inv, NEW l \in Lists, NEW i \in 0 .. lists[l].n - 1, RemoveIndex(l, i)
  PROVE  Inv' /\ A!Next
<1> DEFINE s == Seqs[l]
<1>1. s \in Seq(Int) /\ Len(s) \in Nat /\ lists[l].n = Len(s)
  BY InvList
<1>2. PICK ns, cs, off : Layout(heap, lists, Seqs, ns, cs, off)
  BY InvLayout
<1>3. i \in Nat /\ i < Len(s) /\ i \in 0 .. Len(s) /\ 1 \in 1 .. Len(s) - i
  BY <1>1
<1>4. Sound(heap', lists', [Seqs EXCEPT ![l] = RemoveAt(s, i + 1)]) /\ result' = <<>>
  BY <1>2, <1>3, RemoveIndexStep
<1>5. Inv' /\ Seqs' = [Seqs EXCEPT ![l] = RemoveAt(s, i + 1)]
  BY <1>4, Moved
<1>6. RemoveAt(s, i + 1) = SubSeq(s, 1, i) \o SubSeq(s, i + 1 + 1, Len(s))
  <2> HIDE DEF s
  <2>1. (i + 1) - 1 = i
    BY <1>3
  <2>2. QED
    BY <2>1 DEF RemoveAt
<1>7. A!Next
  BY <1>3, <1>4, <1>5, <1>6, DeleteStep
<1>8. QED
  BY <1>5, <1>7

\* bl_remove_index_range.
LEMMA RemoveRangeNext ==
  ASSUME Inv, NEW l \in Lists, NEW i \in 0 .. lists[l].n - 1, NEW n \in 1 .. MaxLen, RemoveRange(l, i, n)
  PROVE  Inv' /\ A!Next
<1> DEFINE s == Seqs[l]
<1>1. s \in Seq(Int) /\ Len(s) \in Nat /\ lists[l].n = Len(s)
  BY InvList
<1>2. PICK ns, cs, off : Layout(heap, lists, Seqs, ns, cs, off)
  BY InvLayout
<1>3. i \in Nat /\ n \in Nat /\ i \in 0 .. Len(s)
  BY <1>1, ListAssumption
<1> DEFINE t == SubSeq(s, 1, i) \o SubSeq(s, i + n + 1, Len(s))
<1>4. Sound(heap', lists', [Seqs EXCEPT ![l] = t]) /\ result' = <<>> /\ n \in 1 .. Len(s) - i
  BY <1>2, <1>3, RemoveRangeSound
<1>5. Inv' /\ Seqs' = [Seqs EXCEPT ![l] = t]
  BY <1>4, Moved
<1>6. A!Next
  BY <1>3, <1>4, <1>5, DeleteStep
<1>7. QED
  BY <1>5, <1>6

\* bl_remove_all, of a list that may be empty.
LEMMA RemoveAllNext ==
  ASSUME Inv, NEW l \in Lists, RemoveAll(l)
  PROVE  Inv' /\ A!Next
<1> DEFINE s == Seqs[l]
<1>1. s \in Seq(Int) /\ Len(s) \in Nat /\ lists[l].n = Len(s)
  BY InvList
<1>2. PICK ns, cs, off : Layout(heap, lists, Seqs, ns, cs, off)
  BY InvLayout
<1>3. Sound(heap', lists', [Seqs EXCEPT ![l] = <<>>]) /\ result' = <<>>
  BY <1>2, RemoveAllSound
<1>4. Inv' /\ Seqs' = [Seqs EXCEPT ![l] = <<>>]
  BY <1>3, Moved
<1>5. CASE Len(s) = 0
  <2>1. Reverse(s) = <<>>
    <3> HIDE DEF s
    <3>1. Reverse(s) \in Seq(Int) /\ Len(Reverse(s)) = 0
      BY <1>1, <1>5, ReverseIs DEF Backward
    <3>2. QED
      BY <3>1
  <2>2. A!Put(l, A!Reverse(s))
    BY <1>3, <1>4, <2>1, PutStep, SameReverse
  <2>3. A!Reversal(l)
    BY <2>2 DEF A!Reversal, Seqs
  <2>4. A!Next
    BY <2>3 DEF A!Next
  <2>5. QED
    BY <1>4, <2>4
<1>6. CASE Len(s) > 0
  <2>1. SubSeq(s, 1, 0) \o SubSeq(s, 0 + Len(s) + 1, Len(s)) = <<>>
    <3> HIDE DEF s
    <3>1. Len(s) + 1 > Len(s) /\ Len(s) \in Int /\ 0 + Len(s) + 1 = Len(s) + 1 /\ Len(s) + 1 \in Int /\ 0 < 1
      BY <1>1
    <3>2. SubSeq(s, 1, 0) = <<>> /\ SubSeq(s, Len(s) + 1, Len(s)) = <<>>
      BY <3>1, SubSeqEmpty
    <3>3. <<>> \o <<>> = <<>>
      OBVIOUS
    <3>4. QED
      BY <3>1, <3>2, <3>3
  <2>2. 0 \in 0 .. Len(s) /\ Len(s) \in 1 .. Len(s) - 0
    BY <1>1, <1>6
  <2>3. A!Next
    BY <1>3, <1>4, <2>1, <2>2, DeleteStep
  <2>4. QED
    BY <1>4, <2>3
<1>7. QED
  <2> HIDE DEF s
  <2>1. Len(s) = 0 \/ Len(s) > 0
    BY <1>1
  <2>2. QED
    BY <1>5, <1>6, <2>1

\* bl_pop.
LEMMA PopNext ==
  ASSUME Inv, NEW l \in Lists, Pop(l)
  PROVE  Inv' /\ A!Next
<1> DEFINE s == Seqs[l]
<1>1. s \in Seq(Int) /\ Len(s) \in Nat /\ lists[l].n = Len(s)
  BY InvList
<1>2. PICK ns, cs, off : Layout(heap, lists, Seqs, ns, cs, off)
  BY InvLayout
<1>3. Sound(heap', lists', [Seqs EXCEPT ![l] = Front(s)]) /\ result' = <<Last(s)>> /\ s # <<>>
  BY <1>2, PopSound
<1>4. Inv' /\ Seqs' = [Seqs EXCEPT ![l] = Front(s)]
  BY <1>3, Moved
<1>5. s # <<>> /\ result' = <<A!Last(s)>> /\ Seqs' = [Seqs EXCEPT ![l] = A!Front(s)]
  BY <1>3, <1>4, SameOthers
<1>6. A!Pop(l)
  BY <1>5 DEF A!Pop, Seqs
<1>7. A!Next
  BY <1>6 DEF A!Next
<1>8. QED
  BY <1>4, <1>7

\* An answer that says where v is.
LEMMA AnswerStep ==
  ASSUME NEW l \in Lists, NEW v, Seqs' = Seqs, Answers(result', Seqs[l], v)
  PROVE  A!IndexOf(l, v)
<1>1. \/ ~A!Contains(Seqs[l], v) /\ result' = <<-1>>
      \/ \E i \in DOMAIN Seqs[l] : Seqs[l][i] = v /\ result' = <<i - 1>>
  BY SameOthers DEF Answers
<1>2. QED
  BY <1>1 DEF A!IndexOf, Seqs

\* A step in which v joins a sorted list.
LEMMA JoinStep ==
  ASSUME NEW l \in Lists, NEW v, NEW unique \in BOOLEAN, NEW s2, Seqs' = [Seqs EXCEPT ![l] = s2],
         Joins(result', Seqs[l], s2, v, unique)
  PROVE  A!InsertSorted(l, v, unique)
<1> DEFINE s == Seqs[l]
<1>1. [Seqs EXCEPT ![l] = s] = Seqs
  BY DEF Seqs
<1>2. A!Contains(s, v) <=> Contains(s, v)
  BY SameOthers
<1>3. CASE unique /\ Contains(s, v)
  <2>1. result' = <<-1>> /\ Seqs' = Seqs
    BY <1>1, <1>3 DEF Joins
  <2>2. unique /\ A!Contains(s, v)
    BY <1>2, <1>3
  <2>3. QED
    BY <2>1, <2>2 DEF A!InsertSorted, Seqs
<1>4. CASE ~(unique /\ Contains(s, v))
  <2>1. PICK i \in 0 .. Len(s) : Place(s, v, i) /\ result' = <<i>> /\ s2 = InsertAt(s, i + 1, v)
    BY <1>4 DEF Joins
  <2>2. /\ \A j \in DOMAIN s : IF j <= i THEN s[j] <= v ELSE v <= s[j]
        /\ result' = <<i>> /\ Seqs' = [Seqs EXCEPT ![l] = A!InsertAt(s, i + 1, v)]
    BY <2>1, SameOthers DEF Place
  <2>3. ~(unique /\ A!Contains(s, v))
    BY <1>2, <1>4
  <2>4. \E k \in 0 .. Len(s) :
           /\ \A j \in DOMAIN s : IF j <= k THEN s[j] <= v ELSE v <= s[j]
           /\ result' = <<k>> /\ Seqs' = [Seqs EXCEPT ![l] = A!InsertAt(s, k + 1, v)]
    BY <2>1, <2>2
  <2>5. QED
    BY <2>3, <2>4 DEF A!InsertSorted, Seqs
<1>5. QED
  BY <1>3, <1>4

\* bl_find.
LEMMA FindNext ==
  ASSUME Inv, NEW l \in Lists, NEW v \in Values, BlFind(l, v)
  PROVE  Inv' /\ A!Next
<1>1. PICK ns, cs, off : Layout(heap, lists, Seqs, ns, cs, off)
  BY InvLayout
<1>2. v \in Int
  BY ListAssumption
<1>3. Sound(heap', lists', Seqs) /\ Answers(result', Seqs[l], v)
  BY <1>1, <1>2, FindSound
<1>4. Inv' /\ Seqs' = Seqs
  BY <1>3, Moved
<1>5. A!IndexOf(l, v)
  BY <1>3, <1>4, AnswerStep
<1>6. A!Next
  BY <1>5 DEF A!Next
<1>7. QED
  BY <1>4, <1>6

\* il_sorted_index_of and the like.
LEMMA SortedIndexOfNext ==
  ASSUME Inv, NEW l \in Lists, NEW v \in Values, SortedIndexOf(l, v)
  PROVE  Inv' /\ A!Next
<1>1. PICK ns, cs, off : Layout(heap, lists, Seqs, ns, cs, off)
  BY InvLayout
<1>2. v \in Int
  BY ListAssumption
<1>3. Sound(heap', lists', Seqs) /\ Answers(result', Seqs[l], v)
  BY <1>1, <1>2, SortedIndexOfSound
<1>4. Inv' /\ Seqs' = Seqs
  BY <1>3, Moved
<1>5. A!IndexOf(l, v)
  BY <1>3, <1>4, AnswerStep
<1>6. A!Next
  BY <1>5 DEF A!Next
<1>7. QED
  BY <1>4, <1>6

\* bl_insert_sorted and bl_insert_unique_sorted.
LEMMA InsertSortedNext ==
  ASSUME Inv, NEW l \in Lists, NEW v \in Values, NEW unique \in BOOLEAN, BlInsertSorted(l, v, unique)
  PROVE  Inv' /\ A!Next
<1>1. PICK ns, cs, off : Layout(heap, lists, Seqs, ns, cs, off)
  BY InvLayout
<1>2. v \in Int
  BY ListAssumption
<1>3. PICK s2 : Sound(heap', lists', [Seqs EXCEPT ![l] = s2]) /\ Joins(result', Seqs[l], s2, v, unique)
  BY <1>1, <1>2, InsertSortedSound
<1>4. Inv' /\ Seqs' = [Seqs EXCEPT ![l] = s2]
  BY <1>3, Moved
<1>5. A!InsertSorted(l, v, unique)
  BY <1>3, <1>4, JoinStep
<1>6. A!Next
  BY <1>5 DEF A!Next
<1>7. QED
  BY <1>4, <1>6

\* The sorted insertions of the lists of numbers.
LEMMA InsertAscendingNext ==
  ASSUME Inv, NEW l \in Lists, NEW v \in Values, NEW unique \in BOOLEAN, InsertAscending(l, v, unique)
  PROVE  Inv' /\ A!Next
<1>1. PICK ns, cs, off : Layout(heap, lists, Seqs, ns, cs, off)
  BY InvLayout
<1>2. v \in Int
  BY ListAssumption
<1>3. PICK s2 : Sound(heap', lists', [Seqs EXCEPT ![l] = s2]) /\ Joins(result', Seqs[l], s2, v, unique)
  BY <1>1, <1>2, InsertAscendingSound
<1>4. Inv' /\ Seqs' = [Seqs EXCEPT ![l] = s2]
  BY <1>3, Moved
<1>5. A!InsertSorted(l, v, unique)
  BY <1>3, <1>4, JoinStep
<1>6. A!Next
  BY <1>5 DEF A!Next
<1>7. QED
  BY <1>4, <1>6

\* bl_append_list.
LEMMA AppendListNext ==
  ASSUME Inv, NEW l \in Lists, NEW m \in Lists, AppendList(l, m)
  PROVE  Inv' /\ A!Next
<1>1. PICK ns, cs, off : Layout(heap, lists, Seqs, ns, cs, off)
  BY InvLayout
<1>2. /\ Sound(heap', lists', [Seqs EXCEPT ![l] = Seqs[l] \o Seqs[m], ![m] = <<>>])
      /\ result' = <<>> /\ l # m
  BY <1>1, AppendListSound
<1>3. Inv' /\ Seqs' = [Seqs EXCEPT ![l] = Seqs[l] \o Seqs[m], ![m] = <<>>]
  BY <1>2, Moved
<1>4. A!Concat(l, m)
  BY <1>2, <1>3 DEF A!Concat, Seqs
<1>5. A!Next
  BY <1>4 DEF A!Next
<1>6. QED
  BY <1>3, <1>5

\* bl_split, of one node to an empty list.
LEMMA SplitNext ==
  ASSUME Inv, NEW l \in Lists, NEW m \in Lists, NEW i \in 0 .. lists[l].n - 1,
         OneNodeToEmpty(l, m, i), Split(l, m, i)
  PROVE  Inv' /\ A!Next
<1> DEFINE s == Seqs[l]
<1>1. s \in Seq(Int) /\ Len(s) \in Nat /\ lists[l].n = Len(s)
  BY InvList
<1>2. PICK ns, cs, off : Layout(heap, lists, Seqs, ns, cs, off)
  BY InvLayout
<1>3. i \in Nat /\ i < Len(s) /\ i \in 0 .. Len(s) - 1
  BY <1>1
<1> DEFINE t == SubSeq(s, i + 1, Len(s))
<1>4. /\ Sound(heap', lists', [Seqs EXCEPT ![l] = SubSeq(s, 1, i), ![m] = t])
      /\ result' = <<>> /\ l # m /\ Seqs[m] = <<>>
  BY <1>2, <1>3, SplitSound DEF Rest
<1>5. Inv' /\ Seqs' = [Seqs EXCEPT ![l] = SubSeq(s, 1, i), ![m] = t]
  BY <1>4, Moved
<1>6. t = Seqs[m] \o t
  <2>1. t \in Seq(Int)
    <3> HIDE DEF s
    <3>1. Rest(s, i) \in Seq(Int)
      BY <1>1, <1>3, RestType
    <3>2. QED
      BY <3>1 DEF Rest
  <2> HIDE DEF t
  <2>2. <<>> \o t = t
    BY <2>1
  <2>3. QED
    BY <1>4, <2>2
<1>7. Seqs' = [Seqs EXCEPT ![l] = SubSeq(Seqs[l], 1, i), ![m] = Seqs[m] \o SubSeq(Seqs[l], i + 1, Len(Seqs[l]))]
  BY <1>5, <1>6
<1> HIDE DEF s, t
<1>8. A!Split(l, m, i)
  BY <1>4, <1>7 DEF A!Split, Seqs
<1>9. A!Next
  BY <1>3, <1>8 DEF A!Next, Seqs, s
<1>10. QED
  BY <1>5, <1>9

\* remove_value, of a value that is in the first node.
LEMMA RemoveValueNext ==
  ASSUME Inv, NEW l \in Lists, NEW v \in Values, InFirstNode(l, v), RemoveValue(l, v)
  PROVE  Inv' /\ A!Next
<1> DEFINE s == Seqs[l]
<1>1. s \in Seq(Int) /\ Len(s) \in Nat /\ lists[l].n = Len(s)
  BY InvList
<1>2. PICK ns, cs, off : Layout(heap, lists, Seqs, ns, cs, off)
  BY InvLayout
<1>3. [Seqs EXCEPT ![l] = s] = Seqs
  BY DEF Seqs
<1>4. IF Contains(s, v)
      THEN /\ Sound(heap', lists', [Seqs EXCEPT ![l] = RemoveAt(s, FirstOf(s, v))])
           /\ result' = <<FirstOf(s, v) - 1>>
      ELSE Sound(heap', lists', Seqs) /\ result' = <<-1>>
  BY <1>2, RemoveValueSound
<1>5. A!Contains(s, v) <=> Contains(s, v)
  BY SameOthers
<1>6. CASE Contains(s, v)
  <2>1. /\ Sound(heap', lists', [Seqs EXCEPT ![l] = RemoveAt(s, FirstOf(s, v))])
        /\ result' = <<FirstOf(s, v) - 1>>
    BY <1>4, <1>6
  <2>2. Inv' /\ Seqs' = [Seqs EXCEPT ![l] = RemoveAt(s, FirstOf(s, v))]
    BY <2>1, Moved
  <2> DEFINE i == A!SelectInSeq(s, LAMBDA e : e = v)
  <2>3. i = FirstOf(s, v)
    BY SameFirst
  <2>4. result' = <<i - 1>> /\ Seqs' = [Seqs EXCEPT ![l] = A!RemoveAt(s, i)]
    <3> HIDE DEF i
    <3>1. QED
      BY <2>1, <2>2, <2>3, SameOthers
  <2>5. A!RemoveValue(l, v)
    BY <1>5, <1>6, <2>4 DEF A!RemoveValue, Seqs
  <2>6. A!Next
    BY <2>5 DEF A!Next
  <2>7. QED
    BY <2>2, <2>6
<1>7. CASE ~Contains(s, v)
  <2>1. Sound(heap', lists', Seqs) /\ result' = <<-1>>
    BY <1>4, <1>7
  <2>2. Inv' /\ Seqs' = Seqs
    BY <2>1, Moved
  <2>3. A!RemoveValue(l, v)
    BY <1>5, <1>7, <2>1, <2>2 DEF A!RemoveValue, Seqs
  <2>4. A!Next
    BY <2>3 DEF A!Next
  <2>5. QED
    BY <2>2, <2>4
<1>8. QED
  BY <1>6, <1>7

\* Every step keeps the invariant, and is a step of AbstractList.
LEMMA NextStep ==
  ASSUME Inv, Next
  PROVE  Inv' /\ A!Next
<1>1. CASE Access
  <2> PICK l \in Lists : \E i \in 0 .. lists[l].n - 1 :
           \/ Get(l, i) \/ RemoveIndex(l, i)
           \/ \E v \in Values : Set(l, i, v)
           \/ \E n \in 1 .. MaxLen : Copy(l, i, n) \/ RemoveRange(l, i, n)
    BY <1>1 DEF Access
  <2>1. PICK i \in 0 .. lists[l].n - 1 :
           \/ Get(l, i) \/ RemoveIndex(l, i)
           \/ \E v \in Values : Set(l, i, v)
           \/ \E n \in 1 .. MaxLen : Copy(l, i, n) \/ RemoveRange(l, i, n)
    OBVIOUS
  <2>2. CASE Get(l, i)
    BY <2>2, GetNext
  <2>3. CASE RemoveIndex(l, i)
    BY <2>3, RemoveIndexNext
  <2>4. ASSUME NEW v \in Values, Set(l, i, v) PROVE Inv' /\ A!Next
    BY <2>4, SetNext
  <2>5. ASSUME NEW n \in 1 .. MaxLen, Copy(l, i, n) PROVE Inv' /\ A!Next
    BY <2>5, CopyNext
  <2>6. ASSUME NEW n \in 1 .. MaxLen, RemoveRange(l, i, n) PROVE Inv' /\ A!Next
    BY <2>6, RemoveRangeNext
  <2>7. QED
    BY <2>1, <2>2, <2>3, <2>4, <2>5, <2>6
<1>2. CASE Update
  <2>1. PICK l \in Lists :
           \/ Pop(l) \/ RemoveAll(l) \/ BlReverse(l) \/ BlSort(l)
           \/ \E m \in Lists : AppendList(l, m)
           \/ \E v \in Values, i \in 0 .. lists[l].n : Insert(l, i, v)
           \/ \E v \in Values : SortedIndexOf(l, v) \/ BlFind(l, v)
           \/ \E v \in Values, u \in BOOLEAN : BlInsertSorted(l, v, u) \/ InsertAscending(l, v, u)
    BY <1>2 DEF Update
  <2>2. CASE Pop(l)
    BY <2>2, PopNext
  <2>3. CASE RemoveAll(l)
    BY <2>3, RemoveAllNext
  <2>4. CASE BlReverse(l)
    BY <2>4, ReverseNext
  <2>5. CASE BlSort(l)
    BY <2>5, SortNext
  <2>6. ASSUME NEW m \in Lists, AppendList(l, m) PROVE Inv' /\ A!Next
    BY <2>6, AppendListNext
  <2>7. ASSUME NEW v \in Values, NEW i \in 0 .. lists[l].n, Insert(l, i, v) PROVE Inv' /\ A!Next
    BY <2>7, InsertNext
  <2>8. ASSUME NEW v \in Values, SortedIndexOf(l, v) PROVE Inv' /\ A!Next
    BY <2>8, SortedIndexOfNext
  <2>9. ASSUME NEW v \in Values, BlFind(l, v) PROVE Inv' /\ A!Next
    BY <2>9, FindNext
  <2>10. ASSUME NEW v \in Values, NEW u \in BOOLEAN, BlInsertSorted(l, v, u) PROVE Inv' /\ A!Next
    BY <2>10, InsertSortedNext
  <2>11. ASSUME NEW v \in Values, NEW u \in BOOLEAN, InsertAscending(l, v, u) PROVE Inv' /\ A!Next
    BY <2>11, InsertAscendingNext
  <2>12. QED
    BY <2>1, <2>2, <2>3, <2>4, <2>5, <2>6, <2>7, <2>8, <2>9, <2>10, <2>11
<1>3. CASE RemoveInFirst
  BY <1>3, RemoveValueNext DEF RemoveInFirst
<1>4. CASE SplitOne
  BY <1>4, SplitNext DEF SplitOne
<1>5. QED
  BY <1>1, <1>2, <1>3, <1>4 DEF Next

\* A step that changes nothing.
LEMMA StutterStep ==
  ASSUME Inv, UNCHANGED vars
  PROVE  Inv' /\ UNCHANGED A!avars
<1>1. Seqs' = Seqs
  BY DEF vars, Seqs, Elements
<1>2. Inv'
  BY <1>1 DEF Inv, vars
<1>3. QED
  BY <1>1, <1>2 DEF A!avars, Seqs, vars

\* After any calls, the nodes of every list hold its elements, the header knows its
\* ends and its length, and the shortcut is at one of its nodes (the inductive
\* invariant).
THEOREM ListInv == Spec => []Inv
<1>1. Inv /\ [Next]_vars => Inv'
  BY NextStep, StutterStep
<1>2. QED
  BY <1>1, InitInv, PTL DEF Spec

\* After any sequence of operations the tail pointer is the last node, no node is empty
\* or too full, and the count is the sum over the nodes (bl_check_consistency); no
\* node is leaked, or shared by two lists.
THEOREM ListConsistent == Spec => []Consistent
BY ListInv, InvConsistent, PTL

\* However nodes were split, emptied, freed, moved or reversed, last_access is a node of
\* its list and last_access_n the number of elements before it.
THEOREM ListShortcutRight == Spec => []ShortcutRight
BY ListInv, InvShortcut, PTL

\* bl_access returns a pointer to the nth element, from whatever shortcut it starts.
THEOREM ListAccessFindsNth == Spec => []AccessFindsNth
BY ListInv, InvAccess, PTL

\* The lists are sequences: whatever the nodes and the shortcuts, every call answers from
\* the elements as they stand, and leaves the elements it says.
THEOREM ListsAreSequences == Spec => ImplementsList
<1>1. Init => A!Init
  <2>1. SUFFICES ASSUME Init PROVE A!Init
    OBVIOUS
  <2>2. Sound(heap, lists, [l \in Lists |-> <<>>])
    BY <2>1, InitEmpty
  <2>3. Seqs = [l \in Lists |-> <<>>]
    BY <2>2, SoundNow DEF Seqs, Elements
  <2>4. QED
    BY <2>1, <2>3 DEF A!Init, Init, Seqs
<1>2. Inv /\ [Next]_vars => [A!Next]_(A!avars)
  BY NextStep, StutterStep
<1>3. QED
  BY <1>1, <1>2, ListInv, PTL DEF Spec, ImplementsList, A!AbstractSpec

===============================================================================
