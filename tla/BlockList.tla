------------------------------- MODULE BlockList -------------------------------
(***************************************************************************)
(* The block lists of bl.c and bl-nl.c, on which the solver, the index     *)
(* builder and the engine keep everything that grows: a linked list of     *)
(* nodes of up to BlockSize elements each, with a pointer to its tail and  *)
(* a shortcut, last_access, to the node used last.  last_access_n must be  *)
(* the number of elements before that node, however nodes were split,      *)
(* emptied, freed, moved to another list or reversed since.                *)
(*                                                                         *)
(* heap holds the allocated nodes: to follow a pointer to a freed one is   *)
(* an evaluation error, and so is an assert(node) that fails.              *)
(***************************************************************************)
EXTENDS Ranking, SequencesExt, FiniteSetsExt

CONSTANTS
    Lists,       \* the lists
    Values,      \* elements
    BlockSize,   \* elements that fit in a node
    MaxLen       \* bound: elements in all lists together

ASSUME ListAssumption == Values \subseteq Int /\ BlockSize \in Nat \ {0} /\ MaxLen \in Nat

NULL == 0

VARIABLES
    heap,        \* allocated nodes: [items, next]
    lists,       \* [head, tail, n, last, lastn] of each list
    result       \* the answer of the last operation

vars == <<heap, lists, result>>

Empty == [head |-> NULL, tail |-> NULL, n |-> 0, last |-> NULL, lastn |-> 0]
Init == heap = <<>> /\ lists = [l \in Lists |-> Empty] /\ result = <<>>

--------------------------------------------------------------------------------
\* The nodes of h from p to the end of its list.
Nodes(h, p) ==
    LET f[q \in DOMAIN h \cup {NULL}] ==
            IF q = NULL THEN <<>> ELSE <<q>> \o f[h[q].next]
    IN  f[p]

\* How many elements the first k of the nodes ns hold, for every k.
Skipped(h, ns) ==
    LET skipped[k \in 0 .. Len(ns)] ==
            IF k = 0 THEN 0 ELSE skipped[k - 1] + Len(h[ns[k]].items)
    IN  skipped

\* The elements from node p to the end of its list.
Items(h, p) ==
    LET f[q \in DOMAIN h \cup {NULL}] ==
            IF q = NULL THEN <<>> ELSE h[q].items \o f[h[q].next]
    IN  f[p]

Elements(l) == Items(heap, lists[l].head)
Held        == MapThenSumSet(LAMBDA l : lists[l].n, Lists)
Sorted(s)   == \A i \in 1 .. Len(s) - 1 : s[i] <= s[i + 1]

\* Memory for n nodes, and for one; a node written; nodes freed.
Memory(h, n) == Increasing(1 .. Cardinality(DOMAIN h) + n \ DOMAIN h)
NewNode == Min(1 .. Cardinality(DOMAIN heap) + 1 \ DOMAIN heap)
Write(h, p, items, next) ==
    [q \in DOMAIN h \cup {p} |-> IF q = p THEN [items |-> items, next |-> next] ELSE h[q]]
Free(h, ps) == [p \in DOMAIN h \ ps |-> h[p]]

\* From node c[1], with c[2] elements before it, to the node of element n.
Walk(c, n) ==
    LET ns == Nodes(heap, c[1])
        skipped == Skipped(heap, ns)
        k == Min({j \in DOMAIN ns : n < c[2] + skipped[j]})
    IN  <<ns[k], c[2] + skipped[k - 1]>>

\* find_node: from the shortcut on, unless it is beyond n.
FindNode(L, n) == Walk(IF L.last # NULL /\ n >= L.lastn THEN <<L.last, L.lastn>>
                       ELSE <<L.head, 0>>, n)
Element(c, n) == heap[c[1]].items[n - c[2] + 1]

Cached(L, c)  == [L EXCEPT !.last = c[1], !.lastn = c[2]]
Forget(L)     == Cached(L, <<NULL, 0>>)
Previous(L, p) == IF p = L.head THEN NULL
                  ELSE CHOOSE q \in Range(Nodes(heap, L.head)) : heap[q].next = p

Become(l, Lh) == lists' = [lists EXCEPT ![l] = Lh[1]] /\ heap' = Lh[2]

--------------------------------------------------------------------------------
\* Each handler's effect, as the list's header and the heap after it.
BlAppend(L, v) ==
    LET full == L.tail # NULL /\ Len(heap[L.tail].items) = BlockSize
        more == [L EXCEPT !.n = @ + 1, !.tail = NewNode]
        h == Write(heap, NewNode, <<v>>, NULL)
    IN  IF L.tail = NULL THEN <<[more EXCEPT !.head = NewNode], h>>
        ELSE IF full THEN <<more, [h EXCEPT ![L.tail].next = NewNode]>>
        ELSE <<[L EXCEPT !.n = @ + 1], [heap EXCEPT ![L.tail].items = Append(@, v)]>>

\* Mutant of BlInsert: the overflow goes to the end of the next node.
BlInsertBehind(L, i, v) ==
    LET c == FindNode(L, i)
        p == c[1]
        q == heap[p].next
        items == InsertAt(heap[p].items, i - c[2] + 1, v)
        L1 == [Cached(L, c) EXCEPT !.n = @ + 1]
        room == q # NULL /\ Len(heap[q].items) < BlockSize
    IN  IF i = L.n THEN BlAppend(L, v)
        ELSE IF Len(items) <= BlockSize THEN <<L1, Write(heap, p, items, q)>>
        ELSE IF room THEN <<L1, Write(Write(heap, q, Append(heap[q].items, Last(items)), heap[q].next),
                                      p, Front(items), q)>>
        ELSE <<[L1 EXCEPT !.tail = IF q = NULL THEN NewNode ELSE @],
               Write(Write(heap, NewNode, <<Last(items)>>, q), p, Front(items), NewNode)>>

\* A full node overflows into the next one if there is room, or into a new one.
BlInsert(L, i, v) ==
    LET c == FindNode(L, i)
        p == c[1]
        q == heap[p].next
        items == InsertAt(heap[p].items, i - c[2] + 1, v)
        L1 == [Cached(L, c) EXCEPT !.n = @ + 1]
        room == q # NULL /\ Len(heap[q].items) < BlockSize
    IN  IF i = L.n THEN BlAppend(L, v)
        ELSE IF Len(items) <= BlockSize THEN <<L1, Write(heap, p, items, q)>>
        ELSE IF room THEN <<L1, Write(Write(heap, q, <<Last(items)>> \o heap[q].items, heap[q].next),
                                      p, Front(items), q)>>
        ELSE <<[L1 EXCEPT !.tail = IF q = NULL THEN NewNode ELSE @],
               Write(Write(heap, NewNode, <<Last(items)>>, q), p, Front(items), NewNode)>>

\* Mutant of RemoveFrom: the tail pointer stays at a node that is gone.
RemoveKeepsTail(L, p, prev, k) ==
    LET next == heap[p].next
        L1 == [L EXCEPT !.n = @ - 1]
    IN  IF Len(heap[p].items) > 1 THEN <<L1, [heap EXCEPT ![p].items = RemoveAt(@, k)]>>
        ELSE IF prev = NULL
        THEN <<[L1 EXCEPT !.head = next, !.tail = IF next = NULL THEN NULL ELSE @],
               Free(heap, {p})>>
        ELSE <<L1, Free([heap EXCEPT ![prev].next = next], {p})>>

\* bl_remove_from_node; prev is the node before p.
RemoveFrom(L, p, prev, k) ==
    LET next == heap[p].next
        L1 == [L EXCEPT !.n = @ - 1]
    IN  IF Len(heap[p].items) > 1 THEN <<L1, [heap EXCEPT ![p].items = RemoveAt(@, k)]>>
        ELSE IF prev = NULL
        THEN <<[L1 EXCEPT !.head = next, !.tail = IF next = NULL THEN NULL ELSE @],
               Free(heap, {p})>>
        ELSE <<[L1 EXCEPT !.tail = IF p = @ THEN prev ELSE @],
               Free([heap EXCEPT ![prev].next = next], {p})>>

\* Mutant of BlRemoveIndex: the shortcut is kept.
RemoveKeepsShortcut(L, i) ==
    LET c == Walk(<<L.head, 0>>, i)
    IN  RemoveFrom(L, c[1], Previous(L, c[1]), i - c[2] + 1)

BlRemoveIndex(L, i) ==
    LET c == Walk(<<L.head, 0>>, i)
    IN  RemoveFrom(Forget(L), c[1], Previous(L, c[1]), i - c[2] + 1)

\* bl_remove_index_range: cut the end of the first node, drop whole nodes, cut
\* the beginning of the last one.
BlRemoveRange(L, start, length) ==
    LET c == Walk(<<L.head, 0>>, start)
        p == c[1]
        k == start - c[2]
        size == Len(heap[p].items)
        L1 == [Forget(L) EXCEPT !.n = @ - length]
        cut == IF k > 0 THEN size - k ELSE 0
        h1 == [heap EXCEPT ![p].items = IF k > 0 THEN SubSeq(@, 1, k) ELSE @]
        prev == IF k > 0 THEN p ELSE Previous(L, p)
        ns == Nodes(heap, IF k > 0 THEN heap[p].next ELSE p)
        skipped == Skipped(heap, ns)
        rest == length - cut
        j == Min({i \in 0 .. Len(ns) :
                     rest = skipped[i] \/ (i < Len(ns) /\ rest < skipped[i + 1])})
        end == IF j = Len(ns) THEN NULL ELSE ns[j + 1]
        h2 == IF prev = NULL THEN h1 ELSE [h1 EXCEPT ![prev].next = end]
        h3 == IF end = NULL THEN h2
              ELSE [h2 EXCEPT ![end].items = SubSeq(@, rest - skipped[j] + 1, Len(@))]
    IN  IF k > 0 /\ k + length < size
        THEN <<L1, [heap EXCEPT ![p].items = SubSeq(@, 1, k) \o SubSeq(@, k + length + 1, size)]>>
        ELSE <<[L1 EXCEPT !.head = IF prev = NULL THEN end ELSE @,
                          !.tail = IF end = NULL THEN prev ELSE @],
               Free(h3, {ns[i] : i \in 1 .. j})>>

--------------------------------------------------------------------------------
Get(l, i) ==
    LET c == FindNode(lists[l], i) IN
    /\ Become(l, <<Cached(lists[l], c), heap>>)
    /\ result' = <<Element(c, i)>>

\* The shortcut moves to the node after the last one copied from, if any.
Copy(l, start, length) ==
    LET c == FindNode(lists[l], start)
        d == Walk(c, start + length - 1) IN
    /\ length > 0 /\ start + length <= lists[l].n
    /\ result' = SubSeq(Items(heap, c[1]), start - c[2] + 1, start - c[2] + length)
    /\ Become(l, <<Cached(lists[l], <<heap[d[1]].next, d[2] + Len(heap[d[1]].items)>>), heap>>)

Set(l, i, v) ==
    LET c == FindNode(lists[l], i) IN
    /\ Become(l, <<Cached(lists[l], c), [heap EXCEPT ![c[1]].items[i - c[2] + 1] = v]>>)
    /\ result' = <<>>

Insert(l, i, v) == Held < MaxLen /\ Become(l, BlInsert(lists[l], i, v)) /\ result' = <<>>

RemoveIndex(l, i) == Become(l, BlRemoveIndex(lists[l], i)) /\ result' = <<>>

RemoveRange(l, start, length) ==
    /\ length > 0 /\ start + length <= lists[l].n
    /\ Become(l, BlRemoveRange(lists[l], start, length))
    /\ result' = <<>>

Pop(l) ==
    /\ lists[l].n > 0
    /\ LET i == lists[l].n - 1 IN
          /\ result' = <<Element(FindNode(lists[l], i), i)>>
          /\ Become(l, BlRemoveIndex(lists[l], i))

RemoveAll(l) ==
    Become(l, <<Empty, Free(heap, Range(Nodes(heap, lists[l].head)))>>) /\ result' = <<>>

AppendList(l, m) ==
    LET L == lists[l]
        M == lists[m]
        L1 == [Forget(L) EXCEPT !.n = @ + M.n, !.head = IF @ = NULL THEN M.head ELSE @,
                                !.tail = IF M.head = NULL THEN @ ELSE M.tail] IN
    /\ l # m
    /\ lists' = [lists EXCEPT ![l] = L1, ![m] = IF L.head # NULL /\ M.head = NULL THEN M ELSE Empty]
    /\ heap' = IF L.head = NULL \/ M.head = NULL THEN heap
               ELSE [heap EXCEPT ![L.tail].next = M.head]
    /\ result' = <<>>

BlReverse(l) ==
    LET L == lists[l]
        ns == Nodes(heap, L.head) IN
    /\ Become(l, <<[Forget(L) EXCEPT !.head = L.tail, !.tail = L.head],
                   [p \in DOMAIN heap |->
                       IF p \notin Range(ns) THEN heap[p]
                       ELSE [items |-> Reverse(heap[p].items), next |-> Previous(L, p)]]>>)
    /\ result' = <<>>

\* bl_split: l keeps its first i elements, m gets the others at its end.  The
\* tail of m moves to the first node it gets, and only if m was empty.
Split(l, m, i) ==
    LET L == lists[l]
        M == lists[m]
        c == FindNode(L, i)
        p == c[1]
        k == i - c[2]
        moved == IF k = 0 THEN p ELSE NewNode
        last  == IF k > 0 THEN p ELSE IF i = 0 THEN NULL ELSE FindNode(L, i - 1)[1]
        h == IF k > 0 THEN Write(Write(heap, NewNode, SubSeq(heap[p].items, k + 1, Len(heap[p].items)),
                                       heap[p].next),
                                 p, SubSeq(heap[p].items, 1, k), NULL)
             ELSE IF last = NULL THEN heap ELSE [heap EXCEPT ![last].next = NULL]
    IN  /\ l # m
        /\ lists' = [lists EXCEPT
               ![l] = [L EXCEPT !.head = IF last = NULL THEN NULL ELSE @, !.tail = last,
                                !.n = i, !.last = NULL],
               ![m] = [M EXCEPT !.head = IF M.tail = NULL THEN moved ELSE @, !.n = @ + L.n - i,
                                !.tail = IF @ = NULL THEN moved ELSE @]]
        /\ heap' = IF M.tail = NULL THEN h ELSE [h EXCEPT ![M.tail].next = moved]
        /\ result' = <<>>

\* bl_remove_all_but_first: the first node stays, without elements.
RemoveAllButFirst(l) ==
    LET L == lists[l]
        h == Free(heap, Range(Nodes(heap, L.head)) \ {L.head})
    IN  /\ IF L.head = NULL THEN Become(l, <<Empty, heap>>)
           ELSE Become(l, <<[Empty EXCEPT !.head = L.head, !.tail = L.head],
                            [h EXCEPT ![L.head] = [items |-> <<>>, next |-> NULL]]>>)
        /\ result' = <<>>

--------------------------------------------------------------------------------
\* bl_sort: a list of one node is sorted in place, any other one is appended to
\* three new lists, around an element drawn at random, that are sorted in turn.
Chunks(s) == [k \in 1 .. (Len(s) + BlockSize - 1) \div BlockSize |->
                 SubSeq(s, (k - 1) * BlockSize + 1, Min({k * BlockSize, Len(s)}))]

\* The entries of s in order, equal ones in the order they have in s.
Ascending(s) ==
    LET before == {p \in (DOMAIN s) \X (DOMAIN s) :
                      s[p[1]] < s[p[2]] \/ (s[p[1]] = s[p[2]] /\ p[1] < p[2])}
    IN  [n \in DOMAIN s |-> s[InOrderOf(before, DOMAIN s)[n]]]

\* What the nodes of three lists, of the elements of s below, equal to and above
\* one of them, can hold at the end, if those of the list t can hold sort[t].
Around(s, sort) ==
    UNION {{less \o Chunks(Filter(s, {pivot})) \o greater :
                less \in sort[Filter(s, {e \in Range(s) : e < pivot})],
                greater \in sort[Filter(s, {e \in Range(s) : e > pivot})]} :
              pivot \in Range(s)}

\* What the nodes of a list s of at most n elements, made by bl_append, can hold
\* after the sort.
SortedNodes(n) ==
    LET sort[k \in 0 .. n] ==
            IF k = 0 THEN [s \in Seq(Int) |-> {Chunks(s)}]
            ELSE [s \in Seq(Int) |-> IF Len(s) <= BlockSize THEN {Chunks(Ascending(s))}
                                     ELSE Around(s, sort[k - 1])]
    IN  sort[n]

\* h with nodes at ps, linked, that hold cs.
Linked(h, ps, cs) ==
    [p \in DOMAIN h \cup Range(ps) |->
        IF p \in DOMAIN h THEN h[p]
        ELSE LET k == CHOOSE j \in DOMAIN ps : ps[j] = p
             IN  [items |-> cs[k], next |-> IF k = Len(ps) THEN NULL ELSE ps[k + 1]]]

BlSort(l) ==
    LET L == lists[l]
        h == Free(heap, Range(Nodes(heap, L.head)))
    IN  /\ result' = <<>>
        /\ IF L.n <= 1 THEN UNCHANGED <<heap, lists>>
           ELSE IF L.head = L.tail
           THEN Become(l, <<Cached(L, <<L.head, 0>>), [heap EXCEPT ![L.head].items = Ascending(@)]>>)
           ELSE \E cs \in Around(Elements(l), SortedNodes(L.n)) :
                    LET ps == SubSeq(Memory(h, Len(cs)), 1, Len(cs)) IN
                    Become(l, <<[Forget(L) EXCEPT !.head = Head(ps), !.tail = Last(ps)],
                                Linked(h, ps, cs)>>)

--------------------------------------------------------------------------------
\* A step of the binary search below: t is the lower and the upper bound, and the
\* shortcut, through which the element between them is read.
Halve(L, v, t) ==
    LET mid == (t[1] + t[2]) \div 2
        c   == FindNode(Cached(L, t[3]), mid)
    IN  IF t[1] >= t[2] - 1 THEN t
        ELSE IF v >= Element(c, mid) THEN <<mid, t[2], c>> ELSE <<t[1], mid, c>>

\* The binary search of bl_insert_sorted and bl_find: the last element that is v
\* or less, or -1, and the shortcut.
Bisect(L, v) ==
    LET search[k \in 0 .. L.n] ==
            IF k = 0 THEN <<-1, L.n, <<L.last, L.lastn>>>> ELSE Halve(L, v, search[k - 1])
    IN  <<search[L.n][1], search[L.n][3]>>

\* bl_insert_sorted, bl_insert_unique_sorted.
BlInsertSorted(l, v, unique) ==
    LET L == lists[l]
        t == Bisect(L, v)
        lower == t[1]
        c == IF unique /\ lower >= 0 THEN FindNode(Cached(L, t[2]), lower) ELSE t[2]
    IN  /\ Held < MaxLen /\ Sorted(Elements(l))
        /\ IF unique /\ lower >= 0 /\ Element(c, lower) = v
           THEN Become(l, <<Cached(L, c), heap>>) /\ result' = <<-1>>
           ELSE Become(l, BlInsert(Cached(L, c), lower + 1, v)) /\ result' = <<lower + 1>>

\* bl_find, bl_find_index.
BlFind(l, v) ==
    LET L == lists[l]
        t == Bisect(L, v)
        lower == t[1]
        c == FindNode(Cached(L, t[2]), lower)
    IN  /\ Sorted(Elements(l))
        /\ IF lower = -1 THEN Become(l, <<Cached(L, t[2]), heap>>) /\ result' = <<-1>>
           ELSE /\ Become(l, <<Cached(L, c), heap>>)
                /\ result' = IF Element(c, lower) = v THEN <<lower>> ELSE <<-1>>

\* findnodecontainingsorted: the first node whose last element is v or more,
\* from the shortcut on if v is not below its first.
FindSorted(L, v) ==
    LET c == IF L.last # NULL /\ v >= heap[L.last].items[1] THEN <<L.last, L.lastn>>
             ELSE <<L.head, 0>>
        ns == Nodes(heap, c[1])
        k == Min({j \in 1 .. Len(ns) + 1 : j > Len(ns) \/ v <= Last(heap[ns[j]].items)})
    IN  <<IF k > Len(ns) THEN NULL ELSE ns[k], c[2] + Skipped(heap, ns)[k - 1]>>

\* binarysearch, counted from 1: the last element of a node that is v or less.
UpTo(p, v) ==
    Max({0} \cup {i \in DOMAIN heap[p].items : heap[p].items[i] <= v})

InsertAscending(l, v, unique) ==
    LET L == lists[l]
        c == FindSorted(L, v)
        k == UpTo(c[1], v)
    IN  /\ Held < MaxLen /\ Sorted(Elements(l))
        /\ IF c[1] = NULL THEN Become(l, BlAppend(L, v)) /\ result' = <<L.n>>
           ELSE IF unique /\ k > 0 /\ heap[c[1]].items[k] = v
           THEN result' = <<-1>> /\ UNCHANGED <<heap, lists>>
           ELSE Become(l, BlInsert(Cached(L, c), c[2] + k, v)) /\ result' = <<c[2] + k>>

SortedIndexOf(l, v) ==
    LET L == lists[l]
        c == FindSorted(L, v)
        k == UpTo(c[1], v)
    IN  /\ Sorted(Elements(l))
        /\ IF c[1] = NULL THEN result' = <<-1>> /\ UNCHANGED <<heap, lists>>
           ELSE /\ Become(l, <<Cached(L, c), heap>>)
                /\ result' = IF k > 0 /\ heap[c[1]].items[k] = v THEN <<c[2] + k - 1>> ELSE <<-1>>

\* remove_value keeps prev, the node before the one the value was in, as the
\* shortcut, with the number of elements before the latter.
RemoveValue(l, v) ==
    LET L == lists[l]
        i == SelectInSeq(Elements(l), LAMBDA e : e = v) - 1
        c == Walk(<<L.head, 0>>, i)
        prev == Previous(L, c[1])
        Lh == RemoveFrom(L, c[1], prev, i - c[2] + 1)
    IN  IF i = -1 THEN result' = <<-1>> /\ UNCHANGED <<heap, lists>>
        ELSE Become(l, <<Cached(Lh[1], <<prev, c[2]>>), Lh[2]>>) /\ result' = <<i>>

InFirstNode(l, v) ==
    Contains(Elements(l), v) => Contains(heap[lists[l].head].items, v)

OneNodeToEmpty(l, m, i) ==
    lists[m].head = NULL /\ heap[FindNode(lists[l], i)[1]].next = NULL

Access == \E l \in Lists : \E i \in 0 .. lists[l].n - 1 :
    \/ Get(l, i) \/ RemoveIndex(l, i)
    \/ \E v \in Values : Set(l, i, v)
    \/ \E n \in 1 .. MaxLen : Copy(l, i, n) \/ RemoveRange(l, i, n)

Update == \E l \in Lists :
    \/ Pop(l) \/ RemoveAll(l) \/ BlReverse(l) \/ BlSort(l)
    \/ \E m \in Lists : AppendList(l, m)
    \/ \E v \in Values, i \in 0 .. lists[l].n : Insert(l, i, v)
    \/ \E v \in Values : SortedIndexOf(l, v) \/ BlFind(l, v)
    \/ \E v \in Values, u \in BOOLEAN : BlInsertSorted(l, v, u) \/ InsertAscending(l, v, u)

\* Values that are removed are in the first node, where remove_value is right.
RemoveInFirst == \E l \in Lists, v \in Values : InFirstNode(l, v) /\ RemoveValue(l, v)
RemoveAny   == \E l \in Lists, v \in Values : RemoveValue(l, v)

\* Splits that move one node to an empty list, where bl_split is right.
SplitOne == \E l, m \in Lists : \E i \in 0 .. lists[l].n - 1 :
    OneNodeToEmpty(l, m, i) /\ Split(l, m, i)
SplitAny == \E l, m \in Lists : \E i \in 0 .. lists[l].n - 1 : Split(l, m, i)

Next == Access \/ Update \/ RemoveInFirst \/ SplitOne
Spec == Init /\ [][Next]_vars

\* With the calls that no code of the solver makes, or that go wrong.
AnySpec   == Init /\ [][Next \/ RemoveAny]_vars
SplitSpec == Init /\ [][Next \/ SplitAny]_vars
ReuseSpec == Init /\ [][Next \/ \E l \in Lists : RemoveAllButFirst(l)]_vars

--------------------------------------------------------------------------------
\* What bl_check_consistency asks: after any sequence of operations the tail
\* pointer is the last node, no node is empty or too full, and the count is the
\* sum over the nodes.  No node is leaked, or shared by two lists.
Consistent ==
    /\ \A l \in Lists :
          LET L == lists[l]
              ns == Nodes(heap, L.head)
          IN  /\ L.tail = IF ns = <<>> THEN NULL ELSE Last(ns)
              /\ L.n = Skipped(heap, ns)[Len(ns)]
    /\ \A p \in DOMAIN heap : Len(heap[p].items) \in 1 .. BlockSize
    /\ \A p \in DOMAIN heap : \E l \in Lists : p \in Range(Nodes(heap, lists[l].head))
    /\ \A l, m \in Lists : l # m =>
          Range(Nodes(heap, lists[l].head)) \cap Range(Nodes(heap, lists[m].head)) = {}

\* The shortcut is a node of the list itself, and knows how many elements come
\* before that node.
ShortcutRight ==
    \A l \in Lists : lists[l].last # NULL =>
        LET ns == Nodes(heap, lists[l].head)
        IN  \E k \in DOMAIN ns : /\ ns[k] = lists[l].last
                                 /\ lists[l].lastn = Skipped(heap, ns)[k - 1]

\* Whatever the shortcut and the shape of the nodes, the lists are sequences.
A == INSTANCE AbstractList WITH seqs <- [l \in Lists |-> Elements(l)]
ImplementsList == A!AbstractSpec

\* "Returns a pointer to the nth element" (bl_access).
AccessFindsNth ==
    \A l \in Lists : \A i \in 0 .. lists[l].n - 1 :
        Element(FindNode(lists[l], i), i) = Elements(l)[i + 1]
================================================================================
