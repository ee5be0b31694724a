----------------------------- MODULE AbstractList -----------------------------
(***************************************************************************)
(* What the lists of bl.h promise: each is a sequence, its elements        *)
(* counted from 0, and an operation that answers, answers from the         *)
(* sequence as it stands.                                                  *)
(***************************************************************************)
EXTENDS Integers, Sequences, SequencesExt

CONSTANTS Lists, Values

VARIABLES
    seqs,     \* the elements of each list
    result    \* the answer of the last operation: elements, or an index

avars == <<seqs, result>>

Init == seqs = [l \in Lists |-> <<>>] /\ result = <<>>

\* bl_get, bl_access, bl_copy: the elements from start on.
Read(l, start, n) ==
    /\ result' = SubSeq(seqs[l], start + 1, start + n)
    /\ UNCHANGED seqs

Put(l, s) == result' = <<>> /\ seqs' = [seqs EXCEPT ![l] = s]

Insert(l, i, v)  == i \in 0 .. Len(seqs[l]) /\ Put(l, InsertAt(seqs[l], i + 1, v))
Set(l, i, v)     == i \in 0 .. Len(seqs[l]) - 1 /\ Put(l, ReplaceAt(seqs[l], i + 1, v))
Reversal(l)      == Put(l, Reverse(seqs[l]))

\* The elements in another order, the ascending one.
Sort(l) == \E order \in Bijection(DOMAIN seqs[l], DOMAIN seqs[l]) :
    LET s == [i \in DOMAIN seqs[l] |-> seqs[l][order[i]]]
    IN  (\A i \in 1 .. Len(s) - 1 : s[i] <= s[i + 1]) /\ Put(l, s)

Delete(l, start, n) ==
    Put(l, SubSeq(seqs[l], 1, start) \o SubSeq(seqs[l], start + n + 1, Len(seqs[l])))

Pop(l) == /\ seqs[l] # <<>>
          /\ result' = <<Last(seqs[l])>> /\ seqs' = [seqs EXCEPT ![l] = Front(@)]

Concat(l, m) ==
    /\ l # m
    /\ result' = <<>> /\ seqs' = [seqs EXCEPT ![l] = @ \o seqs[m], ![m] = <<>>]

\* The elements from i on move to the end of m.
Split(l, m, i) ==
    /\ l # m /\ result' = <<>>
    /\ seqs' = [seqs EXCEPT ![l] = SubSeq(@, 1, i),
                             ![m] = @ \o SubSeq(seqs[l], i + 1, Len(seqs[l]))]

\* An element joins a sorted list, anywhere among its equals, or stays out.
InsertSorted(l, v, unique) ==
    IF unique /\ Contains(seqs[l], v)
    THEN result' = <<-1>> /\ UNCHANGED seqs
    ELSE \E i \in 0 .. Len(seqs[l]) :
            /\ \A j \in DOMAIN seqs[l] : IF j <= i THEN seqs[l][j] <= v ELSE v <= seqs[l][j]
            /\ result' = <<i>> /\ seqs' = [seqs EXCEPT ![l] = InsertAt(@, i + 1, v)]

\* Where v is, or -1.
IndexOf(l, v) ==
    /\ UNCHANGED seqs
    /\ \/ ~Contains(seqs[l], v) /\ result' = <<-1>>
       \/ \E i \in DOMAIN seqs[l] : seqs[l][i] = v /\ result' = <<i - 1>>

\* The first v leaves the list.
RemoveValue(l, v) ==
    \/ ~Contains(seqs[l], v) /\ result' = <<-1>> /\ UNCHANGED seqs
    \/ /\ Contains(seqs[l], v)
       /\ LET i == SelectInSeq(seqs[l], LAMBDA e : e = v)
          IN  result' = <<i - 1>> /\ seqs' = [seqs EXCEPT ![l] = RemoveAt(@, i)]

Next == \E l \in Lists :
    \/ \E m \in Lists : Concat(l, m)
    \/ Reversal(l) \/ Pop(l)
    \/ \E m \in Lists, i \in 0 .. Len(seqs[l]) - 1 : Split(l, m, i)
    \/ \E i \in 0 .. Len(seqs[l]) : \E n \in 1 .. Len(seqs[l]) - i :
          Read(l, i, n) \/ Delete(l, i, n)
    \/ \E v \in Values, i \in 0 .. Len(seqs[l]) : Insert(l, i, v) \/ Set(l, i, v)
    \/ \E v \in Values : \/ IndexOf(l, v) \/ RemoveValue(l, v)
                         \/ \E u \in BOOLEAN : InsertSorted(l, v, u)
    \/ Sort(l)

AbstractSpec == Init /\ [][Next]_avars
================================================================================
