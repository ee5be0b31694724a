--------------------------- MODULE UniformizeCatalog ---------------------------
(***************************************************************************)
(* uniformize_catalog: from a reference catalog, the stars an index is     *)
(* built from.  The rows are placed, brightest first, in the cells of a    *)
(* fine healpix grid; a cell keeps as many stars as there are sweeps, and  *)
(* none that is too close to a star kept before.  Then the brightest star  *)
(* of every cell is written, then the second of every cell, and so on.     *)
(*                                                                         *)
(* The sky is a great circle cut open, with integer positions: a cell is   *)
(* an interval, its neighbours are the intervals beside it, and a healpix  *)
(* of the coarse grid (bighp) is an interval of cells.                     *)
(***************************************************************************)
EXTENDS Ranking, SequencesExt, FiniteSetsExt, TLC

CONSTANTS
    NRows,      \* rows of the catalog
    Skies,      \* functions from rows to positions that are tried
    Mag,        \* the sort column: the magnitude of a row
    Params,     \* index_params_t: the sets of options that are tried
    MaxPos,     \* bound: the last position of the sky
    CellWidth,  \* width of a cell (Nside of the uniformization)
    BigCells    \* cells in a healpix of the coarse grid

Rows  == 1 .. NRows
Cells == 0 .. MaxPos \div CellWidth

ASSUME RowsAssumption == Mag \in [Rows -> Nat] /\ IsInjective(Mag)
ASSUME SkyAssumption  == \A s \in Skies : s \in [Rows -> 0 .. MaxPos] /\ IsInjective(s)
\* The neighbours of a cell hold every star within the deduplication radius.
ASSUME DedupAssumption == \A q \in Params : q.dedup \in 0 .. CellWidth
ASSUME GridAssumption == NRows \in Nat /\ MaxPos \in Nat /\ CellWidth \in Nat \ {0}
ASSUME OptionsAssumption ==
    \A q \in Params : q.sweeps \in Nat /\ q.shared \in BOOLEAN /\ q.sorted \in BOOLEAN

VARIABLES
    at,       \* position of each row
    p,        \* the options of this build
    stage,    \* the step of build_index that comes next
    inorder,  \* rows still to be placed
    lists,    \* starlists: the rows kept in each cell
    uniform   \* the rows of the uniformized catalog, in order

Distance(i, j) == LET d == at[i] - at[j] IN IF d < 0 THEN -d ELSE d
Cell(r) == at[r] \div CellWidth
AllSky  == p.bighp = -1
Outside(c) == c \div BigCells /= p.bighp

CatalogInit ==
    /\ at \in Skies
    /\ p \in Params
    /\ stage = IF p.shared THEN "startree" ELSE "read"
    /\ inorder = << >>
    /\ lists = [c \in Cells |-> << >>]
    /\ uniform = IF p.shared THEN [i \in Rows |-> i] ELSE << >>

\* The order of the sort column.
ByMag == {e \in Rows \X Rows : Mag[e[1]] < Mag[e[2]]}

\* Mutant of ReadCatalog: sorted as fluxes are, faintest magnitude first.
ReadDescending ==
    /\ stage = "read"
    /\ inorder' = IF p.sorted
                  THEN InOrderOf({e \in Rows \X Rows : Mag[e[1]] > Mag[e[2]]},
                                 {r \in Rows : Mag[r] > p.brightcut})
                  ELSE [i \in Rows |-> i]
    /\ stage' = "place"
    /\ UNCHANGED <<at, p, lists, uniform>>

\* The catalog is sorted if a sort column is given, and what is not above the
\* cut is dropped.
ReadCatalog ==
    /\ stage = "read"
    /\ inorder' = IF p.sorted
                  THEN InOrderOf(ByMag, {r \in Rows : Mag[r] > p.brightcut})
                  ELSE [i \in Rows |-> i]
    /\ stage' = "place"
    /\ UNCHANGED <<at, p, lists, uniform>>

\* The cells around the coarse healpix, found from the seeds on its boundary.
\* A healpix that is a single cell gets no seeds, hence no margin.
Margin ==
    LET first == p.bighp * BigCells
        seeds == IF BigCells > 1 THEN {first, first + BigCells - 1} ELSE {}
    IN  {c \in Cells : /\ Outside(c)
                       /\ \E s \in seeds : c - s \in -p.margin .. p.margin}

\* il_sorted_contains(myhps, hp): the list holds 64-bit numbers, and its n
\* entries are read as n 32-bit numbers: every other one is the (zero) upper
\* half of an entry.
MarginContains(hp) ==
    LET myhps == Increasing(Margin)
        n     == Len(myhps)
        narrow == [i \in 1 .. n |-> IF i % 2 = 1 THEN myhps[(i + 1) \div 2] ELSE 0]
        search[lower \in 0 .. n + 1, upper \in 0 .. n + 1] ==
            LET mid == (lower + upper) \div 2
            IN  IF lower >= upper - 1 THEN lower
                ELSE IF hp >= narrow[mid] THEN search[mid, upper] ELSE search[lower, mid]
        lower == search[0, n + 1]
    IN  n > 0 /\ hp <= narrow[n] /\ lower > 0 /\ narrow[lower] = hp

InBounds(c) ==
    \/ AllSky
    \/ ~Outside(c)
    \/ p.margin > 0 /\ MarginContains(c)

\* Mutant of IsDuplicate: only the star's own cell is searched.
DuplicateInCell(r) == \E s \in Range(lists[Cell(r)]) : Distance(r, s) <= p.dedup

IsDuplicate(r) ==
    \E c \in {Cell(r) - 1, Cell(r), Cell(r) + 1} \cap Cells :
        \E s \in Range(lists[c]) : Distance(r, s) <= p.dedup

\* One row is put in the list of its cell, or skipped.
Place ==
    /\ stage = "place"
    /\ inorder /= << >>
    /\ LET r == Head(inorder)
           keep == /\ InBounds(Cell(r))
                   /\ p.sweeps = 0 \/ Len(lists[Cell(r)]) < p.sweeps
                   /\ ~(p.dedup > 0 /\ IsDuplicate(r))
       IN  lists' = IF keep THEN [lists EXCEPT ![Cell(r)] = Append(@, r)] ELSE lists
    /\ inorder' = Tail(inorder)
    /\ UNCHANGED <<at, p, stage, uniform>>

\* The k-th stars of all cells, sorted again if there is a sort column.
Sweep(k) ==
    LET rows == {c \in Cells : Len(lists[c]) >= k}
    IN  IF p.sorted
        THEN InOrderOf(ByMag, {lists[c][k] : c \in rows})
        ELSE LET inCells == Increasing(rows) IN [i \in 1 .. Len(inCells) |-> lists[inCells[i]][k]]

\* The first n sweeps, one after the other.
Sweeps[n \in 0 .. p.sweeps] == IF n = 0 THEN << >> ELSE Sweeps[n - 1] \o Sweep(n)

WriteSweeps ==
    /\ stage = "place"
    /\ inorder = << >>
    /\ uniform' = Sweeps[p.sweeps]
    /\ stage' = "startree"
    /\ UNCHANGED <<at, p, inorder, lists>>

UniformizeNext == ReadCatalog \/ Place \/ WriteSweeps
-----------------------------------------------------------------------------
Uniformized == ~p.shared /\ stage \notin {"read", "place"}
Brighter(r, s) == IF p.sorted THEN Mag[r] < Mag[s] ELSE r < s
AboveCut(r) == p.sorted => Mag[r] > p.brightcut

(* No two stars of the index are within the deduplication radius, in one   *)
(* cell or in two.                                                         *)
NoCloseStars ==
    Uniformized /\ p.dedup > 0 =>
        \A r, s \in Range(uniform) : r /= s => Distance(r, s) > p.dedup

(* A row of the healpix is left out only for a reason: its cell is full of *)
(* brighter stars, or a brighter star of the index is too close to it.     *)
KeepsBrightest ==
    Uniformized =>
        \A r \in Rows \ Range(uniform) : AboveCut(r) /\ (AllSky \/ ~Outside(Cell(r))) =>
            LET brighter == {s \in Range(uniform) : Brighter(s, r)}
            IN  \/ Cardinality({s \in brighter : Cell(s) = Cell(r)}) >= p.sweeps
                \/ p.dedup > 0 /\ \E s \in brighter : Distance(r, s) <= p.dedup

(* build-index-main.c:61: "[-m <margin>]: add a margin of <margin>         *)
(* healpixels".  The brightest star of a margin cell is kept unless it is  *)
(* too close to another.                                                   *)
MarginKept ==
    Uniformized /\ ~AllSky /\ p.margin > 0 /\ p.dedup = 0 /\ p.sweeps > 0 =>
        \A c \in Margin : (\E r \in Rows : Cell(r) = c /\ AboveCut(r)) =>
            \E r \in Range(uniform) : Cell(r) = c
================================================================================
