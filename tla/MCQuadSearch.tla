------------------------------ MODULE MCQuadSearch ------------------------------
(* Code trees of quads of four stars: codes are four-dimensional.           *)
EXTENDS QuadSearch

\* Clouds that are clumped in two of the dimensions, in every way.
Ys == <<2, 3, 2, 4, 3, 2, 4>>
Columns(n, S) == {f \in [1 .. n -> S] : \A k \in 1 .. n - 1 : f[k] <= f[k + 1]}
SevenCodes == {[k \in 1 .. 7 |-> <<xs[k], Ys[k], 4, 1>>] : xs \in Columns(7, {1, 2, 3, 6})}

\* Seven interior nodes, and a clump that leaves the first of them empty.
Ys15 == <<7, 1, 4, 4, 0, 6, 2, 5, 3, 7, 1, 4, 0, 6, 2>>
FifteenCodes == {[k \in 1 .. 15 |-> <<f[k], Ys15[k], 4, k % 4>>] :
                    f \in { [k \in 1 .. 15 |-> (k * 3) % 8], [k \in 1 .. 15 |-> k \div 2],
                            [k \in 1 .. 15 |-> IF k < 8 THEN 5 ELSE (k * 5) % 8] }}
Clump == [k \in 1 .. 15 |-> IF k < 14 THEN <<5, 5, 4, 1>> ELSE <<6, k \div 3, 4, 1>>]

\* Codes that obey the invariants, some of them at their very edge.
Legal == { << <<1, 2, 1, 5>>, <<2, 5, 3, 1>>, <<3, 3, 4, 4>>, <<3, 6, 4, 2>>, <<0, 3, 6, 3>>,
              <<2, 2, 5, 5>>, <<3, 4, 3, 3>> >>,
           << <<3, 2, 3, 5>>, <<3, 2, 4, 5>>, <<2, 2, 4, 5>>, <<1, 1, 6, 6>>, <<2, 4, 2, 4>>,
              <<0, 1, 0, 1>>, <<3, 5, 4, 2>> >> }

SomeClouds == SevenCodes \cup FifteenCodes \cup {Clump} \cup Legal \cup { << <<3, 2, 4, 1>> >> }

Asked == {<<x, y, 8, 2>> : <<x, y>> \in
            {<<1, 4>>, <<3, 9>>, <<5, 6>>, <<7, 7>>, <<11, 4>>, <<14, 14>>, <<4, 4>>,
             <<10, 8>>, <<-1, 6>>, <<5, 15>>}}

SomeQuads == { << <<6, 4>>, <<7, 9>> >>, << <<9, 4>>, <<6, 11>> >>, << <<7, 5>>, <<5, 4>> >>,
               << <<8, 8>>, <<2, 3>> >>, << <<-1, 6>>, <<13, 6>> >> }
================================================================================
