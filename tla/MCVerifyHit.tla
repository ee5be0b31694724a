------------------------------ MODULE MCVerifyHit ------------------------------
(* A quad of three stars among six field stars and five reference stars. *)
EXTENDS VerifyHit, TLC

Quad1 == <<1, 2, 5>>
Quad2 == <<2, 4, 5>>
\* 10 * log(d + (1 - d) * mu / 4) for d = 0.25, rounded.
Distractors == 0 :> -14 @@ 1 :> -8 @@ 2 :> -5 @@ 3 :> -2 @@ 4 :> 0 @@ 5 :> 2 @@ 6 :> 3
Bail == -20
Odds == {-6, 4, 30}
TwoRefOrders == {<<1, 2, 3, 4, 5>>, <<4, 3, 1, 5, 2>>}
TwoTestOrders == {<<1, 2, 3, 4, 5, 6>>, <<3, 6, 1, 4, 2, 5>>}
================================================================================
