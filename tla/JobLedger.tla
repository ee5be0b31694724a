------------------------------ MODULE JobLedger ------------------------------
(***************************************************************************)
(* What the submission daemon promises for the images of the users: an     *)
(* image waits until it is taken by one solver job; a job that was         *)
(* interrupted gives its image back; an answer is given once and kept.     *)
(***************************************************************************)
CONSTANT Images

VARIABLE ledger   \* state of every image

State == {"absent", "waiting", "taken", "answered"}

Init == ledger = [u \in Images |-> "absent"]

Move(u, from, to) ==
    ledger[u] = from /\ ledger' = [ledger EXCEPT ![u] = to]

Arrive(u) == Move(u, "absent", "waiting")
Take(u) == Move(u, "waiting", "taken")
Answer(u) == Move(u, "taken", "answered")

\* A restart gives back the images of all interrupted jobs at once.
GiveBack ==
    ledger' = [u \in Images |->
                 IF ledger[u] = "taken" THEN "waiting" ELSE ledger[u]]

Next == GiveBack \/ \E u \in Images : Arrive(u) \/ Take(u) \/ Answer(u)

Spec == Init /\ [][Next]_ledger
=============================================================================
