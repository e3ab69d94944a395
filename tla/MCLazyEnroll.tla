---------------------------- MODULE MCLazyEnroll ----------------------------
(* LazyEnroll with three devices, two of them in one group, the others in   *)
(* the first and the last of the round.                                     *)
EXTENDS LazyEnroll

CONSTANTS d1, d2, d3

Groups3 == [d \in {d1, d2, d3} |-> IF d = d1 THEN 0 ELSE 3]
=============================================================================
