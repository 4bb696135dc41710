------------------------------ MODULE MCConsult ------------------------------
(* Small instances of Consult: two calls in one bridge, a third in another. *)
EXTENDS Consult, TLC

CONSTANTS b1, b2, c1, c2, c3

HomeThree == c1 :> b1 @@ c2 :> b1 @@ c3 :> b2
\* The calls of one bridge are alike.
SameBridge == Permutations({c1, c2})
=============================================================================
