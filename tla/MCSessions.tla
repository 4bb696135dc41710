----------------------------- MODULE MCSessions -----------------------------
(* Small instances of Sessions: two calls in one bridge, a third in another. *)
EXTENDS Sessions, TLC

CONSTANTS b1, b2, c1, c2, c3

HomeThree == c1 :> b1 @@ c2 :> b1 @@ c3 :> b2
=============================================================================
