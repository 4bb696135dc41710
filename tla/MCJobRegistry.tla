---------------------------- MODULE MCJobRegistry ----------------------------
(* Small instances of JobRegistry. *)
EXTENDS JobRegistry, TLC

CONSTANTS b1, b2, c1, c2

\* One API thread in each of two bridges.
HomePair == c1 :> b1 @@ c2 :> b2
=============================================================================
