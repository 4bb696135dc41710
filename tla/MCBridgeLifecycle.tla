-------------------------- MODULE MCBridgeLifecycle --------------------------
(* A small instance of BridgeLifecycle: two bridges, two nested cleanups. *)
EXTENDS BridgeLifecycle, TLC

CONSTANTS b1, b2, c1, c2, m1, m2

HomeLife == c1 :> b1 @@ c2 :> b2 @@ m1 :> b1 @@ m2 :> b1
\* The client of the stopped bridge starts the job, the other one cancels it, and
\* each does what these calls lead to: recovery, and waiting for its end.
AsksLife == c1 :> {"start"} @@ c2 :> {"cancel"}
MainLife == <<m1, m2>>
=============================================================================
