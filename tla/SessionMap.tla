----------------------------- MODULE SessionMap -----------------------------
(***************************************************************************)
(* What sessions.json promises to all bridges of a project: one map from   *)
(* sessions to conversations, in which every use and every close takes     *)
(* effect at once and touches its own session only.  It may be lost, but   *)
(* as a whole.  Sessions is shown to implement this specification.         *)
(***************************************************************************)
EXTENDS Naturals

CONSTANTS Names, Conversations, None
VARIABLE map    \* [Names -> {None} \cup [conversation, turns]]

Empty == [s \in Names |-> None]

Init == map = Empty

\* The next turn of s, in a conversation of its own or in the one it had.
Use(s, v) == map' = [map EXCEPT ![s] =
    IF @ = None THEN [conversation |-> v, turns |-> 1]
                ELSE [conversation |-> v, turns |-> @.turns + 1]]

Close(s) ==
    /\ map[s] # None
    /\ map' = [map EXCEPT ![s] = None]

Lose == map' = Empty

Next == Lose \/ \E s \in Names : Close(s) \/ \E v \in Conversations : Use(s, v)

Spec == Init /\ [][Next]_map
=============================================================================
