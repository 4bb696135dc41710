------------------------------- MODULE Claims -------------------------------
(***************************************************************************)
(* What job ids promise to the calls of all bridges: an id is held by one  *)
(* call at a time, from the claim of its record file until the file is     *)
(* given back.  Consult is shown to implement this specification.          *)
(***************************************************************************)
CONSTANTS Ids, Calls
VARIABLE holders    \* [Ids -> SUBSET Calls]

Init == holders = [i \in Ids |-> {}]

Claim(i, c) ==
    /\ holders[i] = {}
    /\ \A k \in Ids : c \notin holders[k]
    /\ holders' = [holders EXCEPT ![i] = {c}]

GiveBack(i, c) ==
    /\ c \in holders[i]
    /\ holders' = [holders EXCEPT ![i] = @ \ {c}]

Next == \E i \in Ids, c \in Calls : Claim(i, c) \/ GiveBack(i, c)

Spec == Init /\ [][Next]_holders

\* No two calls work under one id, whose files they would overwrite.
Exclusive == \A i \in Ids : \A c, d \in holders[i] : c = d
=============================================================================
