---------------------------- MODULE JobLifecycle ----------------------------
(***************************************************************************)
(* What the job registry promises to whoever reads the state directory:    *)
(* a job is announced once, ends once, ends for good, starts no process    *)
(* after its end, and its end is entered in the ledger at most once.       *)
(* JobRegistry is shown to implement this specification.                   *)
(***************************************************************************)
EXTENDS Naturals

CONSTANTS Jobs,         \* job ids
          MaxAttempts   \* agy processes a job may start (MAX_ATTEMPTS)

VARIABLES
    state,      \* [Jobs -> "absent" | "running" | an outcome]: the public record
    spawned,    \* [Jobs -> SUBSET Attempts]: the processes started for the job
    reported    \* SUBSET Jobs: the jobs whose end was entered in the ledger

vars == <<state, spawned, reported>>

Attempts == 1..MaxAttempts
Outcomes == {"completed", "failed", "timeout", "cancelled"}
Ended(j) == state[j] \in Outcomes

TypeOK ==
    /\ state \in [Jobs -> {"absent", "running"} \cup Outcomes]
    /\ spawned \in [Jobs -> SUBSET Attempts]
    /\ reported \subseteq Jobs

Init ==
    /\ state = [j \in Jobs |-> "absent"]
    /\ spawned = [j \in Jobs |-> {}]
    /\ reported = {}

\* A process of the job is started: a fresh attempt of a job that has not ended.
Spawn(j, a) ==
    /\ ~Ended(j)
    /\ a \notin spawned[j]
    /\ spawned' = [spawned EXCEPT ![j] = @ \cup {a}]
    /\ UNCHANGED <<state, reported>>

\* The job becomes visible, once a process of it was started.
Announce(j) ==
    /\ state[j] = "absent"
    /\ spawned[j] # {}
    /\ state' = [state EXCEPT ![j] = "running"]
    /\ UNCHANGED <<spawned, reported>>

Conclude(j, outcome) ==
    /\ state[j] = "running"
    /\ state' = [state EXCEPT ![j] = outcome]
    /\ UNCHANGED <<spawned, reported>>

Report(j) ==
    /\ Ended(j)
    /\ j \notin reported
    /\ reported' = reported \cup {j}
    /\ UNCHANGED <<state, spawned>>

Next == \E j \in Jobs :
    \/ \E a \in Attempts : Spawn(j, a)
    \/ Announce(j)
    \/ \E outcome \in Outcomes : Conclude(j, outcome)
    \/ Report(j)

Spec == Init /\ [][Next]_vars

----------------------------------------------------------------------------
\* Only the end of an announced job is reported.
ReportedEnded == \A j \in reported : Ended(j) /\ spawned[j] # {}

\* The end of a job is final and fixes the set of its processes: nothing
\* reopens it, changes its outcome or starts a process for it.
EndKept == \A j \in Jobs : Ended(j) => state'[j] = state[j] /\ spawned'[j] = spawned[j]
EndIsFinal == [][EndKept]_vars
=============================================================================
