--------------------------- MODULE BridgeLifecycle ---------------------------
(***************************************************************************)
(* The end of one bridge process, on top of JobRegistry: serve() of        *)
(* server.py and JobRegistry.shutdown of jobs.py.  The main thread cleans  *)
(* up in the handler of SIGTERM, SIGINT or SIGHUP and in the finally of    *)
(* serve() once stdio is closed.  A handler interrupts whatever the main   *)
(* thread does, a cleanup included: the cleanups are a stack, and each of  *)
(* them works as an API thread of its own, which no lower one can serve    *)
(* until the upper one returns.                                            *)
(*                                                                         *)
(* A cleanup that needs a flock or the _lock which a lower frame holds     *)
(* waits for ever, here as in the code: only the top one takes steps, the  *)
(* lock is no RLock and a flock belongs to its file handle.  A signal that *)
(* arrives inside List or Get, which hold _lock within one step, is taken  *)
(* after the step; in the code it hangs in the same way.                   *)
(*                                                                         *)
(* The text shutdown() writes into a cancelled record afterwards           *)
(* (jobs.py:615-622) leaves state, attempts and pid as they are.           *)
(***************************************************************************)
EXTENDS JobRegistry, Sequences

CONSTANTS Host,     \* the bridge that is told to stop
          Main,     \* Seq of Callers: the main thread of Host at each stack depth
          Asks,     \* bound: the operations each client's thread begins
          MaxStops  \* bound: signals and ends of stdio in a behaviour

MainThreads == {Main[i] : i \in DOMAIN Main}
Clients == Callers \ MainThreads

ASSUME LifecycleAssumption ==
    /\ Host \in Bridges
    /\ Main \in Seq(Callers) /\ Main # <<>>
    /\ \A i, k \in DOMAIN Main : Main[i] = Main[k] => i = k
    /\ \A m \in MainThreads : Home[m] = Host
    /\ Asks \in [Clients -> SUBSET Operations]
    /\ MaxStops \in Nat

VARIABLES
    cleanups,   \* Seq of [why, step, todo], the running one last
    asked,      \* SUBSET Jobs: served jobs that a cleanup has found
    raised,     \* SUBSET Jobs: jobs for which _finalize or cancel met a file error
    unrecorded, \* SUBSET Jobs: those among them whose retry is in no record
    stops       \* Nat: signals and ends of stdio so far

lifeVars == <<cleanups, asked, raised, unrecorded, stops>>
allVars == <<vars, lifeVars>>

Steps == {"list", "cancel", "exit"}
Cleanups == [why : {"signal", "finally"}, step : Steps, todo : SUBSET Jobs]

Depth == Len(cleanups)
Stopping == cleanups # <<>>
Top == cleanups[Depth]
Me == Main[Depth]
TopBecomes(c) == cleanups' = [cleanups EXCEPT ![Depth] = c]

LifeInit ==
    /\ Init
    /\ cleanups = <<>> /\ stops = 0
    /\ asked = {} /\ raised = {} /\ unrecorded = {}

\* serve() is entered again with a new process.
Forget == cleanups' = <<>> /\ asked' = {} /\ UNCHANGED <<raised, unrecorded, stops>>

----------------------------------------------------------------------------
\* A signal arrives, or server.run returns: shutdown() is called.
Enter(why) ==
    /\ up[Host] /\ Depth < Len(Main)
    /\ stops < MaxStops /\ stops' = stops + 1
    /\ why = "finally" => ~Stopping
    /\ cleanups' = Append(cleanups, [why |-> why, step |-> "list", todo |-> {}])
    /\ UNCHANGED <<vars, asked, raised, unrecorded>>

\* _servers of Host: what a thread is about to close is no longer in it.
Served == {j \in servers[Host] : ~Closing(Host, j)}

\* Mutant: _servers is read without _lock.
ListUnlocked ==
    /\ Stopping /\ Top.step = "list"
    /\ TopBecomes([Top EXCEPT !.step = "cancel", !.todo = Served])
    /\ asked' = asked \cup Served
    /\ UNCHANGED <<vars, raised, unrecorded, stops>>

\* The served jobs, under _lock.
List ==
    /\ Stopping /\ Top.step = "list" /\ MutexFree(Host)
    /\ TopBecomes([Top EXCEPT !.step = "cancel", !.todo = Served])
    /\ asked' = asked \cup Served
    /\ UNCHANGED <<vars, raised, unrecorded, stops>>

\* cancel() of the next job; a job that is no longer known raises.
AskCancel(j) ==
    /\ Stopping /\ j \in Top.todo /\ thread[Me].pc = "idle"
    /\ IF Current(Host, j) = Absent THEN UNCHANGED vars ELSE Get(Me, "cancel", j)
    /\ TopBecomes([Top EXCEPT !.todo = @ \ {j}])
    /\ UNCHANGED <<asked, raised, unrecorded, stops>>

\* The jobs for which a file operation of thread t in phase pc fails in this step.
FailingIn(pcs) ==
    {thread[t].job : t \in {u \in Threads : FinalizeFails(u) /\ thread[u].pc \in pcs}}
Failures ==
    /\ raised' = raised \cup FailingIn(Phases)
    /\ unrecorded' = unrecorded \cup FailingIn({"respawned"})

\* cancel() goes on; what it raises is suppressed.
Cancelling ==
    /\ Stopping
    /\ \/ FinalizeStep(Me) \/ Probe(Me) \/ CancelFindsEnded(Me) \/ CancelCommits(Me)
       \/ FinalizeFails(Me)
    /\ Failures
    /\ UNCHANGED <<cleanups, asked, stops>>

\* Mutant: the cleanup is not waited for.
ListIsDone == Top.step = "cancel" /\ Top.todo = {}

\* shutdown() returns.
CleanedUp ==
    Top.step = "cancel" /\ Top.todo = {} /\ thread[Me].pc = "idle"

\* _die_by_signal: the default action of the signal, at once.
DieBySignal ==
    /\ Stopping /\ Top.why = "signal" /\ CleanedUp
    /\ Die(Host)
    /\ cleanups' = <<>>
    /\ UNCHANGED <<crashes, asked, raised, unrecorded, stops>>

\* serve() returns: the interpreter joins the worker threads, not the watchers.
ServeReturns ==
    /\ Stopping /\ Top.why = "finally" /\ CleanedUp
    /\ TopBecomes([Top EXCEPT !.step = "exit"])
    /\ UNCHANGED <<vars, asked, raised, unrecorded, stops>>

ProcessEnds ==
    /\ Stopping /\ Top.step = "exit"
    /\ \A c \in Clients : Home[c] = Host => thread[c].pc = "idle"
    /\ Die(Host)
    /\ cleanups' = <<>>
    /\ UNCHANGED <<crashes, asked, raised, unrecorded, stops>>

----------------------------------------------------------------------------
Begins(c) == thread[c].pc = "idle" /\ thread'[c].pc # "idle"

\* Everything else that happens meanwhile: the main thread does nothing of it.
\* A worker may still be on its way into start(), get() or cancel().
Meanwhile ==
    /\ Next
    /\ \A m \in MainThreads : thread'[m] = thread[m]
    /\ Failures
    /\ UNCHANGED <<cleanups, asked, stops>>
    /\ \A c \in Clients : Begins(c) => thread'[c].op \in Asks[c]
    /\ up'[Host] = up[Host]

\* Host is killed, or started again.
Replaced ==
    /\ Crash(Host) \/ Restart(Host)
    /\ Forget

Shutdown == List \/ (\E j \in Jobs : AskCancel(j)) \/ Cancelling
            \/ DieBySignal \/ ServeReturns

LifeNext ==
    \/ \E why \in {"signal", "finally"} : Enter(why)
    \/ Shutdown \/ ProcessEnds
    \/ Meanwhile \/ Replaced

LifeSpec == LifeInit /\ [][LifeNext]_allVars
----------------------------------------------------------------------------
\* The inductive invariant, on top of Inv.

LifeTyped ==
    /\ cleanups \in Seq(Cleanups) /\ Depth <= Len(Main)
    /\ asked \subseteq Jobs /\ raised \subseteq Jobs /\ unrecorded \subseteq Jobs
    /\ Stopping => up[Host]

\* A thread of bridge b has decided how job j ends and not written it yet.
Publishing(b, j) == \E t \in Threads :
    BridgeOf(t) = b /\ thread[t].job = j /\ thread[t].pc = "publish"

\* A server is open for watched jobs only, or it is about to be closed.
WatchInv == \A b \in Bridges : \A j \in servers[b] : j \in watched[b] \/ Closing(b, j)

\* Only a file error leads to the last safety net, only a failed start() takes a
\* job back.
RaisedInv ==
    /\ \A j \in Jobs : thread[j].pc \in {"forcefail", "closing"} => j \in raised
    /\ \A c \in Callers : thread[c].pc = "closing" => thread[c].job \in withdrawn

\* Without file errors of its own a job that has not ended is watched by the
\* bridge that started it until a thread of that bridge is about to end it.
HeldInv == \A j \in Jobs \ raised :
    (owner[j] \in Bridges /\ disk[j] # Absent /\ ~EndedOnDisk(j))
        => j \in watched[owner[j]] \/ Publishing(owner[j], j)

\* What a caller's record says, in memory until it is published.
Decided(c) == IF thread[c].pc = "publish" THEN mem[Home[c]][thread[c].job].state
              ELSE disk[thread[c].job].state

\* Unless a retry could not be recorded, the process of a job is the one in the
\* record, of the bridge that started it and on disk.
RecordedInv == \A j \in Jobs \ unrecorded : owner[j] \in Bridges =>
    LET rec == mem[owner[j]][j] IN
    /\ rec.state = "running" => Live(j) \subseteq {rec.pid}
    /\ Running(j) /\ thread[j].pc # "respawned" => Live(j) \subseteq {disk[j].pid}
    /\ thread[j].pc = "respawned" => j \in watched[owner[j]]

\* A cancel in the bridge of the job knows the process that it has to kill.
CancelInv == \A c \in Callers :
    LET j == thread[c].job IN
    (/\ Concluding(c) /\ owner[j] = Home[c] /\ Decided(c) = "cancelled"
     /\ j \notin unrecorded)
        => \A a \in Live(j) : a = thread[c].pid /\ thread[c].pc # "notify"

\* A served job that a cleanup has found is Host's, open only while its server is, ...
AskedInv == \A j \in asked :
    /\ up[Host] => owner[j] = Host /\ (disk[j] # Absent \/ Aborted(j))
    /\ up[Host] /\ j \notin raised =>
          Over(j) \/ j \in servers[Host] \/ Publishing(Host, j)

\* ... and the running cleanup still has it before it, or in hand.
TodoInv == (Stopping /\ Top.step # "list") => \A j \in asked \ raised :
    \/ Over(j)
    \/ Top.step = "cancel" /\ j \in Top.todo
    \/ /\ Top.step = "cancel" /\ thread[Me].job = j
       /\ thread[Me].pc \in {"cancel", "cancelling", "publish"}

----------------------------------------------------------------------------
\* A bridge that went down by its own cleanup leaves no job running that was
\* served when the cleanup looked: its loopback server is gone, and whoever
\* recovers the job later would take an answer given without the files for a
\* completed one (jobs.py:597-607).  It holds for nested signals too; a job
\* whose end could not be written stays running, and of a job whose start failed
\* meanwhile there is neither a record nor a process.
ServedJobsEnd == ~up[Host] => \A j \in asked \ raised : Over(j)

\* The loopback server of a job is closed before any thread of its bridge makes
\* the end public or reports it (jobs.py:484-486), and if another bridge ended
\* the job, as long as it is open the watcher that will close it is at work.  Two
\* paths are excepted, which first give _lock back and then close what they took
\* out of _servers: _force_fail publishes before that (jobs.py:384-391), and a
\* cancel may publish while start() withdraws the job (jobs.py:316-325).
ServersClose == \A b \in Bridges : \A j \in servers[b] : Closing(b, j) \/
    /\ \A t \in Threads : BridgeOf(t) = b /\ thread[t].job = j
           => thread[t].pc \notin {"publish", "signal", "notify"}
    /\ EndedOnDisk(j) => owner[j] = b /\ thread[j].pc # "idle"

\* What a cleanup relies on when it stops in the middle for a signal, a lock or a
\* neighbour (server.py:554-594, jobs.py:597-623): every open job has somebody
\* who ends it, and every job it has found is behind it, in hand or to come.
LifeInv ==
    /\ Inv /\ LifeTyped /\ WatchInv /\ RaisedInv /\ HeldInv
    /\ RecordedInv /\ CancelInv
    /\ AskedInv /\ TodoInv /\ ServedJobsEnd

\* When a thread of the bridge that started a job reports it as cancelled, no
\* process of the job runs, whatever signals and cleanups come in between
\* (jobs.py:662-663).  Only a job whose retry could not be recorded is left out:
\* the new process is in no record (jobs.py:468-472).
OwnCancelStopsAgy == \A c \in Callers :
    LET j == thread[c].job IN
    (/\ thread[c].pc = "notify" /\ owner[j] = Home[c] /\ disk[j].state = "cancelled"
     /\ j \notin unrecorded)
        => Live(j) = {}
=============================================================================
