----------------------------- MODULE JobRegistry -----------------------------
(***************************************************************************)
(* The job registry of the bridge (src/src/agy_bridge/jobs.py): several    *)
(* bridge processes share one state directory.  A bridge starts agy as a   *)
(* detached process, a watcher thread of that bridge waits for it, and API *)
(* threads of any bridge look at the job, recover it or cancel it.         *)
(*                                                                         *)
(* A pid and the start time recorded with it name one attempt of one job,  *)
(* so the attempt's number stands for the pair.  `_watched' and            *)
(* `_commands' gain and lose a job at the same lines: one variable.        *)
(***************************************************************************)
EXTENDS Naturals, FiniteSets

CONSTANTS
    Bridges,        \* bridge processes sharing the state directory
    Jobs,           \* job ids, already claimed by their starter
    Callers,        \* API threads
    Home,           \* [Callers -> Bridges]: the bridge a caller runs in
    MaxAttempts,    \* JobRegistry.MAX_ATTEMPTS
    MaxCrashes,     \* bound: bridge crashes in a behaviour
    Faults,         \* which operations may raise: "spawn" (a retry), "io" (a file)
    NoBridge, NoJob

ASSUME RegistryAssumption ==
    /\ Home \in [Callers -> Bridges]
    /\ Jobs \cap Callers = {}
    /\ NoBridge \notin Bridges
    /\ NoJob \notin Jobs
    /\ MaxAttempts \in Nat \ {0}
    /\ MaxCrashes \in Nat
    /\ Faults \subseteq {"spawn", "io"}

VARIABLES
    disk,       \* [Jobs -> Records]: j-N.json
    mem,        \* [Bridges -> [Jobs -> Records]]: _records of each bridge
    watched,    \* [Bridges -> SUBSET Jobs]: _watched and _commands
    servers,    \* [Bridges -> SUBSET Jobs]: _servers, open loopback servers
    agy,        \* [Jobs -> [Attempts -> AgyStates]]: the processes
    stdout,     \* [Jobs -> Outputs]: what the job's stdout file parses as
    owner,      \* [Jobs -> Bridges or NoBridge]: parent of the job's processes
    up,         \* [Bridges -> BOOLEAN]
    thread,     \* [Threads -> ThreadStates]: watchers and API threads
    finishes,   \* [Jobs -> Nat]: calls of on_complete
    crashes,    \* Nat
    withdrawn   \* SUBSET Jobs: jobs whose start() failed and left no trace

vars == <<disk, mem, watched, servers, agy, stdout, owner, up, thread,
          finishes, crashes, withdrawn>>

Terminal == {"completed", "failed", "timeout", "cancelled"}
Attempts == 1..MaxAttempts

\* state, attempts and pid of a JobRecord; pid 0 is None.
Records == [state : {"absent", "running"} \cup Terminal,
            attempts : 0..MaxAttempts, pid : 0..MaxAttempts]
Absent == [state |-> "absent", attempts |-> 0, pid |-> 0]

\* "succeeded" and "failed" are zombies: exited with or without code 0, not yet
\* reaped by the owner.  "gone" is reaped: no process has that pid and start time.
AgyStates == {"none", "running", "succeeded", "failed", "gone"}
Outputs == {"valid", "invalid"}

\* A watcher thread is named by its job, an API thread by its caller.
Threads == Jobs \cup Callers
BridgeOf(t) == IF t \in Jobs THEN owner[t] ELSE Home[t]

Phases == {"idle", "spawned", "killing", "forgetting", "waiting", "probe", "readout",
           "finalize", "finalizing", "cancel", "cancelling", "publish", "respawned",
           "signal", "notify", "forcefail", "closing"}
Operations == {"none", "watch", "start", "get", "cancel"}
ThreadStates ==
    [pc : Phases,
     op : Operations,
     job : Jobs \cup {NoJob},
     pid : 0..MaxAttempts,          \* the process it waits for, probed or will kill
     rc : {"unknown", "zero", "nonzero", "timeout"},
     out : Outputs]                 \* stdout as read before taking the lock
Thread(pc, op, job, pid) ==
    [pc |-> pc, op |-> op, job |-> job, pid |-> pid, rc |-> "unknown", out |-> "invalid"]
Idle == Thread("idle", "none", NoJob, 0)

\* Thread t in phase pc of the same call.
Phase(t, pc) == [thread[t] EXCEPT !.pc = pc]

----------------------------------------------------------------------------
\* Locks.  _job_lock takes the flock of the job and then, holding it, the _lock of
\* the bridge: "finalizing" and "cancelling" hold the first and wait for the second.
\* Both are held while pc is "publish" or "respawned".  start() holds only _lock.

\* Mutant: the watchers take the two locks in the other order.
FirstLockMixed(t) == IF t \in Jobs THEN "mutex" ELSE "flock"

FirstLock(t) == "flock"
SecondLock(t) == IF FirstLock(t) = "flock" THEN "mutex" ELSE "flock"

Holds(t, lock) ==
    \/ thread[t].pc \in {"publish", "respawned"}
    \/ thread[t].pc \in {"finalizing", "cancelling"} /\ FirstLock(t) = lock
HoldsFlock(t) == Holds(t, "flock")
HoldsMutex(t) == thread[t].pc = "spawned" \/ Holds(t, "mutex")
MutexFree(b) == \A t \in Threads : BridgeOf(t) = b => ~HoldsMutex(t)

\* Mutant: no lock between the processes.
FlockFreeAlways(j) == TRUE
FlockFree(j) == \A t \in Threads : thread[t].job = j => ~HoldsFlock(t)

Free(t, lock) ==
    IF lock = "flock" THEN FlockFree(thread[t].job) ELSE MutexFree(BridgeOf(t))

\* The thread that waits inside _job_lock can go on.
CanLock(t) == Free(t, SecondLock(t))

----------------------------------------------------------------------------
\* What the code reads.

\* The record a thread works with.  Calls under way keep the record of a failed
\* start() although it is no longer in _records: no thread finalizes such a job.
\* self._records.get(job_id) or disk
Known(b, j) == IF mem[b][j] = Absent THEN disk[j] ELSE mem[b][j]

\* self._records.get(job_id): a failed start() took the record out.  (The end that
\* a cancel under way puts back is as good as none: it starts nothing.)
Cached(b, j) == IF j \in withdrawn /\ owner[j] = b THEN Absent ELSE mem[b][j]

\* The record get() works on: memory for a watched job, the disk otherwise.
Current(b, j) ==
    IF j \in watched[b] THEN mem[b][j]
    ELSE IF disk[j] # Absent THEN disk[j] ELSE Cached(b, j)

\* Mutant: the record on disk is not read again under the lock.
EndedOnDiskUnchecked(j) == FALSE

\* The disk is the authority: another process ended the job already.
EndedOnDisk(j) == disk[j].state \in Terminal

\* _is_our_process: a zombie still answers kill(pid, 0).
IsOurProcess(j, p) == p # 0 /\ agy[j][p] \in {"running", "succeeded", "failed"}

\* parse_agy_output on what the thread read: a nonzero code is an error whatever
\* the output is, an unknown code leaves only the output to judge by.
Parses(t) == thread[t].rc \in {"unknown", "zero"} /\ thread[t].out = "valid"
Outcome(t) == IF thread[t].rc = "timeout" THEN "timeout"
              ELSE IF Parses(t) THEN "completed" ELSE "failed"

\* Mutant: MAX_ATTEMPTS is not looked at.
MayRetryUnbounded(t) ==
    thread[t].rc = "nonzero" /\ thread[t].job \in watched[BridgeOf(t)]

\* Only a nonzero exit is retried, by the bridge that still has the command.
MayRetry(t) ==
    LET b == BridgeOf(t)  j == thread[t].job IN
    /\ thread[t].rc = "nonzero"
    /\ Known(b, j).attempts < MaxAttempts
    /\ j \in watched[b]

----------------------------------------------------------------------------
Init ==
    /\ disk = [j \in Jobs |-> Absent]
    /\ mem = [b \in Bridges |-> [j \in Jobs |-> Absent]]
    /\ watched = [b \in Bridges |-> {}]
    /\ servers = [b \in Bridges |-> {}]
    /\ agy = [j \in Jobs |-> [a \in Attempts |-> "none"]]
    /\ stdout = [j \in Jobs |-> "invalid"]
    /\ owner = [j \in Jobs |-> NoBridge]
    /\ up = [b \in Bridges |-> TRUE]
    /\ thread = [t \in Threads |-> Idle]
    /\ finishes = [j \in Jobs |-> 0]
    /\ crashes = 0
    /\ withdrawn = {}

\* Thread t ends, or an API call returns or raises.
Return(t) == thread' = [thread EXCEPT ![t] = Idle]

\* A thread of b took j's server out of _servers and has not closed it yet.
Closing(b, j) == \E t \in Threads :
    thread[t].pc = "closing" /\ thread[t].job = j /\ BridgeOf(t) = b

\* Mutant: the server is not closed.
UnwatchServing(b, j) ==
    watched' = [watched EXCEPT ![b] = @ \ {j}] /\ servers' = servers

\* The bridge b forgets that it watches j and closes the server that _servers has.
Unwatch(b, j) ==
    /\ watched' = [watched EXCEPT ![b] = @ \ {j}]
    /\ servers' = IF Closing(b, j) THEN servers ELSE [servers EXCEPT ![b] = @ \ {j}]

\* The server that the thread took out of _servers is closed, after the lock.
CloseServer(t) ==
    /\ thread[t].pc = "closing"
    /\ servers' = [servers EXCEPT ![BridgeOf(t)] = @ \ {thread[t].job}]
    /\ Return(t)
    /\ UNCHANGED <<disk, mem, watched, agy, stdout, owner, up,
                   finishes, crashes, withdrawn>>

EndedRecord(rec, state) ==
    [state |-> state, attempts |-> rec.attempts, pid |-> 0]

\* The end of the job is written to the record in memory and the server is
\* closed, all before the record is published by Publish.
Commit(t, state, kill) ==
    LET b == BridgeOf(t)  j == thread[t].job IN
    /\ mem' = [mem EXCEPT ![b] = [@ EXCEPT ![j] =
                  EndedRecord(Known(b, j), state)]]
    /\ Unwatch(b, j)
    /\ thread' = [thread EXCEPT ![t] =
                     Thread("publish", thread[t].op, thread[t].job, kill)]
    /\ UNCHANGED <<disk, agy, stdout, owner, up, finishes, crashes, withdrawn>>

----------------------------------------------------------------------------
\* start()

StartSpawn(c, j, served) ==
    LET b == Home[c] IN
    /\ thread[c].pc = "idle" /\ up[b] /\ MutexFree(b)
    /\ disk[j] = Absent /\ agy[j][1] = "none"       \* the id is the starter's own
    /\ agy' = [agy EXCEPT ![j] = [@ EXCEPT ![1] = "running"]]
    /\ stdout' = [stdout EXCEPT ![j] = "invalid"]
    /\ owner' = [owner EXCEPT ![j] = b]
    /\ mem' = [mem EXCEPT ![b] = [@ EXCEPT ![j] =
                  [state |-> "running", attempts |-> 1, pid |-> 1]]]
    /\ watched' = [watched EXCEPT ![b] = @ \cup {j}]
    /\ servers' = IF served THEN [servers EXCEPT ![b] = @ \cup {j}] ELSE servers
    /\ thread' = [thread EXCEPT ![c] = Thread("spawned", "start", j, 0)]
    /\ UNCHANGED <<disk, up, finishes, crashes, withdrawn>>

\* A watcher of attempt a, started for job j.
Watcher(j, a) == Thread("waiting", "watch", j, a)

StartPersist(c) ==
    LET j == thread[c].job IN
    /\ thread[c].pc = "spawned"
    /\ disk' = [disk EXCEPT ![j] = mem[Home[c]][j]]
    /\ thread' = [thread EXCEPT ![c] = Idle, ![j] = Watcher(j, 1)]
    /\ UNCHANGED <<mem, watched, servers, agy, stdout, owner, up,
                   finishes, crashes, withdrawn>>

\* _persist raises and _lock is released: the job is in memory, and not public.
StartRaises(c) ==
    /\ "io" \in Faults
    /\ thread[c].pc = "spawned"
    /\ thread' = [thread EXCEPT ![c] = Phase(c, "killing")]
    /\ UNCHANGED <<disk, mem, watched, servers, agy, stdout, owner, up, finishes,
                   crashes, withdrawn>>

\* The process is killed and reaped, with no lock held.
KillStarted(c) ==
    LET j == thread[c].job IN
    /\ thread[c].pc = "killing"
    /\ agy' = [agy EXCEPT ![j] = [@ EXCEPT ![1] = "gone"]]
    /\ thread' = [thread EXCEPT ![c] = Phase(c, "forgetting")]
    /\ UNCHANGED <<disk, mem, watched, servers, stdout, owner, up,
                   finishes, crashes, withdrawn>>

\* Nothing of the job is left, the end included that a cancel wrote meanwhile.
StartForgets(c) ==
    LET b == Home[c]  j == thread[c].job IN
    /\ thread[c].pc = "forgetting" /\ MutexFree(b)
    /\ withdrawn' = withdrawn \cup {j}
    /\ watched' = [watched EXCEPT ![b] = @ \ {j}]
    /\ disk' = [disk EXCEPT ![j] = Absent]
    /\ thread' = [thread EXCEPT ![c] = Phase(c, "closing")]
    /\ UNCHANGED <<mem, servers, agy, stdout, owner, up, finishes, crashes>>

----------------------------------------------------------------------------
\* _watch()

Reaped(t, rc) == [pc |-> "readout", op |-> "watch", job |-> t, pid |-> thread[t].pid,
                  rc |-> rc, out |-> "invalid"]

WatchReap(t) ==
    LET a == thread[t].pid IN
    /\ thread[t].pc = "waiting"
    /\ agy[t][a] \in {"succeeded", "failed"}
    /\ agy' = [agy EXCEPT ![t] = [@ EXCEPT ![a] = "gone"]]
    /\ thread' = [thread EXCEPT ![t] =
                     Reaped(t, IF agy[t][a] = "succeeded" THEN "zero" ELSE "nonzero")]
    /\ UNCHANGED <<disk, mem, watched, servers, stdout, owner, up,
                   finishes, crashes, withdrawn>>

\* Mutant: the group is not killed and the wait's failure counts as an exit code.
WatchTimeoutSpares(t) ==
    /\ thread[t].pc = "waiting"
    /\ agy[t][thread[t].pid] = "running"
    /\ thread' = [thread EXCEPT ![t] = Reaped(t, "nonzero")]
    /\ UNCHANGED <<disk, mem, watched, servers, agy, stdout, owner, up,
                   finishes, crashes, withdrawn>>

\* The job's deadline passes: the process group is killed and reaped.
WatchTimeout(t) ==
    LET a == thread[t].pid IN
    /\ thread[t].pc = "waiting"
    /\ agy[t][a] = "running"
    /\ agy' = [agy EXCEPT ![t] = [@ EXCEPT ![a] = "gone"]]
    /\ thread' = [thread EXCEPT ![t] = Reaped(t, "timeout")]
    /\ UNCHANGED <<disk, mem, watched, servers, stdout, owner, up,
                   finishes, crashes, withdrawn>>

\* _finalize raised: the last safety net, under _lock but not under the flock.
\* Its own _persist may fail again (`written' FALSE).  CloseServer follows.
ForceFail(t, written) ==
    LET b == BridgeOf(t)
        rec == mem[b][t]
        open == rec # Absent /\ rec.state \notin Terminal
        failed == EndedRecord(rec, "failed")
    IN
    /\ thread[t].pc = "forcefail" /\ MutexFree(b)
    /\ mem' = IF open THEN [mem EXCEPT ![b] = [@ EXCEPT ![t] = failed]] ELSE mem
    /\ disk' = IF open /\ written THEN [disk EXCEPT ![t] = failed] ELSE disk
    /\ watched' = [watched EXCEPT ![b] = @ \ {t}]
    /\ thread' = [thread EXCEPT ![t] = Phase(t, "closing")]
    /\ UNCHANGED <<servers, agy, stdout, owner, up, finishes, crashes, withdrawn>>

----------------------------------------------------------------------------
\* get(), and cancel() which begins with it.  op is "get" or "cancel".

\* What a call does with a record that needs no recovery.
Proceed(c, op, j, rec) ==
    thread' = [thread EXCEPT ![c] =
        IF op = "cancel" /\ rec.state \notin Terminal
        THEN Thread("cancel", op, j, 0)
        ELSE Idle]

\* An unknown job raises and changes nothing.
Get(c, op, j) ==
    LET b == Home[c]  rec == Current(b, j) IN
    /\ thread[c].pc = "idle" /\ up[b] /\ MutexFree(b)
    /\ rec # Absent
    /\ mem' = [mem EXCEPT ![b] = [@ EXCEPT ![j] = rec]]
    /\ IF rec.state = "running" /\ j \notin watched[b]
       THEN thread' = [thread EXCEPT ![c] = Thread("probe", op, j, rec.pid)]
       ELSE Proceed(c, op, j, rec)
    /\ UNCHANGED <<disk, watched, servers, agy, stdout, owner, up,
                   finishes, crashes, withdrawn>>

\* Mutant: a live process is not looked for.
ProbeReturns(c) ==
    /\ thread[c].pc = "probe"
    /\ Proceed(c, thread[c].op, thread[c].job, mem[Home[c]][thread[c].job])
    /\ UNCHANGED <<disk, mem, watched, servers, agy, stdout, owner, up,
                   finishes, crashes, withdrawn>>

\* Is the process that the record names still there?  The lock is not held.
Probe(c) ==
    LET j == thread[c].job IN
    /\ thread[c].pc = "probe"
    /\ IF IsOurProcess(j, thread[c].pid)
       THEN Proceed(c, thread[c].op, j, mem[Home[c]][j])
       ELSE thread' = [thread EXCEPT ![c] = Phase(c, "readout")]
    /\ UNCHANGED <<disk, mem, watched, servers, agy, stdout, owner, up,
                   finishes, crashes, withdrawn>>

----------------------------------------------------------------------------
\* _finalize()

\* stdout is read before the lock is taken.
ReadOutput(t) ==
    /\ thread[t].pc = "readout"
    /\ thread' = [thread EXCEPT ![t] =
          [pc |-> "finalize", op |-> @.op, job |-> @.job, pid |-> @.pid, rc |-> @.rc,
           out |-> stdout[@.job]]]
    /\ UNCHANGED <<disk, mem, watched, servers, agy, stdout, owner, up,
                   finishes, crashes, withdrawn>>

\* _job_lock: the first of the two locks.
TakeFirst(t) ==
    /\ thread[t].pc \in {"finalize", "cancel"}
    /\ Free(t, FirstLock(t))
    /\ thread' = [thread EXCEPT ![t] =
          Phase(t, IF thread[t].pc = "finalize" THEN "finalizing" ELSE "cancelling")]
    /\ UNCHANGED <<disk, mem, watched, servers, agy, stdout, owner, up, finishes,
                   crashes, withdrawn>>

\* Somebody else ended the job: take over the record.
FinalizeAdopts(t) ==
    LET b == BridgeOf(t)  j == thread[t].job IN
    /\ thread[t].pc = "finalizing" /\ CanLock(t)
    /\ EndedOnDisk(j)
    /\ mem' = [mem EXCEPT ![b] = [@ EXCEPT ![j] = disk[j]]]
    /\ Unwatch(b, j)
    /\ Return(t)
    /\ UNCHANGED <<disk, agy, stdout, owner, up, finishes, crashes, withdrawn>>

\* The record in memory is terminal already, or there is none: no second end.
FinalizeReenters(t) ==
    LET rec == Known(BridgeOf(t), thread[t].job) IN
    /\ thread[t].pc = "finalizing" /\ CanLock(t)
    /\ ~EndedOnDisk(thread[t].job)
    /\ rec = Absent \/ rec.state \in Terminal
    /\ Return(t)
    /\ UNCHANGED <<disk, mem, watched, servers, agy, stdout, owner, up,
                   finishes, crashes, withdrawn>>

\* Mutant: the decision is taken on the record in memory alone.
FinalizingStale(t) ==
    /\ thread[t].pc = "finalizing" /\ CanLock(t)
    /\ Known(BridgeOf(t), thread[t].job).state = "running"

\* Under the lock, with a job that is still open.
Finalizing(t) ==
    /\ thread[t].pc = "finalizing" /\ CanLock(t)
    /\ ~EndedOnDisk(thread[t].job)
    /\ Known(BridgeOf(t), thread[t].job).state = "running"

FinalizeEnds(t) ==
    /\ Finalizing(t)
    /\ ~MayRetry(t)
    /\ Commit(t, Outcome(t), 0)

\* attempts and pid of the record, the retry entry and the new process.
FinalizeRetries(t) ==
    LET b == BridgeOf(t)
        j == thread[t].job
        a == Known(b, j).attempts + 1
    IN
    /\ Finalizing(t)
    /\ MayRetry(t)
    /\ agy' = [agy EXCEPT ![j] = [@ EXCEPT ![a] = "running"]]
    /\ stdout' = [stdout EXCEPT ![j] = "invalid"]
    /\ mem' = [mem EXCEPT ![b] = [@ EXCEPT ![j] =
                  [state |-> "running", attempts |-> a, pid |-> a]]]
    /\ thread' = [thread EXCEPT ![t] = Phase(t, "respawned")]
    /\ UNCHANGED <<disk, watched, servers, owner, up, finishes, crashes, withdrawn>>

\* The hook or the spawn raises: the attempt is taken back and the job fails.
RetryFails(t) ==
    /\ "spawn" \in Faults
    /\ Finalizing(t)
    /\ MayRetry(t)
    /\ Commit(t, "failed", 0)

\* Mutant: nobody watches the new process.
RetryPersistOnly(t) ==
    LET b == BridgeOf(t)  j == thread[t].job IN
    /\ thread[t].pc = "respawned"
    /\ disk' = [disk EXCEPT ![j] = mem[b][j]]
    /\ Return(t)
    /\ UNCHANGED <<mem, watched, servers, agy, stdout, owner, up,
                   finishes, crashes, withdrawn>>

\* Persist, unlock, start the watcher of the new process; this thread ends.
RetryPersist(t) ==
    LET b == BridgeOf(t)  j == thread[t].job IN
    /\ thread[t].pc = "respawned"
    /\ disk' = [disk EXCEPT ![j] = mem[b][j]]
    /\ thread' = [thread EXCEPT ![t] = Watcher(j, mem[b][j].pid)]
    /\ UNCHANGED <<mem, watched, servers, agy, stdout, owner, up,
                   finishes, crashes, withdrawn>>

\* Mutant: the watcher thread dies of the exception.
FinalizeFailsSilently(t) ==
    /\ "io" \in Faults
    /\ thread[t].pc \in {"finalize", "cancel", "publish", "respawned"}
    /\ Return(t)
    /\ UNCHANGED <<disk, mem, watched, servers, agy, stdout, owner, up,
                   finishes, crashes, withdrawn>>

\* The lock file cannot be opened, or _persist raises.  A watcher falls into
\* _force_fail, an API call raises to its client.
FinalizeFails(t) ==
    /\ "io" \in Faults
    /\ thread[t].pc \in {"finalize", "cancel", "publish", "respawned"}
    /\ IF t \in Jobs
       THEN thread' = [thread EXCEPT ![t] = Phase(t, "forcefail")]
       ELSE Return(t)
    /\ UNCHANGED <<disk, mem, watched, servers, agy, stdout, owner, up,
                   finishes, crashes, withdrawn>>

----------------------------------------------------------------------------
\* cancel()

CancelFindsEnded(c) ==
    LET b == Home[c]  j == thread[c].job IN
    /\ thread[c].pc = "cancelling" /\ CanLock(c)
    /\ EndedOnDisk(j) \/ mem[b][j].state \in Terminal
    /\ mem' = IF EndedOnDisk(j) THEN [mem EXCEPT ![b] = [@ EXCEPT ![j] = disk[j]]]
              ELSE mem
    /\ Return(c)
    /\ UNCHANGED <<disk, watched, servers, agy, stdout, owner, up,
                   finishes, crashes, withdrawn>>

\* Mutant: the pid is looked up after the record was cleared.
PidToKillCleared(b, j) == 0

\* The pid to signal: the one in the record of this bridge's memory, and only
\* while that process exists.
PidToKill(b, j) ==
    LET p == mem[b][j].pid IN IF IsOurProcess(j, p) THEN p ELSE 0

CancelCommits(c) ==
    LET b == Home[c]  j == thread[c].job IN
    /\ thread[c].pc = "cancelling" /\ CanLock(c)
    /\ ~EndedOnDisk(j)
    /\ mem[b][j].state = "running"
    /\ Commit(c, "cancelled", PidToKill(b, j))

----------------------------------------------------------------------------
\* The common end of _finalize and cancel.

\* The state the thread goes on with once the record is public and unlocked.
AfterPublish(t) == IF thread[t].pid # 0 THEN "signal" ELSE "notify"

Publish(t) ==
    LET j == thread[t].job IN
    /\ thread[t].pc = "publish"
    /\ disk' = [disk EXCEPT ![j] = mem[BridgeOf(t)][j]]
    /\ thread' = [thread EXCEPT ![t] = Phase(t, AfterPublish(t))]
    /\ UNCHANGED <<mem, watched, servers, agy, stdout, owner, up,
                   finishes, crashes, withdrawn>>

\* An exited process is a zombie while its parent lives.
Corpse(j, how) == IF owner[j] = NoBridge THEN "gone" ELSE how

\* SIGTERM, up to five seconds, SIGKILL: the process of that pid is dead after it.
Signal(t) ==
    LET j == thread[t].job  a == thread[t].pid IN
    /\ thread[t].pc = "signal"
    /\ agy' = IF agy[j][a] = "running"
              THEN [agy EXCEPT ![j] = [@ EXCEPT ![a] = Corpse(j, "failed")]]
              ELSE agy
    /\ thread' = [thread EXCEPT ![t] = Phase(t, "notify")]
    /\ UNCHANGED <<disk, mem, watched, servers, stdout, owner, up,
                   finishes, crashes, withdrawn>>

\* on_complete: the ledger's finish entry and the session.  Its errors are
\* suppressed.
Notify(t) ==
    /\ thread[t].pc = "notify"
    /\ finishes' = [finishes EXCEPT ![thread[t].job] = @ + 1]
    /\ Return(t)
    /\ UNCHANGED <<disk, mem, watched, servers, agy, stdout, owner, up,
                   crashes, withdrawn>>

----------------------------------------------------------------------------
\* The environment.

\* agy exits by itself, with a code and with output in the stdout file.
AgyExits(j, a, how, out) ==
    /\ agy[j][a] = "running"
    /\ agy' = [agy EXCEPT ![j] = [@ EXCEPT ![a] = Corpse(j, how)]]
    /\ stdout' = [stdout EXCEPT ![j] = out]
    /\ UNCHANGED <<disk, mem, watched, servers, owner, up, thread,
                   finishes, crashes, withdrawn>>

\* The process of bridge b is gone: memory, threads, locks and servers are lost, agy
\* lives on (start_new_session) and its zombies are reaped by init.
Die(b) ==
    /\ up[b]
    /\ up' = [up EXCEPT ![b] = FALSE]
    /\ mem' = [mem EXCEPT ![b] = [j \in Jobs |-> Absent]]
    /\ watched' = [watched EXCEPT ![b] = {}]
    /\ servers' = [servers EXCEPT ![b] = {}]
    /\ thread' = [t \in Threads |-> IF BridgeOf(t) = b THEN Idle ELSE thread[t]]
    /\ owner' = [j \in Jobs |-> IF owner[j] = b THEN NoBridge ELSE owner[j]]
    /\ agy' = [j \in Jobs |-> [a \in Attempts |->
                  IF owner[j] = b /\ agy[j][a] \in {"succeeded", "failed"}
                  THEN "gone" ELSE agy[j][a]]]
    /\ UNCHANGED <<disk, stdout, finishes, withdrawn>>

\* A bridge is killed.
Crash(b) == crashes < MaxCrashes /\ crashes' = crashes + 1 /\ Die(b)

Restart(b) ==
    /\ ~up[b]
    /\ up' = [up EXCEPT ![b] = TRUE]
    /\ UNCHANGED <<disk, mem, watched, servers, agy, stdout, owner, thread,
                   finishes, crashes, withdrawn>>

----------------------------------------------------------------------------
WatchStep(t) == WatchReap(t) \/ WatchTimeout(t)

FinalizeGoesOn(t) ==
    \/ ReadOutput(t) \/ TakeFirst(t) \/ FinalizeAdopts(t)
    \/ FinalizeEnds(t) \/ FinalizeRetries(t) \/ RetryPersist(t)
    \/ Publish(t) \/ Signal(t) \/ Notify(t)

FinalizeStep(t) == FinalizeGoesOn(t) \/ FinalizeReenters(t)

ForceFailStep(t) == \E written \in BOOLEAN : ForceFail(t, written)

CallStep(c) == StartPersist(c) \/ Probe(c) \/ CancelFindsEnded(c) \/ CancelCommits(c)

Calls(c) == \E j \in Jobs :
    \/ \E served \in BOOLEAN : StartSpawn(c, j, served)
    \/ \E op \in {"get", "cancel"} : Get(c, op, j)

ProcessExits == \E j \in Jobs, a \in Attempts :
    \E how \in {"succeeded", "failed"}, out \in Outputs : AgyExits(j, a, how, out)

\* While file operations succeed.
SoundStep ==
    \/ \E j \in Jobs : WatchStep(j)
    \/ \E t \in Threads : FinalizeGoesOn(t) \/ RetryFails(t)
    \/ \E c \in Callers : Calls(c) \/ CallStep(c)
    \/ ProcessExits
    \/ \E b \in Bridges : Crash(b) \/ Restart(b)

\* A file operation fails, or a thread meets what such a failure left behind.
FileFault ==
    \/ \E t \in Threads : FinalizeFails(t) \/ FinalizeReenters(t)
    \/ \E j \in Jobs : ForceFailStep(j)
    \/ \E c \in Callers : StartRaises(c) \/ KillStarted(c) \/ StartForgets(c)
    \/ \E t \in Threads : CloseServer(t)

Next == SoundStep \/ FileFault

Spec == Init /\ [][Next]_vars

\* A live thread goes on: a watcher returns from process.wait at the latest when
\* the deadline passes, and no lock is held for ever.  Calls are the client's and
\* agy's exit is agy's: neither is fair.
Fairness ==
    /\ \A j \in Jobs : WF_vars(WatchStep(j)) /\ WF_vars(ForceFailStep(j))
    /\ \A t \in Threads : WF_vars(FinalizeStep(t))
    /\ \A c \in Callers : WF_vars(CallStep(c))

\* Liveness is a matter of sound files: without "io" in Faults no step is a FileFault.
FairSpec == Init /\ [][SoundStep]_vars /\ Fairness

----------------------------------------------------------------------------
TypeOK ==
    /\ disk \in [Jobs -> Records]
    /\ mem \in [Bridges -> [Jobs -> Records]]
    /\ watched \in [Bridges -> SUBSET Jobs]
    /\ servers \in [Bridges -> SUBSET Jobs]
    /\ agy \in [Jobs -> [Attempts -> AgyStates]]
    /\ stdout \in [Jobs -> Outputs]
    /\ owner \in [Jobs -> Bridges \cup {NoBridge}]
    /\ up \in [Bridges -> BOOLEAN]
    /\ thread \in [Threads -> ThreadStates]
    /\ finishes \in [Jobs -> Nat]
    /\ crashes \in 0..MaxCrashes
    /\ withdrawn \subseteq Jobs

----------------------------------------------------------------------------
\* The inductive invariant, whatever Faults is.

Running(j) == disk[j].state = "running"
Live(j) == {a \in Attempts : agy[j][a] = "running"}

\* Which phases watchers and callers go through, for which job and bridge.
ThreadOK(t, th) ==
    /\ th.pc # "idle" => th.job \in Jobs /\ BridgeOf(t) \in Bridges
    /\ t \in Jobs => /\ th.pc \notin {"spawned", "killing", "forgetting", "probe",
                                     "cancel", "cancelling"}
                     /\ th.pc # "idle" => th.job = t
    /\ t \in Callers => /\ th.pc \notin {"waiting", "respawned", "forcefail"}
                        /\ th.rc = "unknown"
ThreadsInv == \A t \in Threads : ThreadOK(t, thread[t])

\* Each lock has one holder.
LocksInv == \A t, u \in Threads :
    /\ HoldsFlock(t) /\ HoldsFlock(u) /\ thread[t].job = thread[u].job => t = u
    /\ HoldsMutex(t) /\ HoldsMutex(u) /\ BridgeOf(t) = BridgeOf(u) => t = u

\* A public job had its first process, and attempts are numbered from 1.
PublicInv == \A j \in Jobs :
    /\ disk[j] # Absent => disk[j].state # "absent" /\ agy[j][1] # "none"
    /\ agy[j][1] = "none" => \A a \in Attempts : agy[j][a] = "none"

\* start() before and after its _persist has raised.
Starting(c) == thread[c].pc = "spawned"
Withdrawing(c) == thread[c].pc \in {"killing", "forgetting"}

\* Between a failed _persist of start() and ever after.
Aborted(j) == j \in withdrawn \/ \E c \in Callers : Withdrawing(c) /\ thread[c].job = j

\* A job that is not public is known to its starter's bridge alone, until its
\* start failed.
MemoryInv == \A b \in Bridges, j \in Jobs : mem[b][j] # Absent =>
    /\ mem[b][j].state # "absent"
    /\ disk[j] = Absent =>
          \/ j \in withdrawn
          \/ \E c \in Callers :
                (Starting(c) \/ Withdrawing(c)) /\ Home[c] = b /\ thread[c].job = j

\* One starter per job, which is about to publish its first attempt.
StarterInv ==
    /\ \A c, d \in Callers :
          /\ Starting(c) \/ Withdrawing(c)
          /\ Starting(d) \/ Withdrawing(d)
          /\ thread[c].job = thread[d].job
          => c = d
    /\ \A c \in Callers : Starting(c) \/ Withdrawing(c) =>
          LET j == thread[c].job IN
          /\ owner[j] = Home[c] /\ agy[j][1] # "none" /\ j \notin withdrawn
          /\ \A a \in Attempts : a > 1 => agy[j][a] = "none"
    /\ \A c \in Callers : Starting(c) =>
          LET j == thread[c].job  rec == mem[Home[c]][j] IN
          /\ disk[j] = Absent /\ j \in watched[Home[c]]
          /\ rec.state = "running" /\ rec.attempts = 1 /\ rec.pid = 1

\* What the public record and the memory of the bridge hold in each phase.
PhaseOK(t) ==
    LET j == thread[t].job  rec == mem[BridgeOf(t)][j] IN
    /\ thread[t].pc \notin {"idle", "spawned"} => disk[j] # Absent \/ Aborted(j)
    /\ thread[t].pc = "publish" => rec.state \in Terminal
    /\ thread[t].pc = "respawned" => ~EndedOnDisk(j) /\ rec.state = "running"
PhaseInv == \A t \in Threads : PhaseOK(t)

Concluding(t) == thread[t].pc \in {"publish", "signal", "notify"}

\* The public record says how the job ended, or start() has removed it.
Over(j) == EndedOnDisk(j) \/ j \in withdrawn

\* The end of a job is written and reported by one thread, in this order.
ReportInv ==
    /\ \A t \in Threads : Concluding(t) =>
          /\ finishes[thread[t].job] = 0
          /\ thread[t].pc # "publish" => Over(thread[t].job)
    /\ \A t, u \in Threads :
          Concluding(t) /\ Concluding(u) /\ thread[t].job = thread[u].job => t = u
    /\ \A j \in Jobs : finishes[j] > 0 => Over(j) /\ finishes[j] = 1

\* A job whose start failed is ended by a cancel of its own bridge at most, once,
\* and never seen as running by anybody else; its process is killed.
AbortOK(j) == Aborted(j) =>
    /\ disk[j] = Absent \/ EndedOnDisk(j)
    /\ \A b \in Bridges :
          /\ b # owner[j] => mem[b][j].state # "running"
          /\ j \in watched[b] => mem[b][j].state = "running"
          /\ b = owner[j] /\ mem[b][j].state = "running" =>
                j \in watched[b] \/ j \in withdrawn
    /\ agy[j][1] # "none" /\ \A a \in Attempts : a > 1 => agy[j][a] = "none"
    /\ j \in withdrawn => Live(j) = {}
    /\ \A t \in Threads : thread[t].pc # "idle" /\ thread[t].job = j =>
          /\ t \in Callers /\ Home[t] = owner[j]
          /\ thread[t].pc \in {"killing", "forgetting", "closing",
                              "cancel", "cancelling", "publish", "signal", "notify"}
    /\ \/ EndedOnDisk(j)
       \/ finishes[j] > 0
       \/ \E t \in Threads : Concluding(t) /\ thread[t].job = j
       => \A b \in Bridges : b = owner[j] => mem[b][j].state \in Terminal
AbortInv ==
    /\ \A j \in Jobs : AbortOK(j)
    /\ \A c \in Callers : thread[c].pc = "forgetting" => Live(thread[c].job) = {}

\* The next attempt of a watched job that has not ended is a fresh one.
FreshOK(j) ==
    LET rec == mem[owner[j]][j] IN
    /\ thread[j].pc \in {"waiting", "readout", "finalize", "finalizing", "respawned"}
    /\ j \in watched[owner[j]]
    /\ ~EndedOnDisk(j)
    => rec # Absent /\ \A a \in Attempts : a > rec.attempts => agy[j][a] = "none"

\* One process at most, the one in the record of the bridge that watches it; a
\* watcher that would retry has seen it die.
LiveOK(j) ==
    LET rec == mem[owner[j]][j] IN
    /\ \A a, i \in Attempts : agy[j][a] = "running" /\ agy[j][i] = "running" => a = i
    /\ owner[j] \in Bridges /\ j \in watched[owner[j]] /\ ~EndedOnDisk(j) =>
          /\ \A a \in Attempts : agy[j][a] = "running" => a = rec.pid
          /\ thread[j].pc = "waiting" => thread[j].pid = rec.pid
          /\ thread[j].pc \in {"readout", "finalize", "finalizing"} /\ thread[j].rc = "nonzero"
                => \A a \in Attempts : agy[j][a] # "running"

\* A watched job has its starter or its watcher, and nobody of the bridge that
\* watches it has ended it.
WatchOK(j) == \A b \in Bridges : j \in watched[b] =>
    /\ b = owner[j]
    /\ mem[b][j].state = "running" \/ EndedOnDisk(j)
    /\ \/ thread[j].pc \in {"waiting", "readout", "finalize", "finalizing", "respawned", "forcefail"}
       \/ \E c \in Callers : (Starting(c) \/ Withdrawing(c)) /\ thread[c].job = j
    /\ \A t \in Threads : Concluding(t) /\ thread[t].job = j => BridgeOf(t) # b

JobOK(j) == FreshOK(j) /\ LiveOK(j) /\ WatchOK(j)
JobsInv == \A j \in Jobs : JobOK(j)

\* Typed is inductive by itself (with the starters of StarterInv), whatever Faults is.
Typed == TypeOK /\ ThreadsInv

\* What the locks and the re-read of the disk guarantee together (jobs.py:123-142):
\* one thread at a time decides about a job, on what is public, and reports once.
Inv ==
    /\ Typed /\ LocksInv /\ PublicInv /\ MemoryInv /\ StarterInv
    /\ PhaseInv /\ ReportInv /\ AbortInv /\ JobsInv

\* Without file errors ("io" not in Faults) nobody ends a job behind the back of
\* the thread that holds its flock, and no start() takes anything back.
Undisturbed ==
    /\ withdrawn = {}
    /\ \A t \in Threads :
          /\ thread[t].pc \notin {"killing", "forgetting", "forcefail", "closing"}
          /\ thread[t].pc = "publish" => ~EndedOnDisk(thread[t].job)

----------------------------------------------------------------------------
\* The job as a reader of the state directory and of the ledger sees it: this
\* module implements JobLifecycle under this mapping.  (jobs.py:123-130: an end
\* decided by several processes is atomic, a cancelled job is not revived by a
\* retry, a recovered orphan does not end twice.)
Lifecycle == INSTANCE JobLifecycle WITH
    state <- [j \in Jobs |-> disk[j].state],
    spawned <- [j \in Jobs |-> {a \in Attempts : agy[j][a] # "none"}],
    reported <- {j \in Jobs : finishes[j] > 0}
ImplementsLifecycle == Lifecycle!Spec

\* The ledger gets at most one finish entry for a job, and only after its end
\* was public: a crash may lose the entry, nothing doubles it.  The end stays
\* public unless start() itself failed: a cancel may end and report the job before
\* start() removes its record (jobs.py:299-318).
FinishedOnce == \A j \in Jobs : finishes[j] <= 1 /\ (finishes[j] = 1 => Over(j))

\* A retry starts only after the previous process of the job is gone.
OneLiveProcess == \A j \in Jobs : Cardinality(Live(j)) <= 1

\* A job stays in _watched only while a thread works for it: otherwise get()
\* would never recover it and it would be running for ever (jobs.py:366-369).
WatchedIsServed == \A b \in Bridges : \A j \in watched[b] :
    \/ thread[j].pc # "idle" /\ owner[j] = b
    \/ \E c \in Callers :
          Home[c] = b /\ thread[c].job = j /\ (Starting(c) \/ Withdrawing(c))

\* When a cancel has reported, no process of the job runs: once the record is
\* public without a pid nobody can reach the process (jobs.py:662-663).
CancelStopsAgy == \A c \in Callers :
    thread[c].pc = "notify" /\ disk[thread[c].job].state = "cancelled"
        => Live(thread[c].job) = {}

\* An orphan is ended by recovery only when its process is dead.
RecoveryAfterDeath == \A c \in Callers :
    thread[c].pc = "publish" /\ thread[c].pid = 0
    /\ mem[Home[c]][thread[c].job].state \in {"completed", "failed"}
        => Live(thread[c].job) = {}

\* A bridge that lives ends every job that it watches: the watcher, the retry, the
\* hard kill or somebody's cancel gets there.
WatchedJobEnds == \A j \in Jobs :
    (Running(j) /\ owner[j] # NoBridge) ~> (EndedOnDisk(j) \/ owner[j] = NoBridge)

\* Every API call returns: no retry or recovery keeps it for ever, and no two
\* threads wait for each other's lock (jobs.py:132-134: flock before _lock).
CallsReturn == \A c \in Callers : (thread[c].pc # "idle") ~> (thread[c].pc = "idle")

\* A job whose bridge died is ended by whoever asks for it once its process is
\* dead, if bridges are started again and somebody keeps asking.
PollsGoOn ==
    /\ \A c \in Callers, j \in Jobs : SF_vars(Get(c, "get", j))
    /\ \A b \in Bridges : WF_vars(Restart(b))
OrphanEnds == PollsGoOn => \A j \in Jobs :
    (Running(j) /\ owner[j] = NoBridge /\ Live(j) = {}) ~> EndedOnDisk(j)
=============================================================================
