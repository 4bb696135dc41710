-------------------------- MODULE JobRegistry_proofs --------------------------
(***************************************************************************)
(* Type correctness of JobRegistry, for every value of its constants.      *)
(*                                                                         *)
(* The type of a step's new state rests on two more facts: a thread that   *)
(* is not idle works for a job and in a bridge (ThreadsInv), and a starter *)
(* runs in the bridge that owns its job (Starters), which becomes the      *)
(* bridge of the watcher.  The three are inductive together.               *)
(***************************************************************************)
EXTENDS JobRegistry, TLAPS

----------------------------------------------------------------------------
\* Records and thread states: what their constructors build, what their fields hold.

LEMMA ThreadTyped ==
  ASSUME NEW pc \in Phases, NEW op \in Operations, NEW job \in Jobs \cup {NoJob},
         NEW pid \in 0..MaxAttempts
  PROVE  /\ Thread(pc, op, job, pid) \in ThreadStates
         /\ Thread(pc, op, job, pid).pc = pc
         /\ Thread(pc, op, job, pid).op = op
         /\ Thread(pc, op, job, pid).job = job
         /\ Thread(pc, op, job, pid).pid = pid
         /\ Thread(pc, op, job, pid).rc = "unknown"
  BY DEF Thread, ThreadStates, Outputs

LEMMA PhaseTyped ==
  ASSUME NEW t, thread[t] \in ThreadStates, NEW pc \in Phases
  PROVE  /\ Phase(t, pc) \in ThreadStates
         /\ Phase(t, pc).pc = pc
         /\ Phase(t, pc).op = thread[t].op
         /\ Phase(t, pc).job = thread[t].job
         /\ Phase(t, pc).pid = thread[t].pid
         /\ Phase(t, pc).rc = thread[t].rc
  BY DEF Phase, ThreadStates

LEMMA ThreadFields ==
  ASSUME NEW th \in ThreadStates
  PROVE  /\ th.pc \in Phases /\ th.op \in Operations /\ th.job \in Jobs \cup {NoJob}
         /\ th.pid \in 0..MaxAttempts
         /\ th.rc \in {"unknown", "zero", "nonzero", "timeout"} /\ th.out \in Outputs
  BY DEF ThreadStates

LEMMA RecordFields ==
  ASSUME NEW rec \in Records
  PROVE  /\ rec.state \in {"absent", "running"} \cup Terminal
         /\ rec.attempts \in 0..MaxAttempts /\ rec.pid \in 0..MaxAttempts
  BY DEF Records

LEMMA RecordTyped ==
  ASSUME NEW s \in {"absent", "running"} \cup Terminal,
         NEW a \in 0..MaxAttempts, NEW p \in 0..MaxAttempts
  PROVE  [state |-> s, attempts |-> a, pid |-> p] \in Records
  BY DEF Records

LEMMA IdleTyped == Idle \in ThreadStates /\ Idle.pc = "idle" /\ Idle.rc = "unknown"
  BY RegistryAssumption DEF Idle, Thread, ThreadStates, Outputs, Phases, Operations

LEMMA AbsentTyped == Absent \in Records
  BY RegistryAssumption DEF Absent, Records

----------------------------------------------------------------------------
\* One thread moves on, or a table changes at one place.

LEMMA ThreadStep ==
  ASSUME Typed, NEW t \in Threads, NEW th \in ThreadStates,
         thread' = [thread EXCEPT ![t] = th], ThreadOK(t, th), UNCHANGED owner
  PROVE  thread' \in [Threads -> ThreadStates] /\ ThreadsInv'
<1>1. \A u \in Threads : thread'[u] = IF u = t THEN th ELSE thread[u]
  BY DEF Typed, TypeOK
<1>2. \A u \in Threads : ThreadOK(u, thread'[u])
  BY <1>1 DEF Typed, ThreadsInv
<1> QED
  BY <1>2 DEF Typed, TypeOK, ThreadsInv, ThreadOK, BridgeOf

LEMMA ReturnStep ==
  ASSUME Typed, NEW t \in Threads, Return(t), UNCHANGED owner
  PROVE  thread' \in [Threads -> ThreadStates] /\ ThreadsInv'
  BY ThreadStep, IdleTyped DEF Return, ThreadOK

CallerPhases == {"spawned", "killing", "forgetting", "probe", "cancel", "cancelling"}
WatcherPhases == {"waiting", "respawned", "forcefail"}

LEMMA Busy ==
  ASSUME Typed, NEW t \in Threads, thread[t].pc # "idle"
  PROVE  /\ thread[t].job \in Jobs /\ BridgeOf(t) \in Bridges /\ thread[t] \in ThreadStates
         /\ t \in Jobs => thread[t].job = t /\ thread[t].pc \notin CallerPhases
         /\ t \in Callers => thread[t].pc \notin WatcherPhases
                             /\ thread[t].rc = "unknown" /\ t \notin Jobs /\ BridgeOf(t) = Home[t]
  BY RegistryAssumption
     DEF Typed, TypeOK, ThreadsInv, ThreadOK, Threads, BridgeOf, CallerPhases, WatcherPhases

LEMMA MemStep ==
  ASSUME Typed, NEW b \in Bridges, NEW j \in Jobs, NEW rec \in Records
  PROVE  [mem EXCEPT ![b] = [@ EXCEPT ![j] = rec]] \in [Bridges -> [Jobs -> Records]]
  BY DEF Typed, TypeOK

LEMMA DiskStep ==
  ASSUME Typed, NEW j \in Jobs, NEW rec \in Records
  PROVE  [disk EXCEPT ![j] = rec] \in [Jobs -> Records]
  BY DEF Typed, TypeOK

LEMMA AgyStep ==
  ASSUME Typed, NEW j \in Jobs, NEW a \in Attempts, NEW s \in AgyStates
  PROVE  [agy EXCEPT ![j] = [@ EXCEPT ![a] = s]] \in [Jobs -> [Attempts -> AgyStates]]
  BY DEF Typed, TypeOK

LEMMA Stored ==
  ASSUME Typed, NEW b \in Bridges, NEW j \in Jobs
  PROVE  /\ disk[j] \in Records /\ mem[b][j] \in Records
         /\ Known(b, j) \in Records /\ Current(b, j) \in Records
  BY AbsentTyped DEF Typed, TypeOK, Known, Current, Cached

LEMMA UnwatchTyped ==
  ASSUME Typed, NEW b \in Bridges, NEW j \in Jobs, Unwatch(b, j)
  PROVE  /\ watched' \in [Bridges -> SUBSET Jobs]
         /\ servers' \in [Bridges -> SUBSET Jobs]
  BY DEF Typed, TypeOK, Unwatch

LEMMA EndedTyped ==
  ASSUME NEW rec \in Records, NEW s \in Terminal
  PROVE  EndedRecord(rec, s) \in Records
  BY RecordFields, RecordTyped, RegistryAssumption DEF EndedRecord

LEMMA CommitTyped ==
  ASSUME Typed, NEW t \in Threads, thread[t].pc # "idle", NEW s \in Terminal,
         NEW kill \in 0..MaxAttempts, Commit(t, s, kill)
  PROVE  Typed'
<1> DEFINE b == BridgeOf(t)
           j == thread[t].job
           th == Thread("publish", thread[t].op, j, kill)
<1>1. j \in Jobs /\ b \in Bridges /\ thread[t] \in ThreadStates
  BY Busy
<1>2. th \in ThreadStates /\ th.pc = "publish" /\ th.job = j /\ th.rc = "unknown"
  BY <1>1, ThreadTyped, ThreadFields DEF Phases
<1>3. ThreadOK(t, th)
  BY <1>1, <1>2, Busy DEF ThreadOK
<1>4. thread' \in [Threads -> ThreadStates] /\ ThreadsInv'
  BY <1>2, <1>3, ThreadStep DEF Commit
<1>5. mem' \in [Bridges -> [Jobs -> Records]]
  BY <1>1, Stored, EndedTyped, MemStep DEF Commit
<1>6. watched' \in [Bridges -> SUBSET Jobs] /\ servers' \in [Bridges -> SUBSET Jobs]
  BY <1>1, UnwatchTyped DEF Commit
<1> QED
  BY <1>4, <1>5, <1>6 DEF Commit, Typed, TypeOK

----------------------------------------------------------------------------
\* The initial state, and every action, in the order of the model.

LEMMA InitTyped == Init => Typed
<1> SUFFICES ASSUME Init PROVE Typed
  OBVIOUS
<1> USE DEF Init
<1>1. Absent \in Records /\ Idle \in ThreadStates
  BY AbsentTyped, IdleTyped
<1>2. TypeOK
  BY <1>1, RegistryAssumption DEF TypeOK, AgyStates, Outputs
<1>3. ThreadsInv
  BY IdleTyped DEF ThreadsInv, ThreadOK, Threads
<1> QED
  BY <1>2, <1>3 DEF Typed

LEMMA PhaseStep ==
  ASSUME Typed, NEW t \in Threads, thread[t].pc # "idle",
         NEW pc \in Phases \ {"idle"},
         pc \in CallerPhases => t \notin Jobs, pc \in WatcherPhases => t \notin Callers,
         thread' = [thread EXCEPT ![t] = Phase(t, pc)], UNCHANGED owner
  PROVE  thread' \in [Threads -> ThreadStates] /\ ThreadsInv'
<1>1. thread[t] \in ThreadStates
  BY Busy
<1>2. /\ Phase(t, pc) \in ThreadStates /\ Phase(t, pc).pc = pc
      /\ Phase(t, pc).job = thread[t].job /\ Phase(t, pc).rc = thread[t].rc
  BY <1>1, PhaseTyped
<1>3. ThreadOK(t, Phase(t, pc))
  BY <1>2, Busy, RegistryAssumption DEF ThreadOK, CallerPhases, WatcherPhases
<1> QED
  BY <1>2, <1>3, ThreadStep

LEMMA StartSpawnTyped ==
  ASSUME Typed, NEW c \in Callers, NEW j \in Jobs, NEW served \in BOOLEAN,
         StartSpawn(c, j, served)
  PROVE  Typed'
<1> DEFINE b == Home[c]
           th == Thread("spawned", "start", j, 0)
<1>1. c \in Threads /\ b \in Bridges /\ c \notin Jobs /\ 1 \in Attempts
  BY RegistryAssumption DEF Threads, Attempts
<1>2. th \in ThreadStates /\ th.pc = "spawned" /\ th.job = j /\ th.rc = "unknown"
  BY ThreadTyped, RegistryAssumption DEF Phases, Operations
<1>3. \A t \in Threads : thread'[t] = IF t = c THEN th ELSE thread[t]
  BY DEF Typed, TypeOK, StartSpawn
<1>4. \A k \in Jobs : owner'[k] = IF k = j THEN b ELSE owner[k]
  BY DEF Typed, TypeOK, StartSpawn
<1>5. \A t \in Threads : BridgeOf(t)' \in Bridges \/ BridgeOf(t)' = BridgeOf(t)
  BY <1>1, <1>4 DEF BridgeOf
<1>6. ThreadsInv'
  <2> SUFFICES ASSUME NEW t \in Threads
               PROVE  ThreadOK(t, thread[t])'
    BY DEF ThreadsInv
  <2>1. CASE t = c
    BY <2>1, <1>1, <1>2, <1>3 DEF ThreadOK, BridgeOf
  <2>2. CASE t # c
    <3>1. thread'[t] = thread[t] /\ ThreadOK(t, thread[t])
      BY <2>2, <1>3 DEF Typed, ThreadsInv
    <3> QED
      BY <3>1, <1>5 DEF ThreadOK
  <2> QED
    BY <2>1, <2>2
<1>7. thread' \in [Threads -> ThreadStates]
  BY <1>1, <1>2 DEF Typed, TypeOK, StartSpawn
<1>8. mem' \in [Bridges -> [Jobs -> Records]]
  <2> DEFINE rec == [state |-> "running", attempts |-> 1, pid |-> 1]
  <2>1. rec \in Records
    BY RecordTyped, RegistryAssumption
  <2>2. mem' = [mem EXCEPT ![b] = [@ EXCEPT ![j] = rec]]
    BY DEF StartSpawn
  <2> QED
    BY <1>1, <2>1, <2>2, MemStep
<1>9. agy' \in [Jobs -> [Attempts -> AgyStates]]
  BY <1>1, AgyStep DEF StartSpawn, AgyStates
<1> QED
  BY <1>1, <1>6, <1>7, <1>8, <1>9 DEF StartSpawn, Typed, TypeOK, Outputs

\* The job of a starter has its process, and its bridge is the starter's.
Starters == \A c \in Callers : thread[c].pc = "spawned" =>
    owner[thread[c].job] = Home[c] /\ agy[thread[c].job][1] # "none"

LEMMA StartPersistTyped ==
  ASSUME Typed, Starters, NEW c \in Callers, StartPersist(c)
  PROVE  Typed'
<1> DEFINE j == thread[c].job
           w == Watcher(j, 1)
<1>1. c \in Threads /\ c \notin Jobs /\ thread[c].pc # "idle"
  BY RegistryAssumption DEF StartPersist, Threads
<1>2. j \in Jobs /\ Home[c] \in Bridges /\ j \in Threads /\ j \notin Callers
  BY <1>1, Busy, RegistryAssumption DEF Threads
<1>3. w \in ThreadStates /\ w.pc = "waiting" /\ w.job = j
  BY <1>2, ThreadTyped, RegistryAssumption DEF Phases, Operations, Watcher
<1>4. \A t \in Threads : thread'[t] = IF t = j THEN w ELSE IF t = c THEN Idle ELSE thread[t]
  BY <1>1, <1>2 DEF Typed, TypeOK, StartPersist
<1>5. owner[j] \in Bridges
  BY <1>2 DEF Starters, StartPersist
<1>6. \A t \in Threads : BridgeOf(t)' = BridgeOf(t)
  BY DEF BridgeOf, StartPersist
<1>7. \A t \in Threads : ThreadOK(t, thread[t])
  BY DEF Typed, ThreadsInv
<1>8. ThreadOK(j, w) /\ ThreadOK(c, Idle)
  BY <1>1, <1>2, <1>3, <1>5, IdleTyped DEF ThreadOK, BridgeOf
<1>9. \A t \in Threads : ThreadOK(t, thread'[t])
  BY <1>4, <1>7, <1>8
<1>10. ThreadsInv'
  BY <1>6, <1>9 DEF ThreadsInv, ThreadOK
<1>11. thread' \in [Threads -> ThreadStates]
  BY <1>3, IdleTyped DEF Typed, TypeOK, StartPersist
<1>12. disk' \in [Jobs -> Records]
  BY <1>2, Stored, DiskStep DEF StartPersist
<1> QED
  BY <1>10, <1>11, <1>12 DEF StartPersist, Typed, TypeOK

LEMMA StartFailsTyped ==
  ASSUME Typed, NEW c \in Callers, StartRaises(c) \/ KillStarted(c) \/ StartForgets(c)
  PROVE  Typed'
<1> DEFINE b == Home[c]
           j == thread[c].job
<1>1. c \in Threads /\ c \notin Jobs /\ thread[c].pc # "idle"
  BY RegistryAssumption DEF StartRaises, KillStarted, StartForgets, Threads
<1>2. j \in Jobs /\ b \in Bridges /\ 1 \in Attempts
  BY <1>1, Busy, RegistryAssumption DEF Attempts
<1>3. thread' \in [Threads -> ThreadStates] /\ ThreadsInv'
  BY <1>1, PhaseStep
     DEF StartRaises, KillStarted, StartForgets, Phases, CallerPhases, WatcherPhases
<1>4. CASE StartRaises(c)
  BY <1>3, <1>4 DEF StartRaises, Typed, TypeOK
<1>5. CASE KillStarted(c)
  <2>1. agy' \in [Jobs -> [Attempts -> AgyStates]]
    BY <1>2, <1>5, AgyStep DEF KillStarted, AgyStates
  <2> QED
    BY <1>3, <1>5, <2>1 DEF KillStarted, Typed, TypeOK
<1>6. CASE StartForgets(c)
  <2>1. disk' \in [Jobs -> Records]
    BY <1>2, <1>6, AbsentTyped, DiskStep DEF StartForgets
  <2>2. watched' \in [Bridges -> SUBSET Jobs] /\ withdrawn' \subseteq Jobs
    BY <1>2, <1>6 DEF StartForgets, Typed, TypeOK
  <2> QED
    BY <1>3, <1>6, <2>1, <2>2 DEF StartForgets, Typed, TypeOK
<1> QED
  BY <1>4, <1>5, <1>6

LEMMA CloseServerTyped ==
  ASSUME Typed, NEW t \in Threads, CloseServer(t)
  PROVE  Typed'
<1>1. thread' \in [Threads -> ThreadStates] /\ ThreadsInv'
  BY ReturnStep DEF CloseServer
<1>2. servers' \in [Bridges -> SUBSET Jobs]
  BY DEF CloseServer, Typed, TypeOK
<1> QED
  BY <1>1, <1>2 DEF CloseServer, Typed, TypeOK

LEMMA TakeFirstTyped ==
  ASSUME Typed, NEW t \in Threads, TakeFirst(t)
  PROVE  Typed'
<1>1. thread[t].pc # "idle"
  BY DEF TakeFirst
<1>2. thread' \in [Threads -> ThreadStates] /\ ThreadsInv'
  <2>1. CASE thread[t].pc = "finalize"
    BY <1>1, <2>1, PhaseStep DEF TakeFirst, Phases, CallerPhases, WatcherPhases
  <2>2. CASE thread[t].pc = "cancel"
    <3>1. t \notin Jobs
      BY <2>2, Busy DEF CallerPhases
    <3> QED
      BY <1>1, <2>2, <3>1, PhaseStep DEF TakeFirst, Phases, CallerPhases, WatcherPhases
  <2> QED
    BY <2>1, <2>2 DEF TakeFirst
<1> QED
  BY <1>2 DEF TakeFirst, Typed, TypeOK

\* The process a watcher waits for is one of the job's attempts or none (0).
LEMMA ReapedTyped ==
  ASSUME Typed, NEW t \in Jobs, thread[t].pc # "idle",
         NEW rc \in {"zero", "nonzero", "timeout"},
         thread' = [thread EXCEPT ![t] = Reaped(t, rc)], UNCHANGED owner
  PROVE  thread' \in [Threads -> ThreadStates] /\ ThreadsInv'
<1>1. t \in Threads /\ thread[t] \in ThreadStates /\ BridgeOf(t) \in Bridges /\ t \notin Callers
  BY Busy, RegistryAssumption DEF Threads
<1>2. thread[t].pid \in 0..MaxAttempts
  BY <1>1, ThreadFields
<1>3. Reaped(t, rc) \in ThreadStates /\ Reaped(t, rc).pc = "readout" /\ Reaped(t, rc).job = t
  BY <1>2 DEF Reaped, ThreadStates, Phases, Operations, Outputs
<1>4. ThreadOK(t, Reaped(t, rc))
  BY <1>1, <1>3 DEF ThreadOK
<1> QED
  BY <1>1, <1>3, <1>4, ThreadStep

LEMMA WatchTyped ==
  ASSUME Typed, NEW t \in Jobs, WatchReap(t) \/ WatchTimeout(t)
  PROVE  Typed'
<1> DEFINE a == thread[t].pid
<1>1. thread[t].pc # "idle" /\ t \in Threads
  BY DEF WatchReap, WatchTimeout, Threads
<1>2. agy' = [agy EXCEPT ![t] = [@ EXCEPT ![a] = "gone"]]
  BY DEF WatchReap, WatchTimeout
<1>3. agy' \in [Jobs -> [Attempts -> AgyStates]]
  BY <1>2 DEF Typed, TypeOK, AgyStates
<1>4. thread' \in [Threads -> ThreadStates] /\ ThreadsInv'
  <2>1. CASE WatchReap(t)
    <3>1. UNCHANGED owner
      BY <2>1 DEF WatchReap
    <3>2. PICK rc \in {"zero", "nonzero", "timeout"} :
             thread' = [thread EXCEPT ![t] = Reaped(t, rc)]
      <4>1. CASE agy[t][a] = "succeeded"
        BY <2>1, <4>1 DEF WatchReap
      <4>2. CASE agy[t][a] # "succeeded"
        BY <2>1, <4>2 DEF WatchReap
      <4> QED
        BY <4>1, <4>2
    <3> QED
      BY <1>1, <3>1, <3>2, ReapedTyped
  <2>2. CASE WatchTimeout(t)
    BY <1>1, <2>2, ReapedTyped DEF WatchTimeout
  <2> QED
    BY <2>1, <2>2
<1> QED
  BY <1>3, <1>4 DEF WatchReap, WatchTimeout, Typed, TypeOK

LEMMA ForceFailTyped ==
  ASSUME Typed, NEW t \in Jobs, NEW written \in BOOLEAN, ForceFail(t, written)
  PROVE  Typed'
<1> DEFINE b == BridgeOf(t)
           failed == EndedRecord(mem[b][t], "failed")
<1>1. t \in Threads /\ b \in Bridges
  BY Busy DEF ForceFail, Threads
<1>2. failed \in Records
  BY <1>1, Stored, EndedTyped DEF Terminal
<1>3. mem' \in [Bridges -> [Jobs -> Records]]
  <2>1. mem' = [mem EXCEPT ![b] = [@ EXCEPT ![t] = failed]] \/ mem' = mem
    BY DEF ForceFail
  <2> HIDE DEF failed, b
  <2>2. [mem EXCEPT ![b] = [@ EXCEPT ![t] = failed]] \in [Bridges -> [Jobs -> Records]]
    BY <1>1, <1>2, MemStep
  <2>3. mem \in [Bridges -> [Jobs -> Records]]
    BY DEF Typed, TypeOK
  <2> QED
    BY <2>1, <2>2, <2>3
<1>4. disk' \in [Jobs -> Records]
  <2>1. disk' = [disk EXCEPT ![t] = failed] \/ disk' = disk
    BY DEF ForceFail
  <2> QED
    BY <2>1, <1>2, DiskStep DEF Typed, TypeOK
<1>5. watched' \in [Bridges -> SUBSET Jobs]
  BY DEF ForceFail, Typed, TypeOK
<1>6. thread' \in [Threads -> ThreadStates] /\ ThreadsInv'
  BY <1>1, PhaseStep DEF ForceFail, Phases, CallerPhases, WatcherPhases
<1> QED
  BY <1>3, <1>4, <1>5, <1>6 DEF ForceFail, Typed, TypeOK

LEMMA CallTyped ==
  ASSUME Typed, NEW c \in Callers, NEW th \in ThreadStates, th.rc = "unknown",
         th.pc \notin {"waiting", "respawned", "forcefail"},
         th.pc # "idle" => th.job \in Jobs,
         thread' = [thread EXCEPT ![c] = th], UNCHANGED owner
  PROVE  thread' \in [Threads -> ThreadStates] /\ ThreadsInv'
<1>1. c \in Threads /\ c \notin Jobs /\ Home[c] \in Bridges
  BY RegistryAssumption DEF Threads
<1>2. ThreadOK(c, th)
  BY <1>1 DEF ThreadOK, BridgeOf
<1> QED
  BY <1>1, <1>2, ThreadStep

LEMMA ProceedTyped ==
  ASSUME Typed, NEW c \in Callers, NEW op \in Operations, NEW j \in Jobs, NEW rec,
         Proceed(c, op, j, rec), UNCHANGED owner
  PROVE  thread' \in [Threads -> ThreadStates] /\ ThreadsInv'
<1>1. PICK th \in {Thread("cancel", op, j, 0), Idle} : thread' = [thread EXCEPT ![c] = th]
  BY DEF Proceed
<1>2. th \in ThreadStates /\ th.pc \in {"cancel", "idle"} /\ th.rc = "unknown"
      /\ (th.pc # "idle" => th.job \in Jobs)
  BY <1>1, ThreadTyped, IdleTyped, RegistryAssumption DEF Phases
<1> QED
  BY <1>1, <1>2, CallTyped

LEMMA GetTyped ==
  ASSUME Typed, NEW c \in Callers, NEW j \in Jobs, NEW op \in {"get", "cancel"}, Get(c, op, j)
  PROVE  Typed'
<1> DEFINE b == Home[c]
           rec == Current(b, j)
           th == Thread("probe", op, j, rec.pid)
<1>1. b \in Bridges /\ rec \in Records /\ op \in Operations
  BY Stored, RegistryAssumption DEF Operations
<1>2. thread' \in [Threads -> ThreadStates] /\ ThreadsInv'
  <2>1. th \in ThreadStates /\ th.pc = "probe" /\ th.job = j /\ th.rc = "unknown"
    BY <1>1, ThreadTyped, RecordFields DEF Phases
  <2>2. thread' = [thread EXCEPT ![c] = th] \/ Proceed(c, op, j, rec)
    BY DEF Get
  <2> QED
    BY <2>1, <2>2, <1>1, CallTyped, ProceedTyped DEF Get
<1>3. mem' \in [Bridges -> [Jobs -> Records]]
  BY <1>1, MemStep DEF Get
<1> QED
  BY <1>2, <1>3 DEF Get, Typed, TypeOK

LEMMA ProbeTyped ==
  ASSUME Typed, NEW c \in Callers, Probe(c)
  PROVE  Typed'
<1>1. c \in Threads /\ thread[c].pc # "idle" /\ c \notin Jobs
  BY RegistryAssumption DEF Probe, Threads
<1>2. thread[c].job \in Jobs /\ thread[c].op \in Operations
  BY <1>1, Busy, ThreadFields
<1>3. thread' = [thread EXCEPT ![c] = Phase(c, "readout")]
      \/ Proceed(c, thread[c].op, thread[c].job, mem[Home[c]][thread[c].job])
  BY DEF Probe
<1>4. thread' \in [Threads -> ThreadStates] /\ ThreadsInv'
  BY <1>1, <1>2, <1>3, PhaseStep, ProceedTyped DEF Probe, Phases, CallerPhases, WatcherPhases
<1> QED
  BY <1>4 DEF Probe, Typed, TypeOK

LEMMA ReadOutputTyped ==
  ASSUME Typed, NEW t \in Threads, ReadOutput(t)
  PROVE  Typed'
<1> DEFINE th == [pc |-> "finalize", op |-> thread[t].op, job |-> thread[t].job,
                  pid |-> thread[t].pid, rc |-> thread[t].rc, out |-> stdout[thread[t].job]]
<1>1. thread[t].pc # "idle"
  BY DEF ReadOutput
<1>2. thread[t].job \in Jobs /\ thread[t] \in ThreadStates
  BY <1>1, Busy
<1>3. stdout[thread[t].job] \in Outputs
  BY <1>2 DEF Typed, TypeOK
<1>4. th \in ThreadStates /\ th.pc = "finalize" /\ th.job = thread[t].job /\ th.rc = thread[t].rc
  BY <1>2, <1>3, ThreadFields DEF ThreadStates, Phases
<1>5. ThreadOK(t, th)
  BY <1>1, <1>4, Busy DEF ThreadOK
<1>6. thread' = [thread EXCEPT ![t] = th]
  BY DEF ReadOutput, Typed, TypeOK
<1>7. thread' \in [Threads -> ThreadStates] /\ ThreadsInv'
  BY <1>4, <1>5, <1>6, ThreadStep DEF ReadOutput
<1> QED
  BY <1>7 DEF ReadOutput, Typed, TypeOK

LEMMA FinalizeReturnsTyped ==
  ASSUME Typed, NEW t \in Threads, FinalizeAdopts(t) \/ FinalizeReenters(t)
  PROVE  Typed'
<1> DEFINE b == BridgeOf(t)
           j == thread[t].job
<1>1. b \in Bridges /\ j \in Jobs
  BY Busy DEF FinalizeAdopts, FinalizeReenters
<1>2. thread' \in [Threads -> ThreadStates] /\ ThreadsInv'
  BY ReturnStep DEF FinalizeAdopts, FinalizeReenters
<1>3. CASE FinalizeAdopts(t)
  <2>1. mem' \in [Bridges -> [Jobs -> Records]]
    BY <1>1, <1>3, Stored, MemStep DEF FinalizeAdopts
  <2>2. watched' \in [Bridges -> SUBSET Jobs] /\ servers' \in [Bridges -> SUBSET Jobs]
    BY <1>1, <1>3, UnwatchTyped DEF FinalizeAdopts
  <2> QED
    BY <1>2, <1>3, <2>1, <2>2 DEF FinalizeAdopts, Typed, TypeOK
<1>4. CASE FinalizeReenters(t)
  BY <1>2, <1>4 DEF FinalizeReenters, Typed, TypeOK
<1> QED
  BY <1>3, <1>4

LEMMA FinalizingFacts ==
  ASSUME Typed, NEW t \in Threads, Finalizing(t)
  PROVE  thread[t].pc = "finalizing" /\ thread[t].job \in Jobs /\ BridgeOf(t) \in Bridges
  BY Busy DEF Finalizing

LEMMA FinalizeEndsTyped ==
  ASSUME Typed, NEW t \in Threads, FinalizeEnds(t) \/ RetryFails(t)
  PROVE  Typed'
<1>1. thread[t].pc # "idle"
  BY DEF FinalizeEnds, RetryFails, Finalizing
<1>2. Outcome(t) \in Terminal
  BY DEF Outcome, Terminal
<1>3. PICK s \in Terminal : Commit(t, s, 0)
  BY <1>2 DEF FinalizeEnds, RetryFails, Terminal
<1> QED
  BY <1>1, <1>3, CommitTyped, RegistryAssumption

\* Only a watcher sees a nonzero exit code, so only a watcher retries.
LEMMA RetryFacts ==
  ASSUME Typed, NEW t \in Threads, Finalizing(t), MayRetry(t)
  PROVE  /\ t \in Jobs /\ thread[t].job = t /\ BridgeOf(t) = owner[t] /\ owner[t] \in Bridges
         /\ Known(owner[t], t).attempts + 1 \in Attempts
<1>1. thread[t].pc # "idle" /\ thread[t].rc = "nonzero"
  BY DEF Finalizing, MayRetry
<1>2. t \in Jobs /\ thread[t].job = t /\ BridgeOf(t) \in Bridges /\ BridgeOf(t) = owner[t]
  BY <1>1, Busy DEF Threads, BridgeOf
<1>3. Known(owner[t], t).attempts \in 0..MaxAttempts
  BY <1>2, Stored, RecordFields
<1>4. Known(owner[t], t).attempts < MaxAttempts
  BY <1>2 DEF MayRetry
<1> QED
  BY <1>2, <1>3, <1>4, RegistryAssumption DEF Attempts

LEMMA FinalizeRetriesTyped ==
  ASSUME Typed, NEW t \in Threads, FinalizeRetries(t)
  PROVE  Typed'
<1> DEFINE b == BridgeOf(t)
           j == thread[t].job
           a == Known(b, j).attempts + 1
           rec == [state |-> "running", attempts |-> a, pid |-> a]
<1>1. Finalizing(t) /\ MayRetry(t)
  BY DEF FinalizeRetries
<1>2. t \in Jobs /\ j \in Jobs /\ b \in Bridges /\ a \in Attempts /\ thread[t].pc # "idle"
  BY <1>1, RetryFacts, FinalizingFacts
<1>3. rec \in Records
  BY <1>2, RecordTyped, RegistryAssumption DEF Attempts
<1>4. mem' = [mem EXCEPT ![b] = [@ EXCEPT ![j] = rec]]
  BY DEF FinalizeRetries
<1>5. agy' = [agy EXCEPT ![j] = [@ EXCEPT ![a] = "running"]]
  BY DEF FinalizeRetries
<1>6. thread' \in [Threads -> ThreadStates] /\ ThreadsInv'
  BY <1>2, PhaseStep, RegistryAssumption DEF FinalizeRetries, Phases, CallerPhases, WatcherPhases
<1> HIDE DEF rec, a, b, j
<1>7. mem' \in [Bridges -> [Jobs -> Records]]
  BY <1>2, <1>3, <1>4, MemStep
<1>8. agy' \in [Jobs -> [Attempts -> AgyStates]]
  BY <1>2, <1>5, AgyStep DEF AgyStates
<1> QED
  BY <1>2, <1>6, <1>7, <1>8 DEF FinalizeRetries, Typed, TypeOK, Outputs, j

LEMMA RetryPersistTyped ==
  ASSUME Typed, NEW t \in Threads, RetryPersist(t)
  PROVE  Typed'
<1> DEFINE j == thread[t].job
           b == BridgeOf(t)
           w == Watcher(j, mem[b][j].pid)
<1>1. thread[t].pc = "respawned" /\ thread[t].pc # "idle"
  BY DEF RetryPersist
<1>2. t \in Jobs /\ t \notin Callers /\ j = t /\ b \in Bridges
  BY <1>1, Busy, RegistryAssumption DEF Threads, WatcherPhases
<1>3. mem[b][j] \in Records
  BY <1>2, Stored
<1>4. w \in ThreadStates /\ w.pc = "waiting" /\ w.job = t
  BY <1>2, <1>3, RecordFields, ThreadTyped DEF Watcher, Phases, Operations
<1>5. ThreadOK(t, w)
  BY <1>2, <1>4 DEF ThreadOK
<1>6. thread' \in [Threads -> ThreadStates] /\ ThreadsInv'
  BY <1>4, <1>5, ThreadStep DEF RetryPersist
<1>7. disk' \in [Jobs -> Records]
  BY <1>2, <1>3, DiskStep DEF RetryPersist
<1> QED
  BY <1>6, <1>7 DEF RetryPersist, Typed, TypeOK

LEMMA FinalizeFailsTyped ==
  ASSUME Typed, NEW t \in Threads, FinalizeFails(t)
  PROVE  Typed'
<1>1. thread[t].pc # "idle"
  BY DEF FinalizeFails
<1>2. thread' \in [Threads -> ThreadStates] /\ ThreadsInv'
  BY <1>1, PhaseStep, ReturnStep, RegistryAssumption
     DEF FinalizeFails, Phases, CallerPhases, WatcherPhases
<1> QED
  BY <1>2 DEF FinalizeFails, Typed, TypeOK

LEMMA CancelTyped ==
  ASSUME Typed, NEW c \in Callers, CancelFindsEnded(c) \/ CancelCommits(c)
  PROVE  Typed'
<1> DEFINE b == Home[c]
           j == thread[c].job
<1>1. c \in Threads /\ thread[c].pc # "idle"
  BY DEF CancelFindsEnded, CancelCommits, Threads
<1>2. b \in Bridges /\ j \in Jobs
  BY <1>1, Busy, RegistryAssumption
<1>3. CASE CancelFindsEnded(c)
  <2>1. thread' \in [Threads -> ThreadStates] /\ ThreadsInv'
    BY <1>1, <1>3, ReturnStep DEF CancelFindsEnded
  <2>2. mem' = [mem EXCEPT ![b] = [@ EXCEPT ![j] = disk[j]]] \/ mem' = mem
    BY <1>3 DEF CancelFindsEnded
  <2>3. mem' \in [Bridges -> [Jobs -> Records]]
    <3>1. mem \in [Bridges -> [Jobs -> Records]]
      BY DEF Typed, TypeOK
    <3>2. [mem EXCEPT ![b] = [@ EXCEPT ![j] = disk[j]]] \in [Bridges -> [Jobs -> Records]]
      <4>1. disk[j] \in Records
        BY <1>2, Stored
      <4> QED BY <1>2, <4>1, MemStep
    <3> QED BY <2>2, <3>1, <3>2
  <2>4. UNCHANGED <<disk, watched, servers, agy, stdout, owner, up, finishes, crashes, withdrawn>>
    BY <1>3 DEF CancelFindsEnded
  <2> QED
    BY <2>1, <2>3, <2>4 DEF Typed, TypeOK
<1>4. CASE CancelCommits(c)
  <2>1. PidToKill(b, j) \in 0..MaxAttempts
    BY <1>2, Stored, RecordFields, RegistryAssumption DEF PidToKill
  <2> QED
    BY <1>1, <1>4, <2>1, CommitTyped DEF CancelCommits, Terminal
<1> QED
  BY <1>3, <1>4

LEMMA PublishTyped ==
  ASSUME Typed, NEW t \in Threads, Publish(t)
  PROVE  Typed'
<1>1. thread[t].pc # "idle"
  BY DEF Publish
<1>2. thread' \in [Threads -> ThreadStates] /\ ThreadsInv'
  BY <1>1, PhaseStep DEF Publish, AfterPublish, Phases, CallerPhases, WatcherPhases
<1>3. disk' \in [Jobs -> Records]
  BY <1>1, Busy, Stored, DiskStep DEF Publish
<1> QED
  BY <1>2, <1>3 DEF Publish, Typed, TypeOK

LEMMA SignalTyped ==
  ASSUME Typed, NEW t \in Threads, Signal(t)
  PROVE  Typed'
<1> DEFINE j == thread[t].job
           a == thread[t].pid
<1>1. thread[t].pc # "idle"
  BY DEF Signal
<1>2. thread' \in [Threads -> ThreadStates] /\ ThreadsInv'
  BY <1>1, PhaseStep DEF Signal, Phases, CallerPhases, WatcherPhases
<1>3. Corpse(j, "failed") \in AgyStates
  BY DEF Corpse, AgyStates
<1>4. agy' \in [Jobs -> [Attempts -> AgyStates]]
  <2>1. agy' = [agy EXCEPT ![j] = [@ EXCEPT ![a] = Corpse(j, "failed")]] \/ agy' = agy
    BY DEF Signal
  <2>2. j \in Jobs /\ agy \in [Jobs -> [Attempts -> AgyStates]]
    BY <1>1, Busy DEF Typed, TypeOK
  <2> HIDE DEF j, a
  <2> QED
    BY <2>1, <2>2, <1>3
<1> QED
  BY <1>2, <1>4 DEF Signal, Typed, TypeOK

LEMMA NotifyTyped ==
  ASSUME Typed, NEW t \in Threads, Notify(t)
  PROVE  Typed'
<1>1. thread' \in [Threads -> ThreadStates] /\ ThreadsInv'
  BY ReturnStep DEF Notify
<1>2. finishes' \in [Jobs -> Nat]
  BY Busy DEF Notify, Typed, TypeOK
<1> QED
  BY <1>1, <1>2 DEF Notify, Typed, TypeOK

LEMMA AgyExitsTyped ==
  ASSUME Typed, NEW j \in Jobs, NEW a \in Attempts, NEW how \in {"succeeded", "failed"},
         NEW out \in Outputs, AgyExits(j, a, how, out)
  PROVE  Typed'
<1>1. Corpse(j, how) \in AgyStates
  BY DEF Corpse, AgyStates
<1>2. agy' \in [Jobs -> [Attempts -> AgyStates]]
  BY <1>1, AgyStep DEF AgyExits
<1>3. stdout' \in [Jobs -> Outputs]
  BY DEF AgyExits, Typed, TypeOK
<1>4. ThreadsInv'
  BY DEF AgyExits, Typed, ThreadsInv, ThreadOK, BridgeOf
<1> QED
  BY <1>2, <1>3, <1>4 DEF AgyExits, Typed, TypeOK

\* A bridge is gone, counted as a crash or not.
LEMMA DieTyped ==
  ASSUME Typed, NEW b \in Bridges, Die(b), crashes' \in 0..MaxCrashes
  PROVE  Typed'
<1>1. \A t \in Threads : thread'[t] = IF BridgeOf(t) = b THEN Idle ELSE thread[t]
  BY DEF Die
<1>2. \A t \in Threads : BridgeOf(t) # b => BridgeOf(t)' = BridgeOf(t)
  BY DEF Die, BridgeOf
<1>3. ThreadsInv'
  <2> SUFFICES ASSUME NEW t \in Threads
               PROVE  ThreadOK(t, thread[t])'
    BY DEF ThreadsInv
  <2>1. CASE BridgeOf(t) = b
    BY <1>1, <2>1, IdleTyped DEF ThreadOK
  <2>2. CASE BridgeOf(t) # b
    <3>1. thread'[t] = thread[t] /\ BridgeOf(t)' = BridgeOf(t) /\ ThreadOK(t, thread[t])
      BY <1>1, <1>2, <2>2 DEF Typed, ThreadsInv
    <3> QED
      BY <3>1 DEF ThreadOK
  <2> QED
    BY <2>1, <2>2
<1>4. thread' \in [Threads -> ThreadStates]
  BY IdleTyped DEF Die, Typed, TypeOK
<1>5. agy' \in [Jobs -> [Attempts -> AgyStates]]
  BY DEF Die, Typed, TypeOK, AgyStates
<1>6. mem' \in [Bridges -> [Jobs -> Records]]
  BY AbsentTyped DEF Die, Typed, TypeOK
<1>7. owner' \in [Jobs -> Bridges \cup {NoBridge}]
  BY DEF Die, Typed, TypeOK
<1>8. watched' \in [Bridges -> SUBSET Jobs] /\ servers' \in [Bridges -> SUBSET Jobs]
      /\ up' \in [Bridges -> BOOLEAN]
  BY DEF Die, Typed, TypeOK
<1> QED
  BY <1>3, <1>4, <1>5, <1>6, <1>7, <1>8 DEF Die, Typed, TypeOK

LEMMA CrashTyped ==
  ASSUME Typed, NEW b \in Bridges, Crash(b)
  PROVE  Typed'
<1>1. crashes' \in 0..MaxCrashes
  BY RegistryAssumption DEF Crash, Typed, TypeOK
<1> QED
  BY <1>1, DieTyped DEF Crash

LEMMA RestartTyped ==
  ASSUME Typed, NEW b \in Bridges, Restart(b)
  PROVE  Typed'
<1>1. up' \in [Bridges -> BOOLEAN]
  BY DEF Restart, Typed, TypeOK
<1>2. ThreadsInv'
  BY DEF Restart, Typed, ThreadsInv, ThreadOK, BridgeOf
<1> QED
  BY <1>1, <1>2 DEF Restart, Typed, TypeOK

----------------------------------------------------------------------------
\* A process that was started stays started: "none" never comes back.
AgyGrows == \A j \in Jobs, a \in Attempts : agy[j][a] # "none" => agy'[j][a] # "none"

LEMMA AgyGrowsStep ==
  ASSUME Typed, NEW j, NEW a, NEW s, s # "none",
         agy' = agy \/ agy' = [agy EXCEPT ![j] = [@ EXCEPT ![a] = s]]
  PROVE  AgyGrows
<1>1. agy \in [Jobs -> [Attempts -> AgyStates]]
  BY DEF Typed, TypeOK
<1>2. \A k \in Jobs, i \in Attempts : agy'[k][i] = agy[k][i] \/ agy'[k][i] = s
  BY <1>1
<1> QED BY <1>2 DEF AgyGrows

LEMMA StartersKept ==
  ASSUME Typed, Starters, AgyGrows, UNCHANGED owner, NEW t, NEW th, th.pc # "spawned",
         thread' = [thread EXCEPT ![t] = th]
  PROVE  Starters'
<1> SUFFICES ASSUME NEW c \in Callers, thread'[c].pc = "spawned"
             PROVE  owner'[thread'[c].job] = Home[c] /\ agy'[thread'[c].job][1] # "none"
  BY DEF Starters
<1>1. c \in Threads /\ 1 \in Attempts
  BY RegistryAssumption DEF Threads, Attempts
<1>2. thread'[c] = thread[c]
  BY <1>1 DEF Typed, TypeOK
<1>3. thread[c].job \in Jobs
  BY <1>1, <1>2, Busy
<1> QED
  BY <1>1, <1>2, <1>3 DEF Starters, AgyGrows

LEMMA NextStarters ==
  ASSUME Typed, Starters, Next
  PROVE  Starters'
<1>0. Idle.pc = "idle"
  BY IdleTyped
<1>1. ASSUME NEW c \in Callers, NEW j \in Jobs, NEW served \in BOOLEAN, StartSpawn(c, j, served)
      PROVE  Starters'
  <2> DEFINE th == Thread("spawned", "start", j, 0)
  <2> SUFFICES ASSUME NEW d \in Callers, thread'[d].pc = "spawned"
               PROVE  owner'[thread'[d].job] = Home[d] /\ agy'[thread'[d].job][1] # "none"
    BY DEF Starters
  <2>1. c \in Threads /\ d \in Threads /\ 1 \in Attempts
    BY RegistryAssumption DEF Threads, Attempts
  <2>2. th.job = j
    BY DEF Thread
  <2>3. thread'[d] = IF d = c THEN th ELSE thread[d]
    BY <1>1, <2>1 DEF StartSpawn, Typed, TypeOK
  <2>4. CASE d = c
    BY <1>1, <2>1, <2>2, <2>3, <2>4 DEF StartSpawn, Typed, TypeOK
  <2>5. CASE d # c
    <3>1. owner[thread[d].job] = Home[d] /\ agy[thread[d].job][1] # "none"
          /\ thread'[d] = thread[d] /\ thread[d].job # j
      BY <1>1, <2>3, <2>5 DEF Starters, StartSpawn
    <3> QED
      BY <1>1, <3>1 DEF StartSpawn, Typed, TypeOK
  <2> QED
    BY <2>4, <2>5
<1>2. ASSUME NEW c \in Callers, StartPersist(c)
      PROVE  Starters'
  <2>1. \A d \in Callers : thread'[d].pc = "spawned" => thread'[d] = thread[d]
    <3>1. c \in Threads /\ thread[c].job \in Jobs /\ thread[c].job \notin Callers
      BY <1>2, Busy, RegistryAssumption DEF StartPersist, Threads
    <3> QED
      BY <1>2, <3>1, <1>0 DEF StartPersist, Typed, TypeOK, Threads
  <2> QED
    BY <1>2, <2>1 DEF StartPersist, Starters
<1>3. ASSUME NEW c \in Callers, StartRaises(c) \/ KillStarted(c) \/ StartForgets(c)
      PROVE  Starters'
  <2>1. AgyGrows
    <3>1. agy' = agy \/ agy' = [agy EXCEPT ![thread[c].job] = [@ EXCEPT ![1] = "gone"]]
      BY <1>3 DEF StartRaises, KillStarted, StartForgets
    <3> QED
      BY <3>1, AgyGrowsStep
  <2>2. c \in Threads /\ thread[c] \in ThreadStates /\ UNCHANGED owner
    BY <1>3, Busy DEF StartRaises, KillStarted, StartForgets, Threads
  <2>3. PICK pc \in {"killing", "forgetting", "closing"} :
           thread' = [thread EXCEPT ![c] = Phase(c, pc)]
    BY <1>3 DEF StartRaises, KillStarted, StartForgets
  <2>4. Phase(c, pc).pc = pc
    BY <2>2, PhaseTyped DEF Phases
  <2> QED
    BY <2>1, <2>2, <2>3, <2>4, StartersKept
<1>4. ASSUME NEW j \in Jobs, WatchStep(j)
      PROVE  Starters'
  <2>1. AgyGrows
    <3>1. agy' = [agy EXCEPT ![j] = [@ EXCEPT ![thread[j].pid] = "gone"]]
      BY <1>4 DEF WatchStep, WatchReap, WatchTimeout
    <3> QED
      BY <3>1, AgyGrowsStep
  <2>2. UNCHANGED owner
        /\ \E rc \in {"zero", "nonzero", "timeout"} : thread' = [thread EXCEPT ![j] = Reaped(j, rc)]
    BY <1>4 DEF WatchStep, WatchReap, WatchTimeout
  <2> QED
    BY <2>1, <2>2, StartersKept DEF Reaped
<1>5. ASSUME NEW j \in Jobs, ForceFailStep(j)
      PROVE  Starters'
  <2>1. j \in Threads /\ thread[j] \in ThreadStates
    BY <1>5, Busy DEF ForceFailStep, ForceFail, Threads
  <2>2. Phase(j, "closing").pc # "spawned"
    BY <2>1, PhaseTyped DEF Phases
  <2> QED
    BY <1>5, <2>2, StartersKept DEF ForceFailStep, ForceFail, AgyGrows
<1>6. ASSUME NEW t \in Threads, ReadOutput(t)
      PROVE  Starters'
  <2> DEFINE th == [pc |-> "finalize", op |-> thread[t].op, job |-> thread[t].job,
                    pid |-> thread[t].pid, rc |-> thread[t].rc, out |-> stdout[thread[t].job]]
  <2>1. thread' = [thread EXCEPT ![t] = th]
    BY <1>6 DEF ReadOutput, Typed, TypeOK
  <2> QED
    BY <1>6, <2>1, StartersKept DEF ReadOutput, AgyGrows
<1>7. ASSUME NEW t \in Threads, FinalizeAdopts(t) \/ FinalizeReenters(t)
      PROVE  Starters'
  BY <1>7, <1>0, StartersKept DEF FinalizeAdopts, FinalizeReenters, Return, AgyGrows
<1>8. ASSUME NEW t \in Threads, NEW s, NEW kill, Commit(t, s, kill)
      PROVE  Starters'
  BY <1>8, StartersKept DEF Commit, Thread, AgyGrows
<1>9. ASSUME NEW t \in Threads, FinalizeRetries(t)
      PROVE  Starters'
  <2>1. AgyGrows
    BY <1>9, AgyGrowsStep DEF FinalizeRetries
  <2>2. thread[t] \in ThreadStates
    BY <1>9, Busy DEF FinalizeRetries, Finalizing
  <2>3. Phase(t, "respawned").pc # "spawned"
    BY <2>2, PhaseTyped DEF Phases
  <2> QED
    BY <1>9, <2>1, <2>3, StartersKept DEF FinalizeRetries
<1>10. ASSUME NEW t \in Threads, RetryPersist(t)
       PROVE  Starters'
  BY <1>10, StartersKept DEF RetryPersist, Watcher, Thread, AgyGrows
<1>11. ASSUME NEW t \in Threads, NEW pc \in Phases, pc # "spawned", thread[t].pc # "idle",
              thread' = [thread EXCEPT ![t] = Phase(t, pc)], UNCHANGED owner, AgyGrows
       PROVE  Starters'
  <2>1. Phase(t, pc).pc # "spawned"
    BY <1>11, Busy, PhaseTyped
  <2> QED
    BY <1>11, <2>1, StartersKept
<1>12. ASSUME NEW t \in Threads, Publish(t)
       PROVE  Starters'
  BY <1>12, <1>11 DEF Publish, AfterPublish, Phases, AgyGrows
<1>13. ASSUME NEW t \in Threads, Signal(t)
       PROVE  Starters'
  <2>1. AgyGrows
    BY <1>13, AgyGrowsStep DEF Signal, Corpse
  <2> QED
    BY <1>13, <2>1, <1>11 DEF Signal, Phases, CallerPhases, WatcherPhases
<1>14. ASSUME NEW t \in Threads, Notify(t)
       PROVE  Starters'
  BY <1>14, <1>0, StartersKept DEF Notify, Return, AgyGrows
<1>15. ASSUME NEW t \in Threads, FinalizeFails(t)
       PROVE  Starters'
  BY <1>15, <1>0, <1>11, StartersKept DEF FinalizeFails, Return, AgyGrows, Phases
<1>16. ASSUME NEW c \in Callers, NEW op, NEW j, NEW rec, Proceed(c, op, j, rec), UNCHANGED <<owner, agy>>
       PROVE  Starters'
  <2>1. PICK th \in {Thread("cancel", op, j, 0), Idle} : thread' = [thread EXCEPT ![c] = th]
    BY <1>16 DEF Proceed
  <2>2. th.pc # "spawned"
    BY <2>1, <1>0 DEF Thread
  <2> QED
    BY <1>16, <2>1, <2>2, StartersKept DEF AgyGrows
<1>17. ASSUME NEW c \in Callers, NEW j \in Jobs, NEW op \in {"get", "cancel"}, Get(c, op, j)
       PROVE  Starters'
  <2> DEFINE th == Thread("probe", op, j, Current(Home[c], j).pid)
  <2>1. thread' = [thread EXCEPT ![c] = th] \/ Proceed(c, op, j, Current(Home[c], j))
    BY <1>17 DEF Get
  <2>2. th.pc # "spawned"
    BY DEF Thread
  <2> QED
    BY <1>17, <2>1, <2>2, <1>16, StartersKept DEF Get, AgyGrows
<1>18. ASSUME NEW c \in Callers, Probe(c)
       PROVE  Starters'
  BY <1>18, <1>11, <1>16 DEF Probe, AgyGrows, Phases, Threads
<1>19. ASSUME NEW c \in Callers, CancelFindsEnded(c)
       PROVE  Starters'
  BY <1>19, <1>0, StartersKept DEF CancelFindsEnded, Return, AgyGrows
<1>20. ASSUME NEW b \in Bridges, Crash(b)
       PROVE  Starters'
  <2> SUFFICES ASSUME NEW c \in Callers, thread'[c].pc = "spawned"
               PROVE  owner'[thread'[c].job] = Home[c] /\ agy'[thread'[c].job][1] # "none"
    BY DEF Starters
  <2>1. c \in Threads /\ c \notin Jobs /\ 1 \in Attempts
    BY RegistryAssumption DEF Threads, Attempts
  <2>2. thread'[c] = thread[c] /\ Home[c] # b
    BY <1>20, <2>1, <1>0 DEF Crash, Die, BridgeOf
  <2>3. thread[c].job \in Jobs
    BY <2>1, <2>2, Busy
  <2>4. owner[thread[c].job] = Home[c] /\ agy[thread[c].job][1] # "none"
    BY <2>1, <2>2 DEF Starters
  <2> QED
    BY <1>20, <2>1, <2>2, <2>3, <2>4 DEF Crash, Die
<1>21. ASSUME NEW b \in Bridges, Restart(b)
       PROVE  Starters'
  BY <1>21 DEF Restart, Starters
<1>22. ASSUME ProcessExits
       PROVE  Starters'
  <2>1. AgyGrows
    <3>1. PICK j \in Jobs, a \in Attempts, how \in {"succeeded", "failed"}, out \in Outputs :
             AgyExits(j, a, how, out)
      BY <1>22 DEF ProcessExits
    <3>2. agy' = [agy EXCEPT ![j] = [@ EXCEPT ![a] = Corpse(j, how)]] /\ Corpse(j, how) # "none"
      BY <3>1 DEF AgyExits, Corpse
    <3> QED
      BY <3>2, AgyGrowsStep
  <2>2. UNCHANGED <<owner, thread>>
    BY <1>22 DEF ProcessExits, AgyExits
  <2> SUFFICES ASSUME NEW c \in Callers, thread[c].pc = "spawned"
               PROVE  agy'[thread[c].job][1] # "none"
    BY <2>2 DEF Starters
  <2>3. thread[c].job \in Jobs /\ 1 \in Attempts
    BY Busy, RegistryAssumption DEF Threads, Attempts
  <2> QED
    BY <2>1, <2>3 DEF AgyGrows, Starters
<1>25. ASSUME NEW t \in Threads, TakeFirst(t)
       PROVE  Starters'
  <2>1. PICK pc \in {"finalizing", "cancelling"} : thread' = [thread EXCEPT ![t] = Phase(t, pc)]
    BY <1>25 DEF TakeFirst
  <2> QED
    BY <1>25, <2>1, <1>11 DEF TakeFirst, AgyGrows, Phases
<1>26. ASSUME NEW t \in Threads, CloseServer(t)
       PROVE  Starters'
  BY <1>26, <1>0, StartersKept DEF CloseServer, Return, AgyGrows
<1>23. ASSUME NEW t \in Threads, FinalizeStep(t) \/ RetryFails(t) \/ FinalizeFails(t)
       PROVE  Starters'
  BY <1>23, <1>6, <1>7, <1>8, <1>9, <1>10, <1>12, <1>13, <1>14, <1>15,
     <1>25 DEF FinalizeStep, FinalizeGoesOn, RetryFails, FinalizeEnds
<1>24. ASSUME NEW c \in Callers, Calls(c) \/ CallStep(c)
       PROVE  Starters'
  BY <1>24, <1>1, <1>2, <1>8, <1>17, <1>18, <1>19 DEF Calls, CallStep, CancelCommits, Threads
<1> QED
  BY <1>3, <1>4, <1>5, <1>20, <1>21, <1>22, <1>23, <1>24, <1>26 DEF Next, SoundStep, FileFault, FinalizeStep

LEMMA NextTyped ==
  ASSUME Typed, Starters, Next
  PROVE  Typed'
<1>1. ASSUME NEW t \in Threads, FinalizeStep(t) \/ RetryFails(t) \/ FinalizeFails(t)
      PROVE  Typed'
  BY <1>1, ReadOutputTyped, FinalizeReturnsTyped, FinalizeEndsTyped, FinalizeRetriesTyped,
     RetryPersistTyped, PublishTyped, SignalTyped, NotifyTyped, FinalizeFailsTyped,
     TakeFirstTyped
     DEF FinalizeStep, FinalizeGoesOn
<1>2. ASSUME NEW c \in Callers, Calls(c) \/ CallStep(c)
                   \/ StartRaises(c) \/ KillStarted(c) \/ StartForgets(c)
      PROVE  Typed'
  BY <1>2, StartSpawnTyped, GetTyped, StartPersistTyped, StartFailsTyped, ProbeTyped, CancelTyped
     DEF Calls, CallStep
<1>3. ASSUME NEW j \in Jobs, WatchStep(j) \/ ForceFailStep(j)
      PROVE  Typed'
  BY <1>3, WatchTyped, ForceFailTyped DEF WatchStep, ForceFailStep
<1>4. ASSUME ProcessExits
      PROVE  Typed'
  BY <1>4, AgyExitsTyped DEF ProcessExits
<1> QED
  BY <1>1, <1>2, <1>3, <1>4, CrashTyped, RestartTyped, CloseServerTyped DEF Next, SoundStep, FileFault, FinalizeStep

\* Whatever the bridges, jobs and callers, however many attempts and crashes, and
\* with operations that raise: every variable keeps its type.  In particular a
\* retry never goes past MAX_ATTEMPTS (jobs.py:447-448) and a thread works for one
\* of the jobs only.
THEOREM TypeCorrect == Spec => []TypeOK
<1>1. Init => Typed /\ Starters
  BY InitTyped, IdleTyped, RegistryAssumption DEF Init, Starters, Threads
<1>2. Typed /\ Starters /\ [Next]_vars => (Typed /\ Starters)'
  <2>1. Typed /\ Starters /\ Next => (Typed /\ Starters)'
    BY NextTyped, NextStarters
  <2>2. Typed /\ Starters /\ UNCHANGED vars => (Typed /\ Starters)'
    BY DEF vars, Typed, TypeOK, ThreadsInv, ThreadOK, BridgeOf, Starters
  <2> QED
    BY <2>1, <2>2
<1> QED
  BY <1>1, <1>2, PTL DEF Spec, Typed
===============================================================================
