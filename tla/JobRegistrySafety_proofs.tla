---------------------- MODULE JobRegistrySafety_proofs ----------------------
(***************************************************************************)
(* The inductive invariant Inv of JobRegistry, for every value of its      *)
(* constants and whichever operations raise, and what follows from it: one *)
(* report and one live process of a job, no watched job without a thread   *)
(* that works for it, and last the refinement of JobLifecycle.             *)
(*                                                                         *)
(* Most actions are a step of one thread for one job that leaves every     *)
(* other job alone (JobStep).  For those each conjunct of Inv has a lemma  *)
(* that says what the step must respect.  MoveSafe combines them for steps *)
(* that write no record, LockedSafe for those under both locks, and        *)
(* AbortedSafe for steps about a job whose start() has failed.  The other  *)
(* actions (start, get, crash, report and the last safety net) are treated *)
(* one by one.                                                             *)
(***************************************************************************)
EXTENDS JobRegistry_proofs, FiniteSetTheorems

LEMMA AbsentState == Absent.state = "absent" /\ Absent.pid = 0 /\ Absent.attempts = 0
  BY DEF Absent

LEMMA EndedFields ==
  ASSUME NEW rec, NEW s
  PROVE  EndedRecord(rec, s).state = s
  BY DEF EndedRecord

\* Phases without a job, or of start() itself.
StartPhases == {"idle", "spawned", "killing", "forgetting"}
FlockPhases == {"finalizing", "cancelling", "publish", "respawned"}

\* start() before it has published or withdrawn the job.
Starter(c) == Starting(c) \/ Withdrawing(c)

LEMMA LockPhases ==
  /\ \A t : HoldsFlock(t) <=> thread[t].pc \in FlockPhases
  /\ \A t : HoldsMutex(t) <=> thread[t].pc \in {"spawned", "publish", "respawned"}
  /\ \A t : HoldsFlock(t)' <=> thread'[t].pc \in FlockPhases
  /\ \A t : HoldsMutex(t)' <=> thread'[t].pc \in {"spawned", "publish", "respawned"}
  /\ \A t : CanLock(t) <=> MutexFree(BridgeOf(t))
  /\ \A t : Free(t, FirstLock(t)) <=> FlockFree(thread[t].job)
  BY DEF HoldsFlock, HoldsMutex, Holds, FirstLock, SecondLock, CanLock, Free, FlockPhases

\* Whoever works for a job, except its starter, works for one that is public or was
\* given up.
LEMMA StandingJob ==
  ASSUME Inv, NEW t \in Threads, thread[t].pc \notin StartPhases
  PROVE  /\ thread[t].job \in Jobs /\ BridgeOf(t) \in Bridges
         /\ thread[t].job \notin Callers
         /\ disk[thread[t].job] # Absent \/ Aborted(thread[t].job)
         /\ agy[thread[t].job][1] # "none"
<1>1. thread[t].job \in Jobs /\ BridgeOf(t) \in Bridges /\ thread[t].job \notin Callers
  BY Busy, RegistryAssumption DEF Inv, StartPhases
<1>2. disk[thread[t].job] # Absent \/ Aborted(thread[t].job)
  BY DEF Inv, PhaseInv, PhaseOK, StartPhases
<1> QED
  BY <1>1, <1>2 DEF Inv, PublicInv, AbortInv, AbortOK

LEMMA PublicJob ==
  ASSUME Inv, NEW t \in Threads, thread[t].pc \notin StartPhases, ~Aborted(thread[t].job)
  PROVE  /\ thread[t].job \in Jobs /\ BridgeOf(t) \in Bridges
         /\ disk[thread[t].job] # Absent /\ agy[thread[t].job][1] # "none"
         /\ disk[thread[t].job].state # "absent"
  BY StandingJob DEF Inv, PublicInv

LEMMA StarterFacts ==
  ASSUME Inv, NEW c \in Callers, Starter(c)
  PROVE  LET j == thread[c].job  rec == mem[Home[c]][j] IN
         /\ c \in Threads /\ c \notin Jobs /\ j \in Jobs /\ j \notin Callers /\ Home[c] \in Bridges
         /\ BridgeOf(c) = Home[c]
         /\ owner[j] = Home[c] /\ agy[j][1] # "none" /\ j \notin withdrawn
         /\ \A a \in Attempts : a > 1 => agy[j][a] = "none"
         /\ Starting(c) => /\ disk[j] = Absent /\ j \in watched[Home[c]]
                           /\ rec.state = "running" /\ rec.attempts = 1 /\ rec.pid = 1
         /\ Withdrawing(c) => Aborted(j)
<1>1. c \in Threads /\ c \notin Jobs /\ Home[c] \in Bridges /\ BridgeOf(c) = Home[c]
  BY RegistryAssumption DEF Threads, BridgeOf
<1>2. thread[c].job \in Jobs /\ thread[c].job \notin Callers
  BY <1>1, Busy, RegistryAssumption DEF Inv, Starter, Starting, Withdrawing
<1>3. Withdrawing(c) => Aborted(thread[c].job)
  BY DEF Aborted
<1> QED
  BY <1>1, <1>2, <1>3 DEF Inv, StarterInv, Starter

\* What is known of a job whose start() has failed.
LEMMA AbortedFacts ==
  ASSUME Inv, NEW j \in Jobs, Aborted(j)
  PROVE  /\ disk[j] = Absent \/ EndedOnDisk(j)
         /\ \A b \in Bridges : j \in watched[b] => b = owner[j] /\ ~EndedOnDisk(j)
         /\ \A t \in Threads : thread[t].pc # "idle" /\ thread[t].job = j =>
               /\ t \in Callers /\ t \notin Jobs
               /\ BridgeOf(t) = owner[j] /\ owner[j] \in Bridges
               /\ thread[t].pc \in {"killing", "forgetting", "closing",
                                    "cancel", "cancelling", "publish", "signal", "notify"}
         /\ thread[j].pc = "idle"
<1>1. AbortOK(j)
  BY DEF Inv, AbortInv
<1>2. \A b \in Bridges : j \in watched[b] => b = owner[j] /\ ~EndedOnDisk(j)
  <2>1. \A b \in Bridges : j \in watched[b] => b = owner[j] /\ mem[b][j].state = "running"
    BY <1>1 DEF AbortOK
  <2> QED
    BY <1>1, <2>1 DEF AbortOK, Terminal
<1>3. \A t \in Callers : t \notin Jobs /\ BridgeOf(t) = Home[t] /\ Home[t] \in Bridges
  BY RegistryAssumption DEF BridgeOf
<1>4. thread[j].pc = "idle"
  <2>1. j \in Threads /\ j \notin Callers
    BY RegistryAssumption DEF Threads
  <2> QED
    BY <1>1, <2>1, Busy DEF AbortOK, Inv
<1> QED
  BY <1>1, <1>2, <1>3, <1>4 DEF AbortOK

----------------------------------------------------------------------------
\* A step of thread t for its job: everything changes at that job only.

JobStep(t, th) ==
    LET j == thread[t].job IN
    /\ thread[t].pc \notin StartPhases
    /\ thread' = [thread EXCEPT ![t] = th]
    /\ th \in ThreadStates
    /\ th.pc \in StartPhases => th.pc = "idle"
    /\ th.pc # "idle" => th.job = j
    /\ UNCHANGED <<owner, withdrawn>>
    /\ \A k \in Jobs : k # j => disk'[k] = disk[k] /\ finishes'[k] = finishes[k]
    /\ \A k \in Jobs, b \in Bridges : k # j => mem'[b][k] = mem[b][k]
    /\ \A k \in Jobs, a \in Attempts : k # j => agy'[k][a] = agy[k][a]
    /\ \A b \in Bridges : watched'[b] \subseteq watched[b]
    /\ \A k \in Jobs, b \in Bridges : k # j /\ k \in watched[b] => k \in watched'[b]

LEMMA StepThreads ==
  ASSUME Inv, NEW t \in Threads, NEW th, JobStep(t, th)
  PROVE  /\ \A u \in Threads : thread'[u] = IF u = t THEN th ELSE thread[u]
         /\ \A u \in Threads : BridgeOf(u)' = BridgeOf(u)
  BY DEF JobStep, Inv, Typed, TypeOK, BridgeOf

\* Each lock that t holds afterwards was its own or free.
LEMMA StepLocks ==
  ASSUME Inv, NEW t \in Threads, NEW th, JobStep(t, th),
         th.pc \in FlockPhases => HoldsFlock(t) \/ FlockFree(thread[t].job),
         th.pc \in {"publish", "respawned"} => HoldsMutex(t) \/ MutexFree(BridgeOf(t))
  PROVE  LocksInv'
<1>1. \A u \in Threads : BridgeOf(u)' = BridgeOf(u)
  BY StepThreads
<1>2. \A u \in Threads : u # t => /\ HoldsFlock(u)' <=> HoldsFlock(u)
                                  /\ HoldsMutex(u)' <=> HoldsMutex(u)
                                  /\ thread'[u].job = thread[u].job
  BY StepThreads, LockPhases
<1>3. /\ HoldsFlock(t)' => th.pc \in FlockPhases /\ thread'[t].job = thread[t].job
      /\ HoldsMutex(t)' => th.pc \in {"publish", "respawned"}
  <2>1. thread'[t] = th
    BY StepThreads
  <2>2. th.pc # "spawned" /\ (th.pc \in FlockPhases => th.job = thread[t].job)
    BY DEF JobStep, StartPhases, FlockPhases
  <2> QED
    BY <2>1, <2>2, LockPhases
<1>4. HoldsFlock(t)' => \A u \in Threads : u # t /\ thread[u].job = thread[t].job => ~HoldsFlock(u)
  BY <1>3 DEF Inv, LocksInv, FlockFree
<1>5. HoldsMutex(t)' => \A u \in Threads : u # t /\ BridgeOf(u) = BridgeOf(t) => ~HoldsMutex(u)
  BY <1>3 DEF Inv, LocksInv, MutexFree
<1> SUFFICES ASSUME NEW u \in Threads, NEW v \in Threads
             PROVE  /\ HoldsFlock(u)' /\ HoldsFlock(v)' /\ thread'[u].job = thread'[v].job => u = v
                    /\ HoldsMutex(u)' /\ HoldsMutex(v)' /\ BridgeOf(u)' = BridgeOf(v)' => u = v
  BY DEF LocksInv
<1>6. CASE u # t /\ v # t
  BY <1>1, <1>2, <1>6 DEF Inv, LocksInv
<1>7. CASE u = t \/ v = t
  BY <1>1, <1>2, <1>3, <1>4, <1>5, <1>7
<1> QED
  BY <1>6, <1>7

\* A job's start() goes on as before.
LEMMA OtherStarters ==
  ASSUME Inv, NEW t \in Threads, NEW th, JobStep(t, th)
  PROVE  /\ \A c \in Callers : /\ Starting(c)' <=> Starting(c)
                               /\ Withdrawing(c)' <=> Withdrawing(c)
                               /\ Starter(c)' <=> Starter(c)
                               /\ Starter(c) => /\ c # t /\ thread'[c] = thread[c]
                                                /\ Starting(c) => thread[c].job # thread[t].job
         /\ \A j : Aborted(j)' <=> Aborted(j)
<1>1. ASSUME NEW c \in Callers
      PROVE  /\ Starting(c)' <=> Starting(c)
             /\ Withdrawing(c)' <=> Withdrawing(c)
             /\ Starter(c) => c # t /\ thread'[c] = thread[c]
  <2>1. c \in Threads
    BY DEF Threads
  <2>2. CASE c = t
    BY <2>1, <2>2, StepThreads DEF Starting, Withdrawing, Starter, JobStep, StartPhases
  <2>3. CASE c # t
    BY <2>1, <2>3, StepThreads DEF Starting, Withdrawing, Starter
  <2> QED
    BY <2>2, <2>3
<1>2. ASSUME NEW c \in Callers, Starting(c)
      PROVE  thread[c].job # thread[t].job
  <2>1. thread[t].pc \notin StartPhases
    BY DEF JobStep
  <2>2. Starter(c)
    BY <1>2 DEF Starter
  <2>3. /\ thread[c].job \in Jobs /\ thread[c].job \notin withdrawn /\ disk[thread[c].job] = Absent
    BY <1>2, <2>2, StarterFacts
  <2>4. \A d \in Callers : Withdrawing(d) => thread[d].job # thread[c].job
    BY <1>2, <2>2 DEF Inv, StarterInv, Starting, Withdrawing
  <2>5. ~Aborted(thread[c].job)
    BY <2>3, <2>4 DEF Aborted
  <2> QED
    BY <2>1, <2>3, <2>5, StandingJob
<1>3. ASSUME NEW j
      PROVE  Aborted(j)' <=> Aborted(j)
  <2>1. withdrawn' = withdrawn
    BY DEF JobStep
  <2>2. \A c \in Callers : Withdrawing(c) => thread'[c] = thread[c]
    BY <1>1 DEF Starter
  <2> QED
    BY <1>1, <2>1, <2>2 DEF Aborted
<1> QED
  BY <1>1, <1>2, <1>3 DEF Starter

LEMMA StepStarters ==
  ASSUME Inv, NEW t \in Threads, NEW th, JobStep(t, th), AgyGrows,
         \A a \in Attempts : Aborted(thread[t].job) /\ agy[thread[t].job][a] = "none"
             => agy'[thread[t].job][a] = "none"
  PROVE  StarterInv'
<1>1. \A c \in Callers : Starter(c)' => Starter(c) /\ thread'[c] = thread[c] /\ (Starting(c)' <=> Starting(c))
  BY OtherStarters
<1>2. 1 \in Attempts /\ owner' = owner /\ withdrawn' = withdrawn
  BY RegistryAssumption DEF Attempts, JobStep
<1>3. ASSUME NEW c \in Callers, Starter(c)
      PROVE  LET j == thread[c].job IN
             /\ owner[j] = Home[c] /\ agy'[j][1] # "none" /\ j \notin withdrawn
             /\ \A a \in Attempts : a > 1 => agy'[j][a] = "none"
  <2>1. LET j == thread[c].job IN
        /\ j \in Jobs /\ owner[j] = Home[c] /\ agy[j][1] # "none" /\ j \notin withdrawn
        /\ \A a \in Attempts : a > 1 => agy[j][a] = "none"
    BY <1>3, StarterFacts
  <2>2. agy'[thread[c].job][1] # "none"
    BY <1>2, <2>1 DEF AgyGrows
  <2>3. CASE thread[c].job # thread[t].job
    BY <2>1, <2>2, <2>3 DEF JobStep
  <2>4. CASE thread[c].job = thread[t].job
    <3>1. Withdrawing(c)
      BY <1>3, <2>4, OtherStarters DEF Starter
    <3>2. Aborted(thread[t].job)
      BY <3>1, <2>4 DEF Aborted
    <3> QED
      BY <2>1, <2>2, <2>4, <3>2
  <2> QED
    BY <2>3, <2>4
<1>4. ASSUME NEW c \in Callers, Starting(c)
      PROVE  LET j == thread[c].job  rec == mem'[Home[c]][j] IN
             /\ disk'[j] = Absent /\ j \in watched'[Home[c]]
             /\ rec.state = "running" /\ rec.attempts = 1 /\ rec.pid = 1
  <2>1. Starter(c)
    BY <1>4 DEF Starter
  <2>2. thread[c].job # thread[t].job
    BY <1>4, <2>1, OtherStarters
  <2>3. /\ thread[c].job \in Jobs /\ Home[c] \in Bridges /\ disk[thread[c].job] = Absent
        /\ thread[c].job \in watched[Home[c]]
        /\ LET rec == mem[Home[c]][thread[c].job] IN
           rec.state = "running" /\ rec.attempts = 1 /\ rec.pid = 1
    BY <1>4, <2>1, StarterFacts
  <2> QED
    BY <2>2, <2>3 DEF JobStep
<1>5. \A c, d \in Callers : Starter(c)' /\ Starter(d)' /\ thread'[c].job = thread'[d].job => c = d
  BY <1>1 DEF Inv, StarterInv, Starter
<1>6. \A c \in Callers : Starter(c)' =>
        LET j == thread'[c].job IN
        /\ owner'[j] = Home[c] /\ agy'[j][1] # "none" /\ j \notin withdrawn'
        /\ \A a \in Attempts : a > 1 => agy'[j][a] = "none"
  BY <1>1, <1>2, <1>3
<1>7. \A c \in Callers : Starting(c)' =>
        LET j == thread'[c].job  rec == mem'[Home[c]][j] IN
        /\ disk'[j] = Absent /\ j \in watched'[Home[c]]
        /\ rec.state = "running" /\ rec.attempts = 1 /\ rec.pid = 1
  BY <1>1, <1>4 DEF Starter
<1> QED
  BY <1>5, <1>6, <1>7 DEF StarterInv, Starter

LEMMA StepPublic ==
  ASSUME Inv, NEW t \in Threads, NEW th, JobStep(t, th), AgyGrows,
         disk'[thread[t].job] = disk[thread[t].job] \/ disk'[thread[t].job].state # "absent"
  PROVE  PublicInv'
<1> DEFINE j == thread[t].job
<1>1. j \in Jobs /\ agy[j][1] # "none" /\ 1 \in Attempts
  BY StandingJob, RegistryAssumption DEF Attempts, JobStep
<1>2. agy'[j][1] # "none"
  BY <1>1 DEF AgyGrows
<1>3. \A k \in Jobs : k # j => disk'[k] = disk[k] /\ \A a \in Attempts : agy'[k][a] = agy[k][a]
  BY DEF JobStep
<1> QED
  BY <1>1, <1>2, <1>3 DEF Inv, PublicInv

\* The memory of one's own bridge may change, if nobody else has its mutex.
MemoryStep(t) ==
    LET j == thread[t].job IN \A b \in Bridges :
        \/ mem'[b][j] = mem[b][j]
        \/ /\ b = BridgeOf(t) /\ mem'[b][j].state # "absent"
           /\ \A u \in Threads : u # t /\ BridgeOf(u) = b => ~HoldsMutex(u)

LEMMA StepMemory ==
  ASSUME Inv, NEW t \in Threads, NEW th, JobStep(t, th), MemoryStep(t),
         \/ disk'[thread[t].job] = disk[thread[t].job]
         \/ disk'[thread[t].job].state # "absent"
  PROVE  MemoryInv'
<1> DEFINE j == thread[t].job
<1>1. j \in Jobs /\ withdrawn' = withdrawn /\ thread[t].pc # "idle"
  BY StandingJob DEF JobStep, StartPhases
<1>2. \A k \in Jobs, b \in Bridges : k # j => mem'[b][k] = mem[b][k] /\ disk'[k] = disk[k]
  BY DEF JobStep
<1>3. \A c \in Callers : Starter(c) => Starter(c)' /\ thread'[c] = thread[c]
  BY OtherStarters
<1>4. ASSUME disk'[j] = Absent
      PROVE  \/ j \in withdrawn
             \/ \E c \in Callers : Starter(c) /\ Home[c] = BridgeOf(t) /\ thread[c].job = j
  <2>1. disk[j] = Absent
    BY <1>4, AbsentState
  <2>2. Aborted(j)
    BY <2>1, StandingJob DEF JobStep
  <2>3. BridgeOf(t) = owner[j]
    BY <1>1, <2>2, AbortedFacts
  <2>4. \A c \in Callers : Withdrawing(c) => Home[c] = owner[thread[c].job]
    BY StarterFacts DEF Starter
  <2> QED
    BY <2>2, <2>3, <2>4 DEF Aborted, Starter
<1> SUFFICES ASSUME NEW b \in Bridges, NEW k \in Jobs, mem'[b][k] # Absent
             PROVE  /\ mem'[b][k].state # "absent"
                    /\ disk'[k] = Absent =>
                          \/ k \in withdrawn'
                          \/ \E c \in Callers : Starter(c)' /\ Home[c] = b /\ thread'[c].job = k
  BY DEF MemoryInv, Starter
<1>5. ASSUME mem[b][k] # Absent
      PROVE  /\ mem[b][k].state # "absent"
             /\ disk[k] = Absent =>
                   \/ k \in withdrawn
                   \/ \E c \in Callers : Starter(c) /\ Home[c] = b /\ thread[c].job = k
  BY <1>5 DEF Inv, MemoryInv, Starter
<1>6. CASE k # j
  BY <1>1, <1>2, <1>3, <1>5, <1>6
<1>7. CASE k = j /\ mem'[b][k] = mem[b][k]
  BY <1>1, <1>3, <1>5, <1>7, AbsentState
<1>8. CASE k = j /\ mem'[b][k] # mem[b][k]
  <2>1. b = BridgeOf(t) /\ mem'[b][k].state # "absent"
    BY <1>8 DEF MemoryStep
  <2> QED
    BY <1>1, <1>3, <1>4, <1>8, <2>1
<1> QED
  BY <1>6, <1>7, <1>8

\* Other threads in a locked section keep what they see: a bridge's memory changes
\* only under its mutex, and a job whose retry is being recorded is not ended.
LEMMA StepPhases ==
  ASSUME Inv, NEW t \in Threads, NEW th, JobStep(t, th), MemoryStep(t),
         NEW j \in Jobs, j = thread[t].job,
         disk'[j] = disk[j] \/ disk'[j].state # "absent",
         PhaseOK(t)',
         \A u \in Threads : u # t /\ thread[u].job = j /\ thread[u].pc = "respawned"
             => ~EndedOnDisk(j)'
  PROVE  PhaseInv'
<1> SUFFICES ASSUME NEW u \in Threads, u # t
             PROVE  PhaseOK(u)'
  BY DEF PhaseInv
<1>1. thread'[u] = thread[u] /\ BridgeOf(u)' = BridgeOf(u) /\ PhaseOK(u)
  BY StepThreads DEF Inv, PhaseInv
<1>2. \A k : Aborted(k)' <=> Aborted(k)
  BY OtherStarters
<1>3. thread[u].pc # "idle" => thread[u].job \in Jobs /\ BridgeOf(u) \in Bridges
  BY Busy DEF Inv
<1>4. CASE thread[u].job # j
  <2>1. thread[u].pc # "idle" =>
           /\ disk'[thread[u].job] = disk[thread[u].job]
           /\ mem'[BridgeOf(u)][thread[u].job] = mem[BridgeOf(u)][thread[u].job]
    BY <1>3, <1>4 DEF JobStep
  <2> QED
    BY <1>1, <1>2, <2>1 DEF PhaseOK, EndedOnDisk
<1>5. CASE thread[u].job = j
  <2>1. HoldsMutex(u) => mem'[BridgeOf(u)][j] = mem[BridgeOf(u)][j]
    BY <1>3, <1>5 DEF MemoryStep, HoldsMutex, Holds
  <2>2. thread[u].pc = "respawned" => disk'[j].state \notin Terminal
    BY <1>5 DEF EndedOnDisk
  <2>3. thread'[u].job = j /\ thread'[u].pc = thread[u].pc
    BY <1>1, <1>5
  <2>4. /\ thread[u].pc = "publish" => mem[BridgeOf(u)][j].state \in Terminal
        /\ thread[u].pc = "respawned" => mem[BridgeOf(u)][j].state = "running"
    BY <1>1, <1>5 DEF PhaseOK
  <2>5. disk[j] # Absent => disk'[j] # Absent
    BY AbsentState
  <2>6. thread[u].pc \notin {"idle", "spawned"} => disk'[j] # Absent \/ Aborted(j)'
    BY <1>1, <1>2, <1>5, <2>5 DEF PhaseOK
  <2> QED
    BY <1>1, <2>1, <2>2, <2>3, <2>4, <2>6, LockPhases DEF PhaseOK, EndedOnDisk
<1> QED
  BY <1>4, <1>5

\* The end of a job is claimed under its flock, while nobody has ended it.
Deciding(t) ==
    LET j == thread[t].job IN
    /\ thread[t].pc \in {"finalizing", "cancelling"}
    /\ ~EndedOnDisk(j)
    /\ Aborted(j) => mem[BridgeOf(t)][j].state = "running"

LEMMA DeciderFacts ==
  ASSUME Inv, NEW t \in Threads, Deciding(t)
  PROVE  /\ finishes[thread[t].job] = 0
         /\ \A u \in Threads : Concluding(u) => thread[u].job # thread[t].job
<1> PICK j \in Jobs : j = thread[t].job
  BY StandingJob DEF Deciding, StartPhases
<1>1. thread[t].pc \notin StartPhases /\ thread[t].pc # "idle" /\ HoldsFlock(t) /\ ~EndedOnDisk(j)
  BY LockPhases DEF Deciding, StartPhases, FlockPhases
<1>2. ASSUME Aborted(j)
      PROVE  /\ ~(finishes[j] > 0)
             /\ \A u \in Threads : Concluding(u) => thread[u].job # j
  <2>1. owner[j] = BridgeOf(t) /\ owner[j] \in Bridges
    BY <1>1, <1>2, AbortedFacts
  <2>2. mem[owner[j]][j].state = "running" /\ "running" \notin Terminal
    BY <1>2, <2>1 DEF Deciding, Terminal
  <2>3. AbortOK(j)
    BY DEF Inv, AbortInv
  <2> QED
    BY <1>2, <2>1, <2>2, <2>3 DEF AbortOK
<1>3. j \in withdrawn => Aborted(j)
  BY DEF Aborted
<1>4. ASSUME NEW u \in Threads, Concluding(u), thread[u].job = j
      PROVE  FALSE
  <2>1. thread[u].pc # "publish"
    <3>1. ASSUME thread[u].pc = "publish"
          PROVE  FALSE
      <4>1. HoldsFlock(u) /\ u # t
        BY <3>1, LockPhases DEF FlockPhases, Deciding
      <4> QED
        BY <1>1, <1>4, <4>1 DEF Inv, LocksInv
    <3> QED
      BY <3>1
  <2>2. j \in withdrawn
    BY <1>1, <1>4, <2>1 DEF Inv, ReportInv, Over
  <2> QED
    BY <1>2, <1>3, <1>4, <2>2
<1>5. finishes[j] \in Nat /\ (finishes[j] > 0 => j \in withdrawn)
  BY <1>1 DEF Inv, ReportInv, Over, Typed, TypeOK
<1> QED
  BY <1>2, <1>3, <1>4, <1>5

LEMMA StepReports ==
  ASSUME Inv, NEW t \in Threads, NEW th, JobStep(t, th), finishes' = finishes,
         NEW j \in Jobs, j = thread[t].job, EndedOnDisk(j) => EndedOnDisk(j)',
         th.pc \in {"publish", "signal", "notify"} => Concluding(t) \/ Deciding(t),
         th.pc \in {"signal", "notify"} => Over(j)'
  PROVE  ReportInv'
<1>1. \A k \in Jobs : k # j => EndedOnDisk(k)' = EndedOnDisk(k)
  BY DEF JobStep, EndedOnDisk
<1>2. \A k \in Jobs : Over(k) => Over(k)'
  BY <1>1 DEF Over, JobStep
<1>3. \A u \in Threads : u # t => thread'[u] = thread[u] /\ Concluding(u)' = Concluding(u)
  BY StepThreads DEF Concluding
<1>4. \A u \in Threads : Concluding(u) => thread[u].job \in Jobs
  BY StandingJob DEF Concluding, StartPhases
<1>5. thread'[t] = th /\ (Concluding(t)' => thread'[t].job = j)
  <2>1. thread'[t] = th
    BY StepThreads
  <2> QED
    BY <2>1 DEF Concluding, JobStep
<1>6. Concluding(t)' => /\ finishes[j] = 0
                        /\ \A u \in Threads : u # t /\ Concluding(u) => thread[u].job # j
  <2>1. CASE Concluding(t)
    BY <2>1 DEF Inv, ReportInv
  <2>2. CASE Deciding(t)
    BY <2>2, DeciderFacts
  <2> QED
    BY <1>5, <2>1, <2>2 DEF Concluding
<1>7. ASSUME NEW u \in Threads, Concluding(u)'
      PROVE  /\ finishes'[thread'[u].job] = 0
             /\ thread'[u].pc # "publish" => Over(thread[u].job)' /\ thread'[u].job = thread[u].job
  <2>1. CASE u = t
    BY <2>1, <1>5, <1>6, <1>7 DEF Concluding
  <2>2. CASE u # t
    <3>1. Concluding(u) /\ thread'[u] = thread[u] /\ thread[u].job \in Jobs
      BY <2>2, <1>3, <1>4, <1>7
    <3>2. /\ finishes[thread[u].job] = 0
          /\ thread[u].pc # "publish" => Over(thread[u].job)
      BY <3>1 DEF Inv, ReportInv
    <3>3. thread[u].pc # "publish" => Over(thread[u].job)'
      BY <3>1, <3>2, <1>2 DEF Over, EndedOnDisk
    <3> QED
      BY <3>1, <3>2, <3>3
  <2> QED
    BY <2>1, <2>2
<1>8. \A u, v \in Threads : Concluding(u)' /\ Concluding(v)' /\ thread'[u].job = thread'[v].job => u = v
  BY <1>3, <1>5, <1>6 DEF Inv, ReportInv
<1>9. \A k \in Jobs : finishes'[k] > 0 => Over(k)' /\ finishes'[k] = 1
  BY <1>2 DEF Inv, ReportInv
<1> QED
  BY <1>7, <1>8, <1>9 DEF ReportInv, Over, EndedOnDisk

\* Processes are neither started nor forgotten.
AgyKeeps == \A k \in Jobs, a \in Attempts :
    /\ (agy'[k][a] = "none") <=> (agy[k][a] = "none")
    /\ agy'[k][a] = "running" => agy[k][a] = "running"

\* A step of t for a job whose start() has failed: the cancel of its own bridge ends
\* it in memory, publishes that and reports, or the end of start() itself.
AbortedStep(t, th) ==
    LET j == thread[t].job IN
    /\ AgyKeeps
    /\ disk'[j] = disk[j] \/ (disk'[j].state \in Terminal /\ Concluding(t))
    /\ \A b \in Bridges :
          mem'[b][j] = mem[b][j] \/ (mem'[b][j].state \in Terminal /\ j \notin watched'[b])
    /\ \A b \in Bridges :
          j \in watched[b] => j \in watched'[b] \/ mem'[b][j].state \in Terminal
    /\ th.pc \in {"idle", "closing", "cancelling", "publish", "signal", "notify", "cancel"}
    /\ finishes'[j] # finishes[j] => Concluding(t)
    /\ th.pc \in {"publish", "signal", "notify"} =>
          Concluding(t) \/ mem'[BridgeOf(t)][j].state \in Terminal

LEMMA StepAborts ==
  ASSUME Inv, NEW t \in Threads, NEW th, JobStep(t, th),
         Aborted(thread[t].job) => AbortedStep(t, th)
  PROVE  AbortInv'
<1> PICK j \in Jobs : j = thread[t].job
  BY StandingJob DEF JobStep
<1>1. /\ \A u \in Threads : thread'[u] = IF u = t THEN th ELSE thread[u]
      /\ \A u \in Threads : BridgeOf(u)' = BridgeOf(u)
      /\ owner' = owner /\ withdrawn' = withdrawn
  <2>1. owner' = owner /\ withdrawn' = withdrawn
    BY DEF JobStep
  <2> QED
    BY <2>1, StepThreads
<1>2. \A k : Aborted(k)' <=> Aborted(k)
  BY OtherStarters
<1>3. ASSUME NEW k \in Jobs, k # j, Aborted(k)
      PROVE  AbortOK(k)'
  <2>1. AbortOK(k)
    BY DEF Inv, AbortInv
  <2>2. /\ disk'[k] = disk[k] /\ finishes'[k] = finishes[k]
        /\ \A b \in Bridges :
              mem'[b][k] = mem[b][k] /\ (k \in watched'[b] <=> k \in watched[b])
        /\ \A a \in Attempts : agy'[k][a] = agy[k][a]
    BY <1>3 DEF JobStep
  <2>3. \A u \in Threads : thread'[u].pc # "idle" /\ thread'[u].job = k => thread'[u] = thread[u]
    BY <1>1, <1>3 DEF JobStep
  <2>4. Live(k)' = Live(k)
    BY <2>2 DEF Live
  <2>5. \A u \in Threads : Concluding(u)' /\ thread'[u].job = k => Concluding(u) /\ thread[u].job = k
    BY <2>3 DEF Concluding
  <2>6. 1 \in Attempts
    BY RegistryAssumption DEF Attempts
  <2> QED
    BY <1>1, <1>3, <2>1, <2>2, <2>3, <2>4, <2>5, <2>6 DEF AbortOK, EndedOnDisk
<1>4. ASSUME Aborted(j)
      PROVE  AbortOK(j)'
  <2>1. AbortOK(j) /\ 1 \in Attempts
    BY RegistryAssumption DEF Inv, AbortInv, Attempts
  <2>2. /\ AgyKeeps
        /\ disk'[j] = disk[j] \/ (EndedOnDisk(j)' /\ Concluding(t))
        /\ \A b \in Bridges :
              mem'[b][j] = mem[b][j] \/ (mem'[b][j].state \in Terminal /\ j \notin watched'[b])
        /\ \A b \in Bridges :
              j \in watched[b] => j \in watched'[b] \/ mem'[b][j].state \in Terminal
        /\ th.pc \in {"idle", "closing", "cancelling", "publish", "signal", "notify", "cancel"}
        /\ finishes'[j] # finishes[j] => Concluding(t)
        /\ th.pc \in {"publish", "signal", "notify"} =>
              Concluding(t) \/ mem'[BridgeOf(t)][j].state \in Terminal
    <3>1. AbortedStep(t, th)
      BY <1>4
    <3> QED
      BY <3>1 DEF AbortedStep, EndedOnDisk
  <2>3. t \in Callers /\ BridgeOf(t) = owner[j] /\ Home[t] = owner[j] /\ owner[j] \in Bridges
    <3>1. thread[t].pc # "idle"
      BY DEF JobStep, StartPhases
    <3> QED
      BY <1>4, <3>1, AbortedFacts, Busy DEF Inv
  <2>4. (disk[j] = Absent \/ EndedOnDisk(j)) /\ (disk'[j] = Absent \/ EndedOnDisk(j)')
    BY <2>1, <2>2, <1>4 DEF AbortOK, EndedOnDisk
  <2>5. ASSUME NEW b \in Bridges
        PROVE  /\ b # owner[j] => mem'[b][j].state # "running"
               /\ j \in watched'[b] => mem'[b][j].state = "running"
               /\ b = owner[j] /\ mem'[b][j].state = "running" =>
                     j \in watched'[b] \/ j \in withdrawn
    <3>1. "running" \notin Terminal /\ watched'[b] \subseteq watched[b]
      BY DEF Terminal, JobStep
    <3>2. /\ b # owner[j] => mem[b][j].state # "running"
          /\ j \in watched[b] => mem[b][j].state = "running"
          /\ b = owner[j] /\ mem[b][j].state = "running" =>
                j \in watched[b] \/ j \in withdrawn
      BY <1>4, <2>1 DEF AbortOK
    <3> QED
      BY <2>2, <3>1, <3>2
  <2>6. agy'[j][1] # "none" /\ \A a \in Attempts : a > 1 => agy'[j][a] = "none"
    <3>1. agy[j][1] # "none" /\ \A a \in Attempts : a > 1 => agy[j][a] = "none"
      BY <1>4, <2>1 DEF AbortOK
    <3> QED
      BY <2>1, <2>2, <3>1 DEF AgyKeeps
  <2>7. j \in withdrawn => Live(j)' = {}
    BY <1>4, <2>1, <2>2 DEF AbortOK, Live, AgyKeeps
  <2>8. ASSUME NEW u \in Threads, thread'[u].pc # "idle", thread'[u].job = j
        PROVE  /\ u \in Callers /\ Home[u] = owner[j]
               /\ thread'[u].pc \in {"killing", "forgetting", "closing",
                                     "cancel", "cancelling", "publish", "signal", "notify"}
    <3>1. CASE u = t
      BY <1>1, <2>2, <2>3, <2>8, <3>1
    <3>2. CASE u # t
      BY <1>1, <1>4, <2>1, <2>8, <3>2 DEF AbortOK
    <3> QED
      BY <3>1, <3>2
  <2>9. ASSUME \/ EndedOnDisk(j)'
               \/ finishes'[j] > 0
               \/ \E u \in Threads : Concluding(u)' /\ thread'[u].job = j
        PROVE  mem'[owner[j]][j].state \in Terminal
    <3>1. \/ EndedOnDisk(j)
          \/ finishes[j] > 0
          \/ \E u \in Threads : Concluding(u) /\ thread[u].job = j
          => mem[owner[j]][j].state \in Terminal
      BY <1>4, <2>1, <2>3 DEF AbortOK
    <3>2. mem[owner[j]][j].state \in Terminal => mem'[owner[j]][j].state \in Terminal
      BY <2>2, <2>3
    <3>3. CASE Concluding(t)
      BY <3>1, <3>2, <3>3
    <3>4. CASE ~Concluding(t)
      <4>1. EndedOnDisk(j)' => EndedOnDisk(j)
        BY <2>2, <3>4 DEF EndedOnDisk
      <4>2. ASSUME NEW u \in Threads, Concluding(u)', thread'[u].job = j
            PROVE  \/ Concluding(u) /\ thread[u].job = j
                   \/ mem'[owner[j]][j].state \in Terminal
        BY <1>1, <2>2, <2>3, <3>4, <4>2 DEF Concluding
      <4> QED
        BY <2>2, <2>9, <3>1, <3>2, <3>4, <4>1, <4>2
    <3> QED
      BY <3>3, <3>4
  <2> QED
    BY <1>1, <2>4, <2>5, <2>6, <2>7, <2>8, <2>9 DEF AbortOK
<1>5. ASSUME NEW c \in Callers, thread'[c].pc = "forgetting"
      PROVE  Live(thread[c].job)' = {} /\ thread'[c].job = thread[c].job
  <2>1. c \in Threads
    BY DEF Threads
  <2>2. c # t /\ thread'[c] = thread[c] /\ thread[c].pc = "forgetting"
    BY <1>1, <1>5, <2>1 DEF JobStep, StartPhases
  <2>3. Live(thread[c].job) = {} /\ thread[c].job \in Jobs /\ Aborted(thread[c].job)
    BY <2>1, <2>2, Busy DEF Inv, AbortInv, Aborted, Withdrawing
  <2>4. \A a \in Attempts : agy'[thread[c].job][a] = "running" => agy[thread[c].job][a] = "running"
    BY <2>3 DEF JobStep, AbortedStep, AgyKeeps
  <2> QED
    BY <2>2, <2>3, <2>4 DEF Live
<1>6. \A k \in Jobs : AbortOK(k)'
  <2> SUFFICES ASSUME NEW k \in Jobs PROVE AbortOK(k)'
    OBVIOUS
  <2>1. CASE ~Aborted(k)
    BY <1>2, <2>1 DEF AbortOK
  <2>2. CASE Aborted(k)
    BY <1>3, <1>4, <2>2
  <2> QED
    BY <2>1, <2>2
<1> QED
  BY <1>5, <1>6 DEF AbortInv

\* Every other job is as well watched as before.
LEMMA StepJobs ==
  ASSUME Inv, NEW t \in Threads, NEW th, JobStep(t, th),
         NEW j \in Jobs, j = thread[t].job, JobOK(j)'
  PROVE  JobsInv'
<1> SUFFICES ASSUME NEW k \in Jobs, k # j
             PROVE  JobOK(k)'
  BY DEF JobsInv
<1>1. k \in Threads /\ k # t
  <2>1. thread[t].pc # "idle"
    BY DEF JobStep, StartPhases
  <2> QED
    BY <2>1, Busy DEF Threads, Inv
<1>2. thread'[k] = thread[k] /\ owner'[k] = owner[k] /\ BridgeOf(k) = owner[k]
  BY <1>1, StepThreads DEF JobStep, BridgeOf
<1>3. FreshOK(k) /\ LiveOK(k) /\ WatchOK(k)
  BY DEF Inv, JobsInv, JobOK
<1>4. \A b \in Bridges : mem'[b][k] = mem[b][k] /\ watched'[b] \subseteq watched[b]
  BY DEF JobStep
<1>5. disk'[k] = disk[k] /\ \A a \in Attempts : agy'[k][a] = agy[k][a]
  BY DEF JobStep
<1>6. FreshOK(k)'
  <2>1. thread[k].pc # "idle" => owner[k] \in Bridges
    BY <1>1, <1>2, Busy DEF Inv
  <2> QED
    BY <1>2, <1>3, <1>4, <1>5, <2>1 DEF FreshOK, EndedOnDisk
<1>7. LiveOK(k)'
  BY <1>2, <1>3, <1>4, <1>5 DEF LiveOK, EndedOnDisk
<1>8. WatchOK(k)'
  <2>1. \A u \in Threads : Concluding(u)' /\ thread'[u].job = k =>
           Concluding(u) /\ thread[u].job = k /\ BridgeOf(u)' = BridgeOf(u)
    <3>1. \A u \in Threads : /\ thread'[u] = IF u = t THEN th ELSE thread[u]
                             /\ BridgeOf(u)' = BridgeOf(u)
      BY StepThreads
    <3>2. th.pc # "idle" => th.job # k
      BY DEF JobStep
    <3> QED
      BY <3>1, <3>2 DEF Concluding
  <2>2. \A c \in Callers : Starter(c) => Starter(c)' /\ thread'[c] = thread[c]
    BY OtherStarters
  <2> QED
    BY <1>2, <1>3, <1>4, <1>5, <2>1, <2>2 DEF WatchOK, EndedOnDisk, Starter
<1> QED
  BY <1>6, <1>7, <1>8 DEF JobOK

LEMMA SafeStarters == Inv => Starters
  BY DEF Inv, StarterInv, Starters, Starting

LEMMA AbortedJobOK ==
  ASSUME Inv, NEW t \in Threads, NEW th, JobStep(t, th),
         NEW j \in Jobs, j = thread[t].job, Aborted(j), AbortedStep(t, th)
  PROVE  JobOK(j)'
<1>1. /\ AgyKeeps
      /\ disk'[j] = disk[j] \/ (EndedOnDisk(j)' /\ Concluding(t))
      /\ \A b \in Bridges :
            mem'[b][j] = mem[b][j] \/ (mem'[b][j].state \in Terminal /\ j \notin watched'[b])
  <2>1. AbortedStep(t, th)
    OBVIOUS
  <2> QED
    BY <2>1 DEF AbortedStep, EndedOnDisk
<1>2. /\ \A u \in Threads : thread'[u] = IF u = t THEN th ELSE thread[u]
      /\ \A u \in Threads : BridgeOf(u)' = BridgeOf(u)
  BY StepThreads
<1>3. owner' = owner /\ withdrawn' = withdrawn /\ thread[t].pc \notin StartPhases
  BY DEF JobStep
<1>4. t # j /\ thread[j].pc = "idle" /\ j \in Threads
  <2>1. thread[t].pc # "idle"
    BY <1>3 DEF StartPhases
  <2> QED
    BY <2>1, AbortedFacts DEF Threads
<1>6. EndedOnDisk(j) => EndedOnDisk(j)'
  BY <1>1 DEF EndedOnDisk
<1>13. AbortInv'
  BY StepAborts
<1>14. FreshOK(j)'
  BY <1>2, <1>4 DEF FreshOK
<1>15. LiveOK(j)'
  <2>1. thread'[j].pc = "idle"
    BY <1>2, <1>4
  <2>2. ASSUME owner[j] \in Bridges, j \in watched'[owner[j]], ~EndedOnDisk(j)'
        PROVE  \A a \in Attempts : agy'[j][a] = "running" => a = mem'[owner[j]][j].pid
    <3>1. mem'[owner[j]][j] = mem[owner[j]][j] /\ j \in watched[owner[j]] /\ ~EndedOnDisk(j)
      BY <1>1, <1>6, <2>2 DEF JobStep
    <3>2. LiveOK(j)
      BY DEF Inv, JobsInv, JobOK
    <3> QED
      BY <1>1, <2>2, <3>1, <3>2 DEF LiveOK, AgyKeeps
  <2>3. \A a, i \in Attempts : agy'[j][a] = "running" /\ agy'[j][i] = "running" => a = i
    BY <1>1 DEF Inv, JobsInv, JobOK, LiveOK, AgyKeeps
  <2> QED
    BY <1>3, <2>1, <2>2, <2>3 DEF LiveOK
<1>16. WatchOK(j)'
  <2> SUFFICES ASSUME NEW b \in Bridges, j \in watched'[b]
               PROVE  /\ b = owner[j]
                      /\ mem'[b][j].state = "running"
                      /\ \E c \in Callers : Starter(c)' /\ thread'[c].job = j
                      /\ \A u \in Threads : Concluding(u)' /\ thread'[u].job = j => BridgeOf(u)' # b
    BY <1>3 DEF WatchOK, Starter
  <2>1. j \in watched[b] /\ b = owner[j]
    BY AbortedFacts DEF JobStep
  <2>2. AbortOK(j) /\ AbortOK(j)' /\ Aborted(j)'
    BY <1>13, OtherStarters DEF Inv, AbortInv
  <2>3. mem'[b][j].state = "running"
    BY <2>2 DEF AbortOK
  <2>4. PICK c \in Callers : Starter(c) /\ thread[c].job = j
    <3>1. WatchOK(j)
      BY DEF Inv, JobsInv, JobOK
    <3> QED
      BY <1>4, <2>1, <3>1 DEF WatchOK, Starter
  <2>5. Starter(c)' /\ thread'[c].job = j
    BY <2>4, OtherStarters
  <2>6. \A u \in Threads : ~(Concluding(u)' /\ thread'[u].job = j)
    BY <1>3, <2>1, <2>2, <2>3 DEF AbortOK, Terminal
  <2> QED
    BY <2>1, <2>3, <2>5, <2>6
<1> QED
  BY <1>14, <1>15, <1>16 DEF JobOK

\* A step for a job whose start() has failed.
LEMMA AbortedSafe ==
  ASSUME Inv, Typed', NEW t \in Threads, NEW th, JobStep(t, th), finishes' = finishes,
         NEW j \in Jobs, j = thread[t].job, Aborted(j), AbortedStep(t, th), MemoryStep(t),
         th.pc \in FlockPhases => HoldsFlock(t) \/ FlockFree(j),
         th.pc = "publish" => HoldsMutex(t) \/ MutexFree(BridgeOf(t)),
         th.pc \in {"publish", "signal", "notify"} => Concluding(t) \/ Deciding(t),
         th.pc \in {"signal", "notify"} => EndedOnDisk(j)' \/ j \in withdrawn,
         th.pc = "publish" => mem'[BridgeOf(t)][j].state \in Terminal
  PROVE  Inv'
<1>1. /\ AgyKeeps
      /\ disk'[j] = disk[j] \/ (EndedOnDisk(j)' /\ Concluding(t))
      /\ \A b \in Bridges :
            mem'[b][j] = mem[b][j] \/ (mem'[b][j].state \in Terminal /\ j \notin watched'[b])
      /\ th.pc \in {"idle", "closing", "cancelling", "publish", "signal", "notify", "cancel"}
  <2>1. AbortedStep(t, th)
    OBVIOUS
  <2> QED
    BY <2>1 DEF AbortedStep, EndedOnDisk
<1>2. /\ \A u \in Threads : thread'[u] = IF u = t THEN th ELSE thread[u]
      /\ \A u \in Threads : BridgeOf(u)' = BridgeOf(u)
  BY StepThreads
<1>3. owner' = owner /\ withdrawn' = withdrawn /\ thread[t].pc \notin StartPhases
  BY DEF JobStep
<1>4. t # j /\ thread[j].pc = "idle" /\ j \in Threads /\ BridgeOf(t) \in Bridges
      /\ BridgeOf(t) = owner[j]
  <2>1. thread[t].pc # "idle"
    BY <1>3 DEF StartPhases
  <2> QED
    BY <2>1, AbortedFacts DEF Threads
<1>5. disk'[j] = disk[j] \/ disk'[j].state # "absent"
  BY <1>1 DEF EndedOnDisk, Terminal
<1>6. EndedOnDisk(j) => EndedOnDisk(j)'
  BY <1>1 DEF EndedOnDisk
<1>7. LocksInv'
  <2>1. th.pc # "respawned"
    BY <1>1
  <2> QED
    BY <2>1, StepLocks
<1>8. PublicInv'
  BY <1>1, <1>5, StepPublic DEF AgyGrows, AgyKeeps
<1>9. MemoryInv'
  BY <1>5, StepMemory
<1>10. StarterInv'
  BY <1>1, StepStarters DEF AgyGrows, AgyKeeps
<1>11. PhaseInv'
  <2>1. PhaseOK(t)'
    <3>1. Aborted(j)'
      BY OtherStarters
    <3>2. thread'[t] = th /\ BridgeOf(t)' = BridgeOf(t) /\ (th.pc # "idle" => th.job = j)
      BY <1>2 DEF JobStep
    <3> QED
      BY <1>1, <3>1, <3>2 DEF PhaseOK
  <2>2. \A u \in Threads : u # t /\ thread[u].job = j => thread[u].pc # "respawned"
    BY AbortedFacts
  <2> QED
    BY <1>5, <2>1, <2>2, StepPhases
<1>12. ReportInv'
  BY <1>3, <1>6, StepReports DEF Over
<1>13. AbortInv'
  BY StepAborts
<1>14. JobsInv'
  BY StepJobs, AbortedJobOK
<1> QED
  BY <1>7, <1>8, <1>9, <1>10, <1>11, <1>12, <1>13, <1>14 DEF Inv

----------------------------------------------------------------------------
\* The job of the step itself, when it is public: its watch and its processes.

WatchingPhases == {"waiting", "readout", "finalize", "finalizing", "respawned", "forcefail"}

\* A thread that works for a public job has no starter beside it.
LEMMA WatchedFacts ==
  ASSUME Inv, NEW j \in Jobs, disk[j] # Absent, ~Aborted(j), NEW b \in Bridges, j \in watched[b]
  PROVE  /\ b = owner[j] /\ thread[j].pc \in WatchingPhases
         /\ mem[b][j].state = "running" \/ EndedOnDisk(j)
         /\ \A t \in Threads : Concluding(t) /\ thread[t].job = j => BridgeOf(t) # b
<1>1. \A c \in Callers : Starter(c) => thread[c].job # j
  BY StarterFacts DEF Starter
<1> QED
  BY <1>1 DEF Inv, JobsInv, JobOK, WatchOK, WatchingPhases, Starter

LEMMA StepWatch ==
  ASSUME Inv, NEW t \in Threads, NEW th, JobStep(t, th),
         NEW j \in Jobs, j = thread[t].job, ~Aborted(j),
         EndedOnDisk(j) => EndedOnDisk(j)',
         \A b \in Bridges : j \in watched'[b] =>
             mem'[b][j] = mem[b][j] \/ mem'[b][j].state = "running" \/ EndedOnDisk(j)',
         t = j => th.pc \in WatchingPhases \/ \A b \in Bridges : j \notin watched'[b],
         th.pc \in {"publish", "signal", "notify"} =>
             Concluding(t) \/ j \notin watched'[BridgeOf(t)]
  PROVE  WatchOK(j)'
<1> SUFFICES ASSUME NEW b \in Bridges, j \in watched'[b]
             PROVE  /\ b = owner'[j]
                    /\ mem'[b][j].state = "running" \/ EndedOnDisk(j)'
                    /\ thread'[j].pc \in WatchingPhases
                    /\ \A u \in Threads : Concluding(u)' /\ thread'[u].job = j => BridgeOf(u)' # b
  BY DEF WatchOK, WatchingPhases
<1>1. j \in watched[b] /\ owner' = owner /\ j \in Threads /\ thread[t].pc \notin StartPhases
  BY DEF JobStep, Threads
<1>2. /\ b = owner[j] /\ thread[j].pc \in WatchingPhases
      /\ mem[b][j].state = "running" \/ EndedOnDisk(j)
      /\ \A u \in Threads : Concluding(u) /\ thread[u].job = j => BridgeOf(u) # b
  BY <1>1, PublicJob, WatchedFacts
<1>3. thread'[j].pc \in WatchingPhases
  BY <1>1, <1>2, StepThreads
<1>4. \A u \in Threads : Concluding(u)' /\ thread'[u].job = j => BridgeOf(u)' # b
  <2> SUFFICES ASSUME NEW u \in Threads, Concluding(u)', thread'[u].job = j
               PROVE  BridgeOf(u)' # b
    OBVIOUS
  <2>1. CASE u = t
    BY <2>1, <1>2, StepThreads DEF Concluding
  <2>2. CASE u # t
    BY <2>2, <1>2, StepThreads DEF Concluding
  <2> QED
    BY <2>1, <2>2
<1> QED
  BY <1>1, <1>2, <1>3, <1>4

LEMMA StepLive ==
  ASSUME Inv, NEW t \in Threads, NEW th, JobStep(t, th),
         NEW j \in Jobs, j = thread[t].job,
         EndedOnDisk(j) => EndedOnDisk(j)',
         \A a \in Attempts : agy'[j][a] = "running" => agy[j][a] = "running",
         owner[j] \in Bridges /\ j \in watched'[owner[j]] =>
             mem'[owner[j]][j] = mem[owner[j]][j] \/ EndedOnDisk(j)',
         t = j /\ owner[j] \in Bridges /\ j \in watched'[owner[j]] /\ ~EndedOnDisk(j)' =>
             /\ th.pc = "waiting" => th.pid = mem[owner[j]][j].pid
             /\ th.pc \in {"readout", "finalize", "finalizing"} /\ th.rc = "nonzero"
                  => \A a \in Attempts : agy'[j][a] # "running"
  PROVE  LiveOK(j)'
<1>1. LiveOK(j)
  BY DEF Inv, JobsInv, JobOK
<1>2. \A a, i \in Attempts : agy'[j][a] = "running" /\ agy'[j][i] = "running" => a = i
  BY <1>1 DEF LiveOK
<1>3. ASSUME owner'[j] \in Bridges, j \in watched'[owner'[j]], ~EndedOnDisk(j)'
      PROVE  LET rec == mem'[owner'[j]][j] IN
             /\ \A a \in Attempts : agy'[j][a] = "running" => a = rec.pid
             /\ thread'[j].pc = "waiting" => thread'[j].pid = rec.pid
             /\ thread'[j].pc \in {"readout", "finalize", "finalizing"} /\ thread'[j].rc = "nonzero"
                   => \A a \in Attempts : agy'[j][a] # "running"
  <2>1. owner' = owner /\ j \in watched[owner[j]] /\ ~EndedOnDisk(j) /\ owner[j] \in Bridges
    BY <1>3 DEF JobStep
  <2>2. mem'[owner[j]][j] = mem[owner[j]][j]
    BY <1>3, <2>1
  <2>3. \A a \in Attempts : agy[j][a] = "running" => a = mem[owner[j]][j].pid
    BY <1>1, <2>1 DEF LiveOK
  <2>4. CASE t = j
    <3>1. thread'[j] = th
      BY <2>4, StepThreads
    <3> QED
      BY <1>3, <2>1, <2>2, <2>3, <2>4, <3>1
  <2>5. CASE t # j
    <3>1. thread'[j] = thread[j]
      BY <2>5, StepThreads DEF Threads
    <3>2. /\ thread[j].pc = "waiting" => thread[j].pid = mem[owner[j]][j].pid
          /\ thread[j].pc \in {"readout", "finalize", "finalizing"} /\ thread[j].rc = "nonzero"
                => \A a \in Attempts : agy[j][a] # "running"
      BY <1>1, <2>1 DEF LiveOK
    <3> QED
      BY <2>1, <2>2, <2>3, <3>1, <3>2
  <2> QED
    BY <2>4, <2>5
<1> QED
  BY <1>2, <1>3 DEF LiveOK

----------------------------------------------------------------------------
\* Steps that change no record: only the thread moves, or a process of j dies.

LEMMA MoveSafe ==
  ASSUME Inv, Typed', NEW t \in Threads, NEW th, JobStep(t, th), AgyKeeps,
         ~Aborted(thread[t].job),
         th.pc \notin {"publish", "respawned", "waiting"},
         th.pc \in FlockPhases => FlockFree(thread[t].job),
         th.pc \in {"signal", "notify"} => thread[t].pc = "signal",
         t \in Jobs /\ th.pc \in {"readout", "finalize", "finalizing"} =>
             /\ thread[t].pc \in {"waiting", "readout", "finalize"}
             /\ th.rc = "nonzero" /\ owner[t] \in Bridges /\ t \in watched[owner[t]] /\ ~EndedOnDisk(t)
                  => \A a \in Attempts : agy'[t][a] # "running",
         t \in Jobs /\ th.pc \notin WatchingPhases => \A b \in Bridges : t \notin watched'[b],
         UNCHANGED <<disk, mem, finishes>>
  PROVE  Inv'
<1> PICK j \in Jobs : j = thread[t].job
  BY StandingJob DEF JobStep
<1>1. /\ j \in Jobs /\ BridgeOf(t) \in Bridges /\ disk[j] # Absent /\ disk'[j].state # "absent"
      /\ thread[t].pc \notin StartPhases
  BY PublicJob DEF JobStep
<1>2. /\ \A u \in Threads : thread'[u] = IF u = t THEN th ELSE thread[u]
      /\ \A u \in Threads : BridgeOf(u)' = BridgeOf(u)
  BY StepThreads
<1>3. LocksInv'
  BY StepLocks
<1>4. PublicInv'
  BY <1>1, StepPublic DEF AgyKeeps, AgyGrows
<1>5. MemoryStep(t)
  BY DEF MemoryStep
<1>6. MemoryInv'
  BY <1>1, <1>5, StepMemory
<1>7. StarterInv'
  BY StepStarters DEF AgyKeeps, AgyGrows
<1>8. PhaseInv'
  <2>1. PhaseOK(t)'
    BY <1>1, <1>2 DEF PhaseOK, JobStep
  <2>2. \A u \in Threads : thread[u].job = j /\ thread[u].pc = "respawned" => ~EndedOnDisk(j)'
    BY DEF Inv, PhaseInv, PhaseOK, EndedOnDisk
  <2> QED
    BY <1>1, <1>5, <2>1, <2>2, StepPhases
<1>9. ReportInv'
  <2>1. th.pc \in {"signal", "notify"} => Concluding(t) /\ Over(j)'
    BY DEF Concluding, Inv, ReportInv, EndedOnDisk, Over, JobStep
  <2> QED
    BY <1>1, <2>1, StepReports DEF EndedOnDisk
<1>10. AbortInv'
  BY StepAborts
<1>11. FreshOK(j)'
  <2>1. j \in Threads /\ (j = t => t \in Jobs) /\ owner' = owner
    BY <1>1 DEF Threads, JobStep
  <2>2. thread'[j].pc \in {"waiting", "readout", "finalize", "finalizing", "respawned"}
          => /\ thread[j].pc \in {"waiting", "readout", "finalize", "finalizing", "respawned"}
             /\ BridgeOf(j) \in Bridges /\ BridgeOf(j) = owner[j]
    <3>1. thread'[j].pc \in {"waiting", "readout", "finalize", "finalizing", "respawned"}
          => thread[j].pc \in {"waiting", "readout", "finalize", "finalizing", "respawned"}
      BY <1>2, <2>1 DEF FlockPhases
    <3> QED
      BY <2>1, <3>1, Busy DEF Inv, BridgeOf
  <2>3. FreshOK(j)
    BY <1>1 DEF Inv, JobsInv, JobOK
  <2>4. \A b \in Bridges : watched'[b] \subseteq watched[b]
    BY DEF JobStep
  <2> QED
    BY <1>1, <2>1, <2>2, <2>3, <2>4 DEF FreshOK, EndedOnDisk, AgyKeeps
<1>12. LiveOK(j)'
  <2>1. j \in watched'[owner[j]] /\ owner[j] \in Bridges => j \in watched[owner[j]]
    BY DEF JobStep
  <2> QED
    BY <1>1, <2>1, StepLive DEF EndedOnDisk, AgyKeeps
<1>13. WatchOK(j)'
  <2>1. th.pc \in {"signal", "notify"} => Concluding(t)
    BY DEF Concluding
  <2> QED
    BY <1>1, <2>1, StepWatch DEF EndedOnDisk
<1>14. JobsInv'
  BY <1>1, <1>11, <1>12, <1>13, StepJobs DEF JobOK
<1> QED
  BY <1>3, <1>4, <1>6, <1>7, <1>8, <1>9, <1>10, <1>14 DEF Inv

----------------------------------------------------------------------------
\* Steps under the job's flock and the bridge's mutex.

Locked(t) ==
    /\ thread[t].pc \notin StartPhases
    /\ HoldsFlock(t)
    /\ HoldsMutex(t) \/ CanLock(t)

LEMMA AloneUnderLocks ==
  ASSUME Inv, NEW t \in Threads, Locked(t)
  PROVE  /\ \A u \in Threads : u # t /\ thread[u].job = thread[t].job => ~HoldsFlock(u)
         /\ \A u \in Threads : u # t /\ BridgeOf(u) = BridgeOf(t) => ~HoldsMutex(u)
  BY LockPhases DEF Locked, MutexFree, Inv, LocksInv

LEMMA LockedSafe ==
  ASSUME Inv, Typed', NEW t \in Threads, NEW th, JobStep(t, th), AgyGrows, finishes' = finishes,
         NEW j \in Jobs, j = thread[t].job, ~Aborted(j), NEW b \in Bridges, b = BridgeOf(t),
         Locked(t),
         th.pc \in {"publish", "signal", "notify"} => Concluding(t) \/ Deciding(t),
         th.pc \in {"signal", "notify"} => EndedOnDisk(j)',
         disk'[j].state # "absent", EndedOnDisk(j) => EndedOnDisk(j)',
         \A d \in Bridges : d # b => mem'[d][j] = mem[d][j],
         mem'[b][j] = mem[b][j] \/ mem'[b][j].state # "absent",
         PhaseOK(t)', JobOK(j)'
  PROVE  Inv'
<1>1. /\ \A u \in Threads : u # t /\ thread[u].job = j => ~HoldsFlock(u)
      /\ \A u \in Threads : u # t /\ BridgeOf(u) = b => ~HoldsMutex(u)
  BY AloneUnderLocks
<1>2. LocksInv'
  BY StepLocks, LockPhases DEF Locked
<1>3. PublicInv'
  BY StepPublic
<1>4. MemoryStep(t)
  BY <1>1 DEF MemoryStep
<1>5. MemoryInv'
  BY <1>4, StepMemory
<1>6. StarterInv'
  BY StepStarters
<1>7. PhaseInv'
  <2>1. \A u \in Threads : u # t /\ thread[u].job = j => thread[u].pc # "respawned"
    BY <1>1, LockPhases DEF FlockPhases
  <2> QED
    BY <1>4, <2>1, StepPhases
<1>8. ReportInv'
  BY StepReports DEF Over
<1>9. AbortInv'
  BY StepAborts
<1>10. JobsInv'
  BY StepJobs
<1> QED
  BY <1>2, <1>3, <1>5, <1>6, <1>7, <1>8, <1>9, <1>10 DEF Inv

\* What Commit does, for every job.
LEMMA CommitStep ==
  ASSUME Inv, NEW t \in Threads, thread[t].pc \in {"finalizing", "cancelling"},
         NEW s \in Terminal, NEW kill \in 0..MaxAttempts, Commit(t, s, kill)
  PROVE  LET j == thread[t].job
             b == BridgeOf(t)
             th == Thread("publish", thread[t].op, j, kill)
         IN
         /\ JobStep(t, th) /\ th.pc = "publish" /\ th.job = j
         /\ mem'[b][j].state = s /\ s # "absent" /\ s # "running"
         /\ \A d \in Bridges, k \in Jobs : d # b \/ k # j => mem'[d][k] = mem[d][k]
         /\ j \notin watched'[b]
         /\ disk' = disk /\ agy' = agy /\ finishes' = finishes
<1> PICK j \in Jobs, b \in Bridges : j = thread[t].job /\ b = BridgeOf(t)
  BY StandingJob DEF StartPhases
<1> DEFINE th == Thread("publish", thread[t].op, j, kill)
           rec == EndedRecord(Known(b, j), s)
<1>1. th \in ThreadStates /\ th.pc = "publish" /\ th.job = j
  <2>1. thread[t] \in ThreadStates
    BY Busy DEF Inv
  <2> QED
    BY <2>1, ThreadTyped, ThreadFields DEF Phases
<1>2. mem' = [mem EXCEPT ![b] = [@ EXCEPT ![j] = rec]]
  BY DEF Commit
<1>3. rec.state = s /\ s # "absent" /\ s # "running"
  BY EndedFields DEF Terminal
<1>4. /\ mem'[b][j] = rec
      /\ \A d \in Bridges, k \in Jobs : d # b \/ k # j => mem'[d][k] = mem[d][k]
  <2> HIDE DEF rec
  <2> QED
    BY <1>2 DEF Inv, Typed, TypeOK
<1>5. /\ j \notin watched'[b] /\ \A d \in Bridges : watched'[d] \subseteq watched[d]
      /\ \A k \in Jobs, d \in Bridges : k # j /\ k \in watched[d] => k \in watched'[d]
  BY DEF Commit, Unwatch, Inv, Typed, TypeOK
<1>6. JobStep(t, th)
  BY <1>1, <1>4, <1>5 DEF Commit, JobStep, StartPhases
<1> QED
  BY <1>1, <1>3, <1>4, <1>5, <1>6 DEF Commit

\* Under both locks, about a job that has not ended.
LEMMA CommitSafe ==
  ASSUME Inv, Typed', NEW t \in Threads, thread[t].pc \in {"finalizing", "cancelling"}, CanLock(t),
         ~EndedOnDisk(thread[t].job), Known(BridgeOf(t), thread[t].job).state = "running",
         NEW s \in Terminal, NEW kill \in 0..MaxAttempts, Commit(t, s, kill)
  PROVE  Inv'
<1> PICK j \in Jobs, b \in Bridges : j = thread[t].job /\ b = BridgeOf(t)
  BY StandingJob DEF StartPhases
<1> PICK th : th = Thread("publish", thread[t].op, j, kill)
  OBVIOUS
<1>1. /\ JobStep(t, th) /\ th.pc = "publish" /\ th.job = j
      /\ mem'[b][j].state = s /\ s # "absent" /\ s # "running"
      /\ \A d \in Bridges, k \in Jobs : d # b \/ k # j => mem'[d][k] = mem[d][k]
      /\ j \notin watched'[b]
      /\ disk' = disk /\ agy' = agy /\ finishes' = finishes
  BY CommitStep
<1>2. Locked(t)
  BY LockPhases DEF Locked, StartPhases, FlockPhases
<1>3. Deciding(t)
  <2>1. Aborted(j) => disk[j] = Absent
    BY AbortedFacts
  <2>2. Aborted(j) => mem[b][j].state = "running"
    BY <2>1, AbsentState DEF Known
  <2> QED
    BY <2>2 DEF Deciding
<1>4. EndedOnDisk(j)' = EndedOnDisk(j) /\ AgyGrows /\ AgyKeeps
  BY <1>1 DEF EndedOnDisk, AgyGrows, AgyKeeps
<1>5. thread'[t] = th /\ BridgeOf(t)' = b /\ \A u \in Threads : u # t => thread'[u] = thread[u]
  BY <1>1, StepThreads
<1>6. CASE Aborted(j)
  <2>1. AbortedStep(t, th)
    <3>1. \A d \in Bridges : j \in watched[d] => d = owner[j]
      BY <1>6, AbortedFacts
    <3>2. owner[j] = b
      BY <1>6, AbortedFacts
    <3> QED
      BY <1>1, <1>4, <3>1, <3>2 DEF AbortedStep
  <2>2. MemoryStep(t)
    BY <1>1, <1>2, AloneUnderLocks DEF MemoryStep
  <2>3. HoldsFlock(t) /\ MutexFree(BridgeOf(t))
    BY <1>2, LockPhases DEF Locked
  <2> QED
    BY <1>1, <1>3, <1>6, <2>1, <2>2, <2>3, AbortedSafe
<1>7. CASE ~Aborted(j)
  <2>1. disk[j] # Absent /\ disk[j].state # "absent"
    BY <1>7, PublicJob DEF StartPhases
  <2>2. PhaseOK(t)'
    BY <1>1, <1>5, <2>1 DEF PhaseOK
  <2>3. FreshOK(j)'
    <3>1. j \in Threads /\ owner' = owner
      BY <1>1 DEF Threads, JobStep
    <3>2. FreshOK(j)
      BY DEF Inv, JobsInv, JobOK
    <3>3. CASE j = t
      BY <1>1, <1>5, <3>3 DEF FreshOK
    <3>4. CASE j # t /\ owner[j] = b
      BY <1>1, <3>1, <3>4 DEF FreshOK
    <3>5. CASE j # t /\ owner[j] # b
      <4>1. thread'[j] = thread[j]
        BY <1>5, <3>1, <3>5
      <4>2. thread[j].pc # "idle" => owner[j] \in Bridges
        BY <3>1, Busy DEF Inv, BridgeOf
      <4>3. \A d \in Bridges : watched'[d] \subseteq watched[d]
        BY <1>1 DEF JobStep
      <4> QED
        BY <1>1, <3>1, <3>2, <3>5, <4>1, <4>2, <4>3 DEF FreshOK, EndedOnDisk
    <3> QED
      BY <3>3, <3>4, <3>5
  <2>4. WatchOK(j)'
    <3>1. t = j => \A d \in Bridges : j \notin watched'[d]
      <4>1. \A d \in Bridges : watched'[d] \subseteq watched[d]
        BY <1>1 DEF JobStep
      <4>2. \A d \in Bridges : j \in watched[d] => d = owner[j]
        BY <1>7, <2>1, WatchedFacts
      <4>3. t = j => b = owner[j]
        BY DEF BridgeOf
      <4> QED
        BY <1>1, <4>1, <4>2, <4>3
    <3> QED
      BY <1>1, <1>4, <1>7, <3>1, StepWatch
  <2>5. LiveOK(j)'
    BY <1>1, <1>4, StepLive
  <2> QED
    BY <1>1, <1>2, <1>3, <1>4, <1>7, <2>1, <2>2, <2>3, <2>4, <2>5, LockedSafe DEF JobOK
<1> QED
  BY <1>6, <1>7

\* The record of an ended job is taken over from the disk (thread t then returns).
LEMMA AdoptSafe ==
  ASSUME Inv, Typed', NEW t \in Threads, thread[t].pc \in {"finalizing", "cancelling"}, CanLock(t),
         EndedOnDisk(thread[t].job), Return(t),
         UNCHANGED <<disk, agy, owner, finishes, withdrawn>>,
         mem' = [mem EXCEPT ![BridgeOf(t)] = [@ EXCEPT ![thread[t].job] = disk[thread[t].job]]],
         \A d \in Bridges : watched'[d] \subseteq watched[d],
         \A k \in Jobs, d \in Bridges :
             k # thread[t].job /\ k \in watched[d] => k \in watched'[d],
         t \in Jobs => t \notin watched'[BridgeOf(t)]
  PROVE  Inv'
<1> PICK j \in Jobs, b \in Bridges : j = thread[t].job /\ b = BridgeOf(t)
  BY StandingJob DEF StartPhases
<1>1. disk[j].state # "absent" /\ EndedOnDisk(j) /\ EndedOnDisk(j)'
  BY DEF EndedOnDisk, Terminal
<1>2. /\ mem'[b][j] = disk[j]
      /\ \A d \in Bridges, k \in Jobs : d # b \/ k # j => mem'[d][k] = mem[d][k]
  BY DEF Inv, Typed, TypeOK
<1>3. JobStep(t, Idle) /\ Idle.pc = "idle"
  BY <1>2, IdleTyped DEF JobStep, Return, StartPhases
<1>4. AgyGrows /\ AgyKeeps
  BY DEF AgyGrows, AgyKeeps
<1>5. Locked(t)
  BY LockPhases DEF Locked, StartPhases, FlockPhases
<1>6. CASE Aborted(j)
  <2>1. \A d \in Bridges : j \notin watched[d]
    BY <1>1, <1>6, AbortedFacts
  <2>2. AbortedStep(t, Idle)
    BY <1>1, <1>2, <1>3, <1>4, <2>1 DEF AbortedStep, EndedOnDisk
  <2>3. MemoryStep(t)
    BY <1>1, <1>2, <1>5, AloneUnderLocks DEF MemoryStep
  <2> QED
    BY <1>3, <1>6, <2>2, <2>3, AbortedSafe DEF FlockPhases
<1>7. CASE ~Aborted(j)
  <2>1. PhaseOK(t)'
    BY <1>3, StepThreads DEF PhaseOK
  <2>2. FreshOK(j)'
    BY <1>1 DEF FreshOK
  <2>3. WatchOK(j)'
    <3>1. t = j => \A d \in Bridges : j \notin watched'[d]
      BY <1>1, <1>7, AbsentState, WatchedFacts DEF BridgeOf
    <3> QED
      BY <1>1, <1>3, <1>7, <3>1, StepWatch
  <2>4. LiveOK(j)'
    BY <1>1, <1>3, StepLive
  <2> QED
    BY <1>1, <1>2, <1>3, <1>4, <1>5, <1>7, <2>1, <2>2, <2>3, <2>4, LockedSafe DEF JobOK
<1> QED
  BY <1>6, <1>7

LEMMA FinalizeAdoptsSafe ==
  ASSUME Inv, Typed', NEW t \in Threads, FinalizeAdopts(t)
  PROVE  Inv'
<1>1. BridgeOf(t) \in Bridges
  BY Busy DEF FinalizeAdopts, Inv
<1>2. /\ \A d \in Bridges : watched'[d] \subseteq watched[d]
      /\ \A k \in Jobs, d \in Bridges :
            k # thread[t].job /\ k \in watched[d] => k \in watched'[d]
  BY <1>1 DEF FinalizeAdopts, Unwatch, Inv, Typed, TypeOK
<1>3. thread[t].job \notin watched'[BridgeOf(t)]
  BY <1>1 DEF FinalizeAdopts, Unwatch, Inv, Typed, TypeOK
<1>4. t \in Jobs => thread[t].job = t
  BY Busy DEF FinalizeAdopts, Inv
<1> QED
  BY <1>2, <1>3, <1>4, AdoptSafe DEF FinalizeAdopts

\* A step that changes nothing but the thread, which returns, and possibly servers.
LEMMA ReturnSafe ==
  ASSUME Inv, Typed', NEW t \in Threads, thread[t].pc \notin StartPhases, Return(t),
         UNCHANGED <<disk, mem, agy, owner, finishes, withdrawn>>,
         watched' = watched,
         t \in Jobs => \A b \in Bridges : t \notin watched[b]
  PROVE  Inv'
<1>1. JobStep(t, Idle) /\ Idle.pc = "idle"
  BY IdleTyped DEF JobStep, Return
<1>2. AgyKeeps
  BY DEF AgyKeeps
<1>3. CASE ~Aborted(thread[t].job)
  BY <1>1, <1>2, <1>3, MoveSafe DEF FlockPhases
<1>4. CASE Aborted(thread[t].job)
  <2>1. AbortedStep(t, Idle) /\ MemoryStep(t)
    BY <1>1, <1>2 DEF AbortedStep, MemoryStep
  <2> QED
    BY <1>1, <1>4, <2>1, StandingJob, AbortedSafe DEF FlockPhases
<1> QED
  BY <1>3, <1>4

\* A watcher works for a public job.
LEMMA WatchersJob ==
  ASSUME Inv, NEW t \in Threads, thread[t].pc # "idle",
         \/ t \in Jobs
         \/ thread[t].pc \in {"probe", "readout", "finalize", "finalizing"}
  PROVE  thread[t].job \in Jobs /\ ~Aborted(thread[t].job)
<1>1. thread[t].job \in Jobs
  BY Busy DEF Inv
<1> QED
  BY <1>1, AbortedFacts

\* A watcher that finds nothing to end has no watched job.
LEMMA FinalizeReentersSafe ==
  ASSUME Inv, Typed', NEW t \in Threads, FinalizeReenters(t)
  PROVE  Inv'
<1>1. thread[t].pc = "finalizing" /\ ~Aborted(thread[t].job)
  BY WatchersJob DEF FinalizeReenters
<1>2. ASSUME t \in Jobs, NEW b \in Bridges, t \in watched[b]
      PROVE  FALSE
  <2>1. thread[t].job = t /\ disk[t] # Absent
    BY <1>1, <1>2, Busy, PublicJob DEF Inv, StartPhases
  <2>2. b = owner[t] /\ BridgeOf(t) = b /\ ~EndedOnDisk(t)
    BY <1>1, <1>2, <2>1, WatchedFacts DEF BridgeOf, FinalizeReenters
  <2>3. mem[b][t].state = "running"
    BY <1>1, <1>2, <2>1, <2>2, WatchedFacts
  <2>4. Known(b, t) = mem[b][t]
    BY <2>3, AbsentState DEF Known
  <2> QED
    BY <2>1, <2>2, <2>3, <2>4, AbsentState DEF FinalizeReenters, Terminal
<1>3. /\ Return(t) /\ UNCHANGED <<disk, mem, agy, owner, finishes, withdrawn>>
      /\ watched' = watched
  BY DEF FinalizeReenters
<1> QED
  BY <1>1, <1>2, <1>3, ReturnSafe DEF StartPhases

\* A file operation fails: the watcher goes into the last safety net.
LEMMA FinalizeFailsSafe ==
  ASSUME Inv, Typed', NEW t \in Threads, FinalizeFails(t)
  PROVE  Inv'
<1>1. thread[t].pc \in {"finalize", "cancel", "publish", "respawned"}
  BY DEF FinalizeFails
<1>2. /\ UNCHANGED <<disk, mem, agy, owner, finishes, withdrawn>>
      /\ watched' = watched
  BY DEF FinalizeFails
<1>3. CASE t \in Jobs
  <2> DEFINE th == Phase(t, "forcefail")
  <2>1. th \in ThreadStates /\ th.pc = "forcefail" /\ th.job = thread[t].job
    BY <1>1, Busy, PhaseTyped DEF Inv, Phases
  <2> HIDE DEF th
  <2>2. thread' = [thread EXCEPT ![t] = th]
    BY <1>3 DEF FinalizeFails, th
  <2>3. JobStep(t, th) /\ AgyKeeps
    BY <1>1, <1>2, <2>1, <2>2 DEF JobStep, AgyKeeps, StartPhases
  <2>4. ~Aborted(thread[t].job)
    BY <1>1, <1>3, WatchersJob
  <2> QED
    BY <1>1, <1>2, <2>1, <2>3, <2>4, MoveSafe DEF WatchingPhases, FlockPhases
<1>4. CASE t \notin Jobs
  <2>1. Return(t)
    BY <1>4 DEF FinalizeFails
  <2> QED
    BY <1>1, <1>2, <1>4, <2>1, ReturnSafe DEF StartPhases
<1> QED
  BY <1>3, <1>4

LEMMA CancelFindsEndedSafe ==
  ASSUME Inv, Typed', NEW c \in Callers, CancelFindsEnded(c)
  PROVE  Inv'
<1>1. c \in Threads /\ c \notin Jobs /\ BridgeOf(c) = Home[c]
  BY RegistryAssumption DEF Threads, BridgeOf
<1>2. CASE EndedOnDisk(thread[c].job)
  BY <1>1, <1>2, AdoptSafe DEF CancelFindsEnded
<1>3. CASE ~EndedOnDisk(thread[c].job)
  BY <1>1, <1>3, ReturnSafe DEF CancelFindsEnded, StartPhases
<1> QED
  BY <1>2, <1>3

\* The thread that has taken a server out of _servers closes it and ends.  A watcher
\* has forgotten the job before.
LEMMA CloseServerSafe ==
  ASSUME Inv, Typed', NEW t \in Threads, CloseServer(t)
  PROVE  Inv'
<1>1. thread[t].pc = "closing"
  BY DEF CloseServer
<1>2. /\ UNCHANGED <<disk, mem, agy, owner, finishes, withdrawn>>
      /\ watched' = watched /\ Return(t)
  BY DEF CloseServer
<1>3. ASSUME t \in Jobs, NEW b \in Bridges, t \in watched[b]
      PROVE  FALSE
  <2>1. thread[t].job = t /\ ~Aborted(t)
    BY <1>1, <1>3, Busy, WatchersJob DEF Inv
  <2>2. disk[t] # Absent
    BY <1>1, <2>1, PublicJob DEF StartPhases
  <2> QED
    BY <1>1, <1>3, <2>1, <2>2, WatchedFacts DEF WatchingPhases
<1> QED
  BY <1>1, <1>2, <1>3, ReturnSafe DEF StartPhases

\* The first of the two locks.
LEMMA TakeFirstSafe ==
  ASSUME Inv, Typed', NEW t \in Threads, TakeFirst(t)
  PROVE  Inv'
<1> PICK pc : /\ pc = IF thread[t].pc = "finalize" THEN "finalizing" ELSE "cancelling"
              /\ thread[t].pc = "finalize" \/ (thread[t].pc = "cancel" /\ pc = "cancelling")
  BY DEF TakeFirst
<1> DEFINE th == Phase(t, pc)
<1>1. th \in ThreadStates /\ th.pc = pc /\ th.job = thread[t].job /\ th.rc = thread[t].rc
  BY Busy, PhaseTyped DEF Inv, Phases, TakeFirst
<1>2. thread' = [thread EXCEPT ![t] = th]
  BY DEF TakeFirst
<1> HIDE DEF th
<1>3. /\ UNCHANGED <<disk, mem, agy, owner, finishes, withdrawn>>
      /\ watched' = watched /\ FlockFree(thread[t].job)
  BY LockPhases DEF TakeFirst
<1>4. JobStep(t, th) /\ AgyKeeps
  BY <1>1, <1>2, <1>3 DEF JobStep, AgyKeeps, StartPhases
<1>5. CASE Aborted(thread[t].job)
  <2>1. thread[t].pc = "cancel" /\ pc = "cancelling"
    BY <1>5, WatchersJob
  <2>2. AbortedStep(t, th) /\ MemoryStep(t)
    BY <1>1, <1>3, <1>4, <2>1 DEF AbortedStep, MemoryStep
  <2> QED
    BY <1>1, <1>3, <1>4, <1>5, <2>1, <2>2, StandingJob, AbortedSafe DEF StartPhases
<1>6. CASE ~Aborted(thread[t].job)
  <2>1. t \in Jobs => thread[t].pc = "finalize" /\ pc = "finalizing" /\ thread[t].job = t
    BY Busy DEF TakeFirst, Inv, CallerPhases
  <2>2. ASSUME t \in Jobs, th.rc = "nonzero", owner[t] \in Bridges, t \in watched[owner[t]], ~EndedOnDisk(t)
        PROVE  \A a \in Attempts : agy'[t][a] # "running"
    <3>1. LiveOK(t)
      BY <2>2 DEF Inv, JobsInv, JobOK
    <3> QED
      BY <1>1, <1>3, <2>1, <2>2, <3>1 DEF LiveOK
  <2>3. pc \in {"finalizing", "cancelling"}
    OBVIOUS
  <2> QED
    BY <1>1, <1>3, <1>4, <1>6, <2>1, <2>2, <2>3, MoveSafe DEF WatchingPhases
<1> QED
  BY <1>5, <1>6

\* The retry starts the process of a fresh attempt a.
LEMMA RetryEffect ==
  ASSUME Inv, NEW t \in Threads, FinalizeRetries(t)
  PROVE  /\ t \in Jobs /\ thread[t].pc = "finalizing" /\ thread[t].job = t /\ ~Aborted(t)
         /\ BridgeOf(t) = owner[t] /\ owner[t] \in Bridges
         /\ CanLock(t) /\ ~EndedOnDisk(t)
         /\ Known(owner[t], t) = mem[owner[t]][t] /\ mem[owner[t]][t].state = "running"
         /\ mem[owner[t]][t].attempts \in 0..MaxAttempts
         /\ mem[owner[t]][t].attempts + 1 \in Attempts
         /\ \A i \in Attempts : i > mem[owner[t]][t].attempts => agy[t][i] = "none"
         /\ \A i \in Attempts : agy[t][i] # "running"
<1>1. Finalizing(t) /\ MayRetry(t) /\ thread[t].pc = "finalizing"
  BY DEF FinalizeRetries, Finalizing
<1>2. /\ t \in Jobs /\ thread[t].job = t /\ BridgeOf(t) = owner[t] /\ owner[t] \in Bridges
      /\ Known(owner[t], t).attempts + 1 \in Attempts
  BY <1>1, RetryFacts DEF Inv
<1>3. ~EndedOnDisk(t) /\ CanLock(t) /\ Known(owner[t], t).state = "running"
      /\ t \in watched[owner[t]]
  BY <1>1, <1>2 DEF Finalizing, MayRetry
<1>4. mem[owner[t]][t] # Absent
      /\ \A i \in Attempts : i > mem[owner[t]][t].attempts => agy[t][i] = "none"
  <2>1. FreshOK(t)
    BY <1>2 DEF Inv, JobsInv, JobOK
  <2> QED
    BY <1>1, <1>3, <2>1 DEF FreshOK
<1>6. \A i \in Attempts : agy[t][i] # "running"
  <2>1. LiveOK(t)
    BY <1>2 DEF Inv, JobsInv, JobOK
  <2> QED
    BY <1>1, <1>2, <1>3, <2>1 DEF LiveOK, MayRetry
<1>5. Known(owner[t], t) = mem[owner[t]][t] /\ mem[owner[t]][t].attempts \in 0..MaxAttempts
  BY <1>2, <1>4, Stored, RecordFields DEF Known, Inv
<1>7. ~Aborted(t)
  BY <1>1, <1>2, WatchersJob
<1> QED
  BY <1>1, <1>2, <1>3, <1>4, <1>5, <1>6, <1>7

\* What it writes.
LEMMA RetryWrites ==
  ASSUME Inv, NEW t \in Threads, FinalizeRetries(t), NEW b \in Bridges, b = owner[t],
         NEW a \in Attempts, a = mem[b][t].attempts + 1
  PROVE  /\ mem'[b][t].state = "running" /\ mem'[b][t].attempts = a /\ mem'[b][t].pid = a
         /\ \A d \in Bridges, k \in Jobs : d # b \/ k # t => mem'[d][k] = mem[d][k]
         /\ agy' = [agy EXCEPT ![t] = [@ EXCEPT ![a] = "running"]]
         /\ thread' = [thread EXCEPT ![t] = Phase(t, "respawned")]
         /\ UNCHANGED <<disk, watched, servers, owner, up, finishes, crashes, withdrawn>>
<1> DEFINE rec == [state |-> "running", attempts |-> a, pid |-> a]
<1>1. t \in Jobs /\ thread[t].job = t /\ BridgeOf(t) = b /\ Known(b, t) = mem[b][t]
  BY RetryEffect
<1>2. /\ mem' = [mem EXCEPT ![b] = [@ EXCEPT ![t] = rec]]
      /\ agy' = [agy EXCEPT ![t] = [@ EXCEPT ![a] = "running"]]
      /\ thread' = [thread EXCEPT ![t] = Phase(t, "respawned")]
      /\ UNCHANGED <<disk, watched, servers, owner, up, finishes, crashes, withdrawn>>
  BY <1>1 DEF FinalizeRetries
<1>3. rec.state = "running" /\ rec.attempts = a /\ rec.pid = a
  OBVIOUS
<1> HIDE DEF rec
<1>4. /\ mem'[b][t] = rec
      /\ \A d \in Bridges, k \in Jobs : d # b \/ k # t => mem'[d][k] = mem[d][k]
  BY <1>1, <1>2 DEF Inv, Typed, TypeOK
<1> QED
  BY <1>2, <1>3, <1>4

LEMMA RetrySpawns ==
  ASSUME Inv, NEW t \in Threads, FinalizeRetries(t), NEW b \in Bridges, b = owner[t],
         NEW a \in Attempts, a = mem[b][t].attempts + 1
  PROVE  \A k \in Jobs, i \in Attempts :
            agy'[k][i] = IF k = t /\ i = a THEN "running" ELSE agy[k][i]
<1>1. t \in Jobs /\ agy' = [agy EXCEPT ![t] = [@ EXCEPT ![a] = "running"]]
  BY RetryEffect, RetryWrites
<1> QED
  BY <1>1 DEF Inv, Typed, TypeOK

LEMMA FinalizeRetriesSafe ==
  ASSUME Inv, Typed', NEW t \in Threads, FinalizeRetries(t)
  PROVE  Inv'
<1> PICK b \in Bridges, a \in Attempts : b = owner[t] /\ a = mem[b][t].attempts + 1
  BY RetryEffect
<1> DEFINE th == Phase(t, "respawned")
<1>1. /\ t \in Jobs /\ thread[t].pc = "finalizing" /\ thread[t].job = t /\ BridgeOf(t) = b
      /\ CanLock(t) /\ ~EndedOnDisk(t) /\ ~Aborted(t)
      /\ \A i \in Attempts : i > a => agy[t][i] = "none"
      /\ \A i \in Attempts : agy[t][i] # "running"
  BY RetryEffect DEF Attempts
<1>2. th \in ThreadStates /\ th.pc = "respawned" /\ th.job = t
  BY <1>1, Busy, PhaseTyped DEF Inv, Phases
<1> HIDE DEF th
<1>3. /\ mem'[b][t].state = "running" /\ mem'[b][t].attempts = a /\ mem'[b][t].pid = a
      /\ \A d \in Bridges, k \in Jobs : d # b \/ k # t => mem'[d][k] = mem[d][k]
      /\ thread' = [thread EXCEPT ![t] = th]
      /\ UNCHANGED <<disk, watched, servers, owner, up, finishes, crashes, withdrawn>>
  BY RetryWrites DEF th
<1>4. \A k \in Jobs, i \in Attempts :
         agy'[k][i] = IF k = t /\ i = a THEN "running" ELSE agy[k][i]
  BY RetrySpawns
<1>5. JobStep(t, th)
  BY <1>1, <1>4, <1>2, <1>3 DEF JobStep, StartPhases
<1>6. disk[t] # Absent /\ disk[t].state # "absent"
  BY <1>1, PublicJob DEF StartPhases
<1>7. thread'[t] = th /\ BridgeOf(t)' = b
  BY <1>1, <1>5, StepThreads
<1>8. PhaseOK(t)'
  BY <1>1, <1>2, <1>3, <1>6, <1>7 DEF PhaseOK, EndedOnDisk
<1>9. FreshOK(t)'
  <2>1. \A i \in Attempts : i > a => agy'[t][i] = "none"
    BY <1>1, <1>4 DEF Attempts
  <2>2. owner'[t] = b
    BY <1>3
  <2> QED
    BY <1>3, <2>1, <2>2, AbsentState DEF FreshOK
<1>10. AgyGrows
  BY <1>4 DEF AgyGrows
<1>11. \A i \in Attempts : agy'[t][i] = "running" => i = a
  BY <1>1, <1>4
<1>12. LiveOK(t)'
  <2>1. owner'[t] = b /\ mem'[b][t].pid = a
    BY <1>3
  <2>2. thread'[t].pc \notin {"waiting", "readout", "finalize", "finalizing"}
    BY <1>2, <1>7
  <2> QED
    BY <1>11, <2>1, <2>2 DEF LiveOK
<1>13. EndedOnDisk(t)' = EndedOnDisk(t)
  BY <1>3 DEF EndedOnDisk
<1>14. WatchOK(t)'
  <2>1. \A d \in Bridges : mem'[d][t] = mem[d][t] \/ mem'[d][t].state = "running"
    BY <1>1, <1>3
  <2> QED
    BY <1>1, <1>2, <1>5, <1>13, <2>1, StepWatch DEF WatchingPhases
<1>15. Locked(t)
  BY <1>1, LockPhases DEF Locked, StartPhases, FlockPhases
<1> QED
  BY <1>1, <1>2, <1>3, <1>5, <1>6, <1>8, <1>9, <1>10, <1>12, <1>13, <1>14, <1>15, LockedSafe DEF JobOK

LEMMA RetryPersistSafe ==
  ASSUME Inv, Typed', NEW t \in Threads, RetryPersist(t)
  PROVE  Inv'
<1>1. thread[t].pc = "respawned"
  BY DEF RetryPersist
<1>2. /\ t \in Jobs /\ thread[t].job = t /\ BridgeOf(t) = owner[t] /\ owner[t] \in Bridges
      /\ ~Aborted(t) /\ Locked(t)
  <2>1. t \in Jobs /\ thread[t].job = t /\ BridgeOf(t) = owner[t] /\ owner[t] \in Bridges
    BY <1>1, Busy DEF Inv, Threads, BridgeOf, WatcherPhases
  <2>2. Locked(t)
    BY <1>1, LockPhases DEF Locked, StartPhases, FlockPhases
  <2> QED
    BY <1>1, <2>1, <2>2, WatchersJob
<1> PICK b \in Bridges : b = owner[t]
  BY <1>2
<1> DEFINE th == Watcher(t, mem[b][t].pid)
<1>3. PhaseOK(t) /\ FreshOK(t) /\ LiveOK(t)
  BY <1>2 DEF Inv, PhaseInv, JobsInv, JobOK
<1>4. ~EndedOnDisk(t) /\ mem[b][t].state = "running" /\ disk'[t] = mem[b][t]
  BY <1>1, <1>2, <1>3 DEF PhaseOK, RetryPersist, Inv, Typed, TypeOK
<1>5. th \in ThreadStates /\ th.pc = "waiting" /\ th.job = t /\ th.pid = mem[b][t].pid
  <2>1. mem[b][t].pid \in 0..MaxAttempts
    BY <1>2, Stored, RecordFields DEF Inv
  <2> QED
    BY <1>2, <2>1, ThreadTyped DEF Watcher, Phases, Operations
<1> HIDE DEF th
<1>6. JobStep(t, th)
  <2>1. \A k \in Jobs : k # t => disk'[k] = disk[k]
    BY <1>2 DEF RetryPersist, Inv, Typed, TypeOK
  <2>2. thread' = [thread EXCEPT ![t] = th]
    BY <1>2 DEF RetryPersist, th
  <2> QED
    BY <1>1, <1>2, <1>5, <2>1, <2>2 DEF RetryPersist, JobStep, StartPhases
<1>7. thread'[t] = th /\ BridgeOf(t)' = b
  BY <1>1, <1>2, <1>6, StepThreads
<1>8. disk'[t] # Absent /\ ~EndedOnDisk(t) /\ disk'[t].state # "absent"
  BY <1>4, AbsentState
<1>9. PhaseOK(t)'
  BY <1>5, <1>7, <1>8 DEF PhaseOK
<1>10. FreshOK(t)'
  <2>1. mem' = mem /\ agy' = agy /\ watched' = watched /\ owner' = owner
    BY DEF RetryPersist
  <2> QED
    BY <1>1, <1>3, <1>8, <2>1 DEF FreshOK
<1>11. AgyGrows /\ finishes' = finishes /\ mem' = mem /\ agy' = agy /\ watched' = watched
  BY DEF RetryPersist, AgyGrows
<1>12. LiveOK(t)'
  BY <1>1, <1>2, <1>5, <1>6, <1>8, <1>11, StepLive
<1>13. WatchOK(t)'
  BY <1>1, <1>2, <1>5, <1>6, <1>8, <1>11, StepWatch DEF WatchingPhases
<1> QED
  BY <1>1, <1>2, <1>4, <1>5, <1>6, <1>8, <1>9, <1>10, <1>11, <1>12, <1>13, LockedSafe DEF JobOK

LEMMA PublishEffect ==
  ASSUME Inv, NEW t \in Threads, Publish(t), NEW j \in Jobs, j = thread[t].job,
         NEW b \in Bridges, b = BridgeOf(t)
  PROVE  /\ mem[b][j].state \in Terminal /\ disk'[j] = mem[b][j]
         /\ \A k \in Jobs : k # j => disk'[k] = disk[k]
<1>1. PhaseOK(t)
  BY DEF Inv, PhaseInv
<1> QED
  BY <1>1 DEF PhaseOK, Publish, Inv, Typed, TypeOK

LEMMA PublishSafe ==
  ASSUME Inv, Typed', NEW t \in Threads, Publish(t)
  PROVE  Inv'
<1>1. thread[t].pc = "publish" /\ Concluding(t) /\ thread[t].pc \notin StartPhases
  BY DEF Publish, Concluding, StartPhases
<1> PICK j \in Jobs, b \in Bridges : j = thread[t].job /\ b = BridgeOf(t)
  BY <1>1, StandingJob
<1> DEFINE th == Phase(t, AfterPublish(t))
<1>2. /\ mem[b][j].state \in Terminal /\ disk'[j] = mem[b][j]
      /\ \A k \in Jobs : k # j => disk'[k] = disk[k]
  BY PublishEffect
<1>3. th \in ThreadStates /\ th.pc \in {"signal", "notify"} /\ th.job = j
  BY <1>1, Busy, PhaseTyped DEF Inv, Phases, AfterPublish
<1> HIDE DEF th
<1>4. thread' = [thread EXCEPT ![t] = th]
  BY DEF Publish, th
<1>5. JobStep(t, th)
  BY <1>1, <1>2, <1>3, <1>4 DEF JobStep, Publish, StartPhases
<1>6. thread'[t] = th
  BY <1>5, StepThreads
<1>7. EndedOnDisk(j)' /\ disk'[j].state # "absent"
  BY <1>2 DEF EndedOnDisk, Terminal
<1>8. /\ mem' = mem /\ watched' = watched /\ agy' = agy /\ finishes' = finishes
      /\ AgyGrows /\ AgyKeeps
  BY DEF Publish, AgyGrows, AgyKeeps
<1>9. CASE Aborted(j)
  <2>1. AbortedStep(t, th)
    BY <1>1, <1>2, <1>3, <1>8 DEF AbortedStep
  <2>2. MemoryStep(t)
    BY <1>8 DEF MemoryStep
  <2> QED
    BY <1>1, <1>3, <1>5, <1>7, <1>8, <1>9, <2>1, <2>2, AbortedSafe DEF FlockPhases
<1>10. CASE ~Aborted(j)
  <2>1. PhaseOK(t)'
    BY <1>3, <1>6, <1>7, AbsentState DEF PhaseOK
  <2>2. FreshOK(j)'
    BY <1>7 DEF FreshOK
  <2>3. LiveOK(j)'
    BY <1>3, <1>5, <1>7, <1>8, StepLive
  <2>4. WatchOK(j)'
    <3>1. t = j => \A d \in Bridges : j \notin watched[d]
      BY <1>1, <1>10, PublicJob, WatchedFacts DEF BridgeOf, WatchingPhases
    <3> QED
      BY <1>1, <1>5, <1>7, <1>8, <1>10, <3>1, StepWatch
  <2>5. Locked(t)
    BY <1>1, LockPhases DEF Locked, FlockPhases
  <2> QED
    BY <1>1, <1>3, <1>5, <1>7, <1>8, <1>10, <2>1, <2>2, <2>3, <2>4, <2>5, LockedSafe DEF JobOK
<1> QED
  BY <1>9, <1>10

LEMMA NotifyEffect ==
  ASSUME Inv, NEW t \in Threads, Notify(t), NEW j \in Jobs, j = thread[t].job
  PROVE  /\ finishes'[j] = finishes[j] + 1 /\ finishes[j] = 0 /\ Over(j)
         /\ \A k \in Jobs : k # j => finishes'[k] = finishes[k]
  BY DEF Notify, Inv, Typed, TypeOK, ReportInv, Concluding

LEMMA NotifySafe ==
  ASSUME Inv, Typed', NEW t \in Threads, Notify(t)
  PROVE  Inv'
<1>1. thread[t].pc = "notify" /\ thread[t].pc \notin StartPhases /\ Concluding(t)
  BY DEF Notify, StartPhases, Concluding
<1> PICK j \in Jobs : j = thread[t].job
  BY <1>1, StandingJob
<1>2. /\ finishes'[j] = finishes[j] + 1 /\ finishes[j] = 0 /\ Over(j)
      /\ \A k \in Jobs : k # j => finishes'[k] = finishes[k]
  BY NotifyEffect
<1>3. JobStep(t, Idle) /\ Idle.pc = "idle"
  BY <1>1, <1>2, IdleTyped DEF JobStep, Notify, Return
<1>4. \A u \in Threads : thread'[u] = IF u = t THEN Idle ELSE thread[u]
  BY <1>3, StepThreads
<1>5. UNCHANGED <<disk, mem, watched, owner, agy, withdrawn>> /\ AgyGrows /\ AgyKeeps
  BY DEF Notify, AgyGrows, AgyKeeps
<1>6. MemoryStep(t)
  BY <1>5 DEF MemoryStep
<1>7. LocksInv' /\ PublicInv' /\ StarterInv' /\ MemoryInv'
  BY <1>3, <1>5, <1>6, StepLocks, StepPublic, StepStarters, StepMemory DEF FlockPhases
<1>8. PhaseInv'
  <2>1. PhaseOK(t)'
    BY <1>3, <1>4 DEF PhaseOK
  <2>2. \A u \in Threads : thread[u].job = j /\ thread[u].pc = "respawned" => ~EndedOnDisk(j)'
    BY <1>5 DEF Inv, PhaseInv, PhaseOK, EndedOnDisk
  <2> QED
    BY <1>3, <1>5, <1>6, <2>1, <2>2, StepPhases
<1>9. ReportInv'
  <2>1. \A k \in Jobs : Over(k)' = Over(k)
    BY <1>5 DEF EndedOnDisk, Over
  <2>2. \A u \in Threads : Concluding(u)' =>
           /\ Concluding(u) /\ thread'[u] = thread[u]
           /\ thread[u].job \in Jobs /\ thread[u].job # j
    <3> SUFFICES ASSUME NEW u \in Threads, Concluding(u)'
                 PROVE  /\ Concluding(u) /\ thread'[u] = thread[u]
                        /\ thread[u].job \in Jobs /\ thread[u].job # j
      OBVIOUS
    <3>1. u # t /\ thread'[u] = thread[u] /\ Concluding(u)
      BY <1>3, <1>4 DEF Concluding
    <3>2. thread[u].job \in Jobs
      BY <3>1, StandingJob DEF Concluding, StartPhases
    <3> QED
      BY <1>1, <3>1, <3>2 DEF Inv, ReportInv
  <2>3. \A u, v \in Threads : Concluding(u)' /\ Concluding(v)' /\ thread'[u].job = thread'[v].job => u = v
    BY <2>2 DEF Inv, ReportInv
  <2>4. \A u \in Threads : Concluding(u)' =>
           /\ finishes'[thread'[u].job] = 0
           /\ thread'[u].pc # "publish" => Over(thread[u].job)' /\ thread'[u].job = thread[u].job
    <3> SUFFICES ASSUME NEW u \in Threads, Concluding(u)'
                 PROVE  /\ finishes'[thread'[u].job] = 0 /\ thread'[u].job = thread[u].job
                        /\ thread'[u].pc # "publish" => Over(thread[u].job)'
      OBVIOUS
    <3>1. /\ Concluding(u) /\ thread'[u] = thread[u]
          /\ thread[u].job \in Jobs /\ thread[u].job # j
      BY <2>2
    <3> QED
      BY <1>2, <1>5, <3>1 DEF Inv, ReportInv, Over, EndedOnDisk
  <2>5. \A k \in Jobs : finishes'[k] > 0 => Over(k)' /\ finishes'[k] = 1
    BY <1>2, <2>1 DEF Inv, ReportInv
  <2> QED
    BY <2>3, <2>4, <2>5 DEF ReportInv, Over, EndedOnDisk
<1>10. Aborted(j) => AbortedStep(t, Idle)
  BY <1>1, <1>3, <1>5 DEF AbortedStep
<1>11. AbortInv'
  BY <1>3, <1>10, StepAborts
<1>12. JobOK(j)'
  <2>1. CASE Aborted(j)
    BY <1>3, <1>10, <2>1, AbortedJobOK
  <2>2. CASE ~Aborted(j)
    <3>1. EndedOnDisk(j) /\ EndedOnDisk(j)'
      BY <1>2, <1>5, <2>2 DEF EndedOnDisk, Over, Aborted
    <3>2. FreshOK(j)'
      BY <3>1 DEF FreshOK
    <3>3. LiveOK(j)'
      BY <1>3, <1>5, <3>1, StepLive
    <3>4. t = j => \A d \in Bridges : j \notin watched[d]
      BY <1>1, <2>2, PublicJob, WatchedFacts DEF BridgeOf, WatchingPhases
    <3>5. WatchOK(j)'
      BY <1>3, <1>5, <2>2, <3>1, <3>4, StepWatch
    <3> QED
      BY <3>2, <3>3, <3>5 DEF JobOK
  <2> QED
    BY <2>1, <2>2
<1>13. JobsInv'
  BY <1>3, <1>12, StepJobs
<1> QED
  BY <1>7, <1>8, <1>9, <1>11, <1>13 DEF Inv

----------------------------------------------------------------------------
\* A process of job j that exists changes its state, for one in which it does not run.
LEMMA AgyMoves ==
  ASSUME Inv, NEW j \in Jobs, NEW a, agy[j][a] # "none",
         NEW s \in {"succeeded", "failed", "gone"},
         agy' = [agy EXCEPT ![j] = [@ EXCEPT ![a] = s]]
  PROVE  /\ AgyKeeps /\ AgyGrows /\ (a \in Attempts => agy'[j][a] = s)
         /\ \A k \in Jobs, i \in Attempts : k # j => agy'[k][i] = agy[k][i]
  BY DEF Inv, Typed, TypeOK, AgyKeeps, AgyGrows, AgyStates

LEMMA WatchEffect ==
  ASSUME Inv, NEW t \in Jobs, WatchStep(t)
  PROVE  /\ UNCHANGED <<disk, mem, watched, owner, finishes, withdrawn>>
         /\ AgyKeeps /\ \A k \in Jobs, i \in Attempts : k # t => agy'[k][i] = agy[k][i]
         /\ \A a \in Attempts : a = thread[t].pid => agy'[t][a] # "running"
<1> DEFINE a == thread[t].pid
<1>1. /\ agy' = [agy EXCEPT ![t] = [@ EXCEPT ![a] = "gone"]] /\ agy[t][a] # "none"
      /\ UNCHANGED <<disk, mem, watched, owner, finishes, withdrawn>>
  BY DEF WatchStep, WatchReap, WatchTimeout
<1> HIDE DEF a
<1>2. /\ AgyKeeps /\ (a \in Attempts => agy'[t][a] = "gone")
      /\ \A k \in Jobs, i \in Attempts : k # t => agy'[k][i] = agy[k][i]
  BY <1>1, AgyMoves
<1> QED
  BY <1>1, <1>2 DEF a

LEMMA WatchSafe ==
  ASSUME Inv, Typed', NEW t \in Jobs, WatchStep(t)
  PROVE  Inv'
<1> DEFINE a == thread[t].pid
<1>1. /\ thread[t].pc = "waiting" /\ t \in Threads /\ thread[t].job = t
      /\ thread[t] \in ThreadStates /\ ~Aborted(t)
  <2>1. /\ thread[t].pc = "waiting" /\ t \in Threads /\ thread[t].job = t
        /\ thread[t] \in ThreadStates
    BY Busy DEF WatchStep, WatchReap, WatchTimeout, Threads, Inv
  <2> QED
    BY <2>1, WatchersJob
<1>2. /\ UNCHANGED <<disk, mem, watched, owner, finishes, withdrawn>>
      /\ AgyKeeps /\ \A k \in Jobs, i \in Attempts : k # t => agy'[k][i] = agy[k][i]
      /\ \A i \in Attempts : i = a => agy'[t][i] # "running"
  BY WatchEffect
<1>3. PICK rc \in {"zero", "nonzero", "timeout"} : thread' = [thread EXCEPT ![t] = Reaped(t, rc)]
  <2>1. CASE WatchReap(t) /\ agy[t][a] = "succeeded"
    BY <2>1 DEF WatchReap
  <2>2. CASE WatchReap(t) /\ agy[t][a] # "succeeded"
    BY <2>2 DEF WatchReap
  <2>3. CASE WatchTimeout(t)
    BY <2>3 DEF WatchTimeout
  <2> QED
    BY <2>1, <2>2, <2>3 DEF WatchStep
<1>4. Reaped(t, rc).pc = "readout" /\ Reaped(t, rc).job = t /\ Reaped(t, rc) \in ThreadStates
  BY <1>1, ThreadFields DEF Reaped, ThreadStates, Phases, Operations, Outputs
<1>5. JobStep(t, Reaped(t, rc))
  BY <1>1, <1>2, <1>3, <1>4 DEF JobStep, StartPhases
<1>6. owner[t] \in Bridges /\ t \in watched[owner[t]] /\ ~EndedOnDisk(t)
        => \A i \in Attempts : agy'[t][i] # "running"
  <2>1. LiveOK(t)
    BY DEF Inv, JobsInv, JobOK
  <2>2. owner[t] \in Bridges /\ t \in watched[owner[t]] /\ ~EndedOnDisk(t)
          => \A i \in Attempts : agy[t][i] = "running" => i = a
    BY <1>1, <2>1 DEF LiveOK
  <2> QED
    BY <1>2, <2>2 DEF AgyKeeps
<1> HIDE DEF a
<1> QED
  BY <1>1, <1>2, <1>4, <1>5, <1>6, MoveSafe DEF WatchingPhases, FlockPhases

LEMMA ReadOutputSafe ==
  ASSUME Inv, Typed', NEW t \in Threads, ReadOutput(t)
  PROVE  Inv'
<1> DEFINE th == [pc |-> "finalize", op |-> thread[t].op, job |-> thread[t].job,
                  pid |-> thread[t].pid, rc |-> thread[t].rc, out |-> stdout[thread[t].job]]
<1>1. thread[t].pc = "readout"
  BY DEF ReadOutput
<1>2. thread[t].job \in Jobs /\ thread[t] \in ThreadStates /\ ~Aborted(thread[t].job)
  BY <1>1, Busy, WatchersJob DEF Inv
<1>3. thread' = [thread EXCEPT ![t] = th]
  BY DEF ReadOutput, Inv, Typed, TypeOK
<1>4. /\ th \in ThreadStates /\ th.pc = "finalize" /\ th.job = thread[t].job
      /\ th.rc = thread[t].rc
  <2>1. stdout[thread[t].job] \in Outputs
    BY <1>2 DEF Inv, Typed, TypeOK
  <2> QED
    BY <1>2, <2>1, ThreadFields DEF ThreadStates, Phases
<1> HIDE DEF th
<1>5. JobStep(t, th) /\ AgyKeeps
  BY <1>3, <1>4 DEF JobStep, ReadOutput, AgyKeeps, StartPhases
<1>6. t \in Jobs => (/\ th.rc = "nonzero" /\ owner[t] \in Bridges
                     /\ t \in watched[owner[t]] /\ ~EndedOnDisk(t)
                     => \A i \in Attempts : agy'[t][i] # "running")
  <2> SUFFICES ASSUME t \in Jobs
               PROVE  /\ th.rc = "nonzero" /\ owner[t] \in Bridges
                      /\ t \in watched[owner[t]] /\ ~EndedOnDisk(t)
                      => \A i \in Attempts : agy'[t][i] # "running"
    OBVIOUS
  <2>1. LiveOK(t) /\ agy' = agy
    BY DEF Inv, JobsInv, JobOK, ReadOutput
  <2> QED
    BY <1>1, <1>4, <2>1 DEF LiveOK
<1>7. UNCHANGED <<disk, mem, watched, finishes>>
  BY DEF ReadOutput
<1> QED
  BY <1>1, <1>2, <1>4, <1>5, <1>6, <1>7, MoveSafe DEF WatchingPhases, FlockPhases

LEMMA ProbeSafe ==
  ASSUME Inv, Typed', NEW c \in Callers, Probe(c)
  PROVE  Inv'
<1> DEFINE j == thread[c].job
<1>1. c \in Threads /\ c \notin Jobs /\ thread[c].pc = "probe"
  BY RegistryAssumption DEF Probe, Threads
<1>2. /\ j \in Jobs /\ thread[c] \in ThreadStates /\ thread[c].op \in Operations
      /\ ~Aborted(j)
  BY <1>1, Busy, ThreadFields, WatchersJob DEF Inv
<1>3. PICK th \in {Phase(c, "readout"), Thread("cancel", thread[c].op, j, 0), Idle} :
         thread' = [thread EXCEPT ![c] = th]
  BY DEF Probe, Proceed
<1>4. /\ th \in ThreadStates /\ th.pc \in {"readout", "cancel", "idle"}
      /\ th.pc # "idle" => th.job = j
  <2>1. CASE th = Phase(c, "readout")
    BY <1>2, <2>1, PhaseTyped DEF Phases
  <2>2. CASE th = Thread("cancel", thread[c].op, j, 0)
    BY <1>2, <2>2, ThreadTyped, RegistryAssumption DEF Phases
  <2>3. CASE th = Idle
    BY <2>3, IdleTyped
  <2> QED
    BY <1>3, <2>1, <2>2, <2>3
<1>5. JobStep(c, th) /\ AgyKeeps
  BY <1>1, <1>3, <1>4 DEF JobStep, Probe, AgyKeeps, StartPhases
<1>6. UNCHANGED <<disk, mem, finishes>>
  BY DEF Probe
<1> QED
  BY <1>1, <1>2, <1>4, <1>5, <1>6, MoveSafe DEF FlockPhases

LEMMA SignalEffect ==
  ASSUME Inv, NEW t \in Threads, Signal(t), NEW j \in Jobs, j = thread[t].job
  PROVE  /\ AgyKeeps /\ \A k \in Jobs, i \in Attempts : k # j => agy'[k][i] = agy[k][i]
         /\ \A i \in Attempts : i = thread[t].pid => agy'[j][i] # "running"
<1> PICK a : a = thread[t].pid
  OBVIOUS
<1>1. CASE agy[j][a] = "running"
  <2>1. PICK s : s = Corpse(j, "failed")
    OBVIOUS
  <2>2. agy' = [agy EXCEPT ![j] = [@ EXCEPT ![a] = s]]
    BY <1>1, <2>1 DEF Signal
  <2>3. s \in {"succeeded", "failed", "gone"}
    BY <2>1 DEF Corpse
  <2>5. agy[j][a] # "none"
    BY <1>1
  <2>4. /\ AgyKeeps /\ (a \in Attempts => agy'[j][a] = s)
        /\ \A k \in Jobs, i \in Attempts : k # j => agy'[k][i] = agy[k][i]
    BY <2>2, <2>3, <2>5, AgyMoves
  <2> QED
    BY <2>3, <2>4
<1>2. CASE agy[j][a] # "running"
  BY <1>2 DEF Signal, AgyKeeps
<1> QED
  BY <1>1, <1>2

LEMMA SignalSafe ==
  ASSUME Inv, Typed', NEW t \in Threads, Signal(t)
  PROVE  Inv'
<1>1. thread[t].pc = "signal"
  BY DEF Signal
<1>2. thread[t].job \in Jobs /\ thread[t] \in ThreadStates
  BY <1>1, Busy DEF Inv
<1> PICK j \in Jobs : j = thread[t].job
  BY <1>2
<1>3. AgyKeeps /\ \A k \in Jobs, i \in Attempts : k # j => agy'[k][i] = agy[k][i]
  BY SignalEffect
<1>4. /\ Phase(t, "notify") \in ThreadStates /\ Phase(t, "notify").pc = "notify"
      /\ Phase(t, "notify").job = j
  BY <1>2, PhaseTyped DEF Phases
<1>5. JobStep(t, Phase(t, "notify"))
  BY <1>1, <1>3, <1>4 DEF JobStep, Signal, StartPhases
<1>6. UNCHANGED <<disk, mem, finishes, watched>> /\ Concluding(t)
  BY <1>1 DEF Signal, Concluding
<1>7. CASE Aborted(j)
  <2>1. AbortedStep(t, Phase(t, "notify")) /\ MemoryStep(t)
    BY <1>3, <1>4, <1>6 DEF AbortedStep, MemoryStep
  <2>2. EndedOnDisk(j)' \/ j \in withdrawn
    BY <1>1, <1>6 DEF Inv, ReportInv, Over, EndedOnDisk
  <2> QED
    BY <1>4, <1>5, <1>6, <1>7, <2>1, <2>2, AbortedSafe DEF FlockPhases
<1>8. CASE ~Aborted(j)
  <2>1. t \in Jobs => \A b \in Bridges : t \notin watched[b]
    <3>1. t \in Jobs => t = j
      BY <1>1, Busy DEF Inv
    <3>2. disk[j] # Absent
      BY <1>1, <1>8, PublicJob DEF StartPhases
    <3> QED
      BY <1>1, <1>8, <3>1, <3>2, WatchedFacts DEF WatchingPhases
  <2> QED
    BY <1>1, <1>3, <1>4, <1>5, <1>6, <1>8, <2>1, MoveSafe DEF FlockPhases
<1> QED
  BY <1>7, <1>8

----------------------------------------------------------------------------
\* Steps of the environment, and of callers that begin a call or end start().

LEMMA ProcessEffect ==
  ASSUME Inv, ProcessExits
  PROVE  AgyKeeps /\ UNCHANGED <<disk, mem, watched, owner, thread, finishes, withdrawn>>
<1>1. PICK j \in Jobs, a \in Attempts, how \in {"succeeded", "failed"}, out \in Outputs :
         AgyExits(j, a, how, out)
  BY DEF ProcessExits
<1>2. Corpse(j, how) \in {"succeeded", "failed", "gone"}
  BY DEF Corpse
<1> QED
  BY <1>1, <1>2, AgyMoves DEF AgyExits

\* Processes die, and nobody notices.
LEMMA UnnoticedSafe ==
  ASSUME Inv, Typed', AgyKeeps,
         UNCHANGED <<disk, mem, watched, owner, thread, finishes, withdrawn>>
  PROVE  Inv'
<1>1. 1 \in Attempts
  BY RegistryAssumption DEF Attempts
<1>2. \A c : /\ Starting(c)' <=> Starting(c)
             /\ Withdrawing(c)' <=> Withdrawing(c)
             /\ Starter(c)' <=> Starter(c)
  BY DEF Starting, Withdrawing, Starter
<1>3. \A k : /\ Aborted(k)' <=> Aborted(k)
             /\ EndedOnDisk(k)' <=> EndedOnDisk(k)
             /\ Over(k)' <=> Over(k)
  BY DEF Aborted, Withdrawing, EndedOnDisk, Over
<1>4. \A t : /\ BridgeOf(t)' = BridgeOf(t)
             /\ HoldsFlock(t)' <=> HoldsFlock(t)
             /\ HoldsMutex(t)' <=> HoldsMutex(t)
             /\ Concluding(t)' <=> Concluding(t)
  BY LockPhases DEF BridgeOf, Concluding
<1>5. LocksInv'
  BY <1>4 DEF Inv, LocksInv
<1>7. MemoryInv'
  BY <1>2 DEF Inv, MemoryInv, Starter
<1>8. ReportInv'
  <2>1. \A t \in Threads : Concluding(t) =>
           /\ finishes'[thread'[t].job] = 0
           /\ thread'[t].pc # "publish" => Over(thread[t].job)' /\ thread'[t].job = thread[t].job
    BY DEF Inv, ReportInv, Over, EndedOnDisk
  <2> QED
    BY <1>3, <1>4, <2>1 DEF Inv, ReportInv, Over, EndedOnDisk
<1>9. PublicInv'
  BY <1>1 DEF Inv, PublicInv, AgyKeeps
<1>10. PhaseInv'
  BY <1>3, <1>4 DEF Inv, PhaseInv, PhaseOK, EndedOnDisk
<1>11. StarterInv'
  <2>1. \A c \in Callers : Starter(c) => thread[c].job \in Jobs
    BY StarterFacts
  <2> QED
    BY <1>1, <1>2, <2>1 DEF Inv, StarterInv, Starter, AgyKeeps
<1>12. AbortInv'
  <2>1. ASSUME NEW k \in Jobs, Aborted(k)
        PROVE  AbortOK(k)'
    <3>1. AbortOK(k)
      BY DEF Inv, AbortInv
    <3>2. Live(k) = {} => Live(k)' = {}
      BY DEF Live, AgyKeeps
    <3> QED
      BY <1>1, <1>3, <1>4, <2>1, <3>1, <3>2 DEF AbortOK, AgyKeeps
  <2>2. ASSUME NEW c \in Callers, thread[c].pc = "forgetting"
        PROVE  Live(thread[c].job)' = {}
    <3>1. Live(thread[c].job) = {} /\ thread[c].job \in Jobs
      BY <2>2, StarterFacts DEF Inv, AbortInv, Starter, Withdrawing
    <3> QED
      BY <3>1 DEF Live, AgyKeeps
  <2>3. \A k \in Jobs : AbortOK(k)'
    BY <1>3, <2>1 DEF AbortOK
  <2> QED
    BY <2>2, <2>3 DEF AbortInv
<1>6. JobsInv'
  <2> SUFFICES ASSUME NEW k \in Jobs
               PROVE  JobOK(k)'
    BY DEF JobsInv
  <2>1. FreshOK(k) /\ LiveOK(k) /\ WatchOK(k)
    BY DEF Inv, JobsInv, JobOK
  <2>2. FreshOK(k)'
    BY <2>1 DEF FreshOK, EndedOnDisk, AgyKeeps
  <2>3. LiveOK(k)'
    BY <2>1 DEF LiveOK, EndedOnDisk, AgyKeeps
  <2>4. WatchOK(k)'
    BY <1>2, <1>4, <2>1 DEF WatchOK, EndedOnDisk
  <2> QED
    BY <2>2, <2>3, <2>4 DEF JobOK
<1> QED
  BY <1>5, <1>6, <1>7, <1>8, <1>9, <1>10, <1>11, <1>12 DEF Inv

LEMMA ProcessSafe ==
  ASSUME Inv, Typed', ProcessExits
  PROVE  Inv'
  BY ProcessEffect, UnnoticedSafe

LEMMA RestartSafe ==
  ASSUME Inv, Typed', NEW b \in Bridges, Restart(b)
  PROVE  Inv'
  BY UnnoticedSafe DEF Restart, AgyKeeps
\* A bridge dies, killed or by itself: its threads, its memory and its watches are gone.
LEMMA DieSafe ==
  ASSUME Inv, Typed', NEW b \in Bridges, Die(b)
  PROVE  Inv'
<1>1. \A u \in Threads : thread'[u].pc # "idle" =>
         /\ thread'[u] = thread[u] /\ BridgeOf(u) # b /\ BridgeOf(u)' = BridgeOf(u)
         /\ thread[u].job \in Jobs /\ BridgeOf(u) \in Bridges
  <2> SUFFICES ASSUME NEW u \in Threads, thread'[u].pc # "idle"
               PROVE  /\ thread'[u] = thread[u] /\ BridgeOf(u) # b /\ BridgeOf(u)' = BridgeOf(u)
                      /\ thread[u].job \in Jobs /\ BridgeOf(u) \in Bridges
    OBVIOUS
  <2>1. thread'[u] = thread[u] /\ BridgeOf(u) # b
    BY IdleTyped DEF Die
  <2>2. BridgeOf(u)' = BridgeOf(u)
    BY <2>1 DEF Die, BridgeOf
  <2> QED
    BY <2>1, <2>2, Busy DEF Inv
<1>2. /\ \A d \in Bridges : d # b => mem'[d] = mem[d] /\ watched'[d] = watched[d]
      /\ watched'[b] = {}
  BY DEF Die, Inv, Typed, TypeOK
<1>3. \A k \in Jobs : mem'[b][k] = Absent
  BY DEF Die, Inv, Typed, TypeOK
<1>4. AgyKeeps
  BY DEF Die, AgyKeeps
<1>5. disk' = disk /\ finishes' = finishes /\ withdrawn' = withdrawn
  BY DEF Die
<1>6. 1 \in Attempts
  BY RegistryAssumption DEF Attempts
<1>7. \A c \in Callers : c \in Threads /\ c \notin Jobs /\ BridgeOf(c) = Home[c]
  BY RegistryAssumption DEF Threads, BridgeOf
<1>8. LocksInv'
  <2>1. \A u \in Threads : HoldsFlock(u)' \/ HoldsMutex(u)' => thread'[u].pc # "idle"
    BY LockPhases DEF FlockPhases
  <2>2. \A u \in Threads : thread'[u].pc # "idle" =>
           /\ HoldsFlock(u)' <=> HoldsFlock(u)
           /\ HoldsMutex(u)' <=> HoldsMutex(u)
    BY <1>1, LockPhases
  <2> QED
    BY <1>1, <2>1, <2>2 DEF Inv, LocksInv
<1>9. PublicInv'
  BY <1>4, <1>5, <1>6 DEF Inv, PublicInv, AgyKeeps
<1>10. \A c \in Callers :
          /\ Starter(c)' => Starter(c) /\ thread'[c] = thread[c] /\ Home[c] # b
          /\ Starter(c) /\ Home[c] # b => Starter(c)' /\ thread'[c] = thread[c]
          /\ thread'[c] = thread[c] => /\ Starting(c)' <=> Starting(c)
                                       /\ Withdrawing(c)' <=> Withdrawing(c)
  <2> SUFFICES ASSUME NEW c \in Callers
               PROVE  /\ Starter(c)' => Starter(c) /\ thread'[c] = thread[c] /\ Home[c] # b
                      /\ Starter(c) /\ Home[c] # b => Starter(c)' /\ thread'[c] = thread[c]
                      /\ thread'[c] = thread[c] => /\ Starting(c)' <=> Starting(c)
                                                   /\ Withdrawing(c)' <=> Withdrawing(c)
    OBVIOUS
  <2>1. Starter(c)' => thread'[c].pc # "idle"
    BY DEF Starter, Starting, Withdrawing
  <2>2. Home[c] # b => thread'[c] = thread[c]
    BY <1>7 DEF Die
  <2>3. thread'[c] = thread[c] => /\ Starting(c)' <=> Starting(c)
                                  /\ Withdrawing(c)' <=> Withdrawing(c)
    BY DEF Starting, Withdrawing
  <2> QED
    BY <1>1, <1>7, <2>1, <2>2, <2>3 DEF Starter
<1>11. \A k : Aborted(k)' => Aborted(k)
  <2>1. \A c \in Callers : Withdrawing(c)' => Withdrawing(c) /\ thread'[c] = thread[c]
    BY <1>10 DEF Starter
  <2> QED
    BY <1>5, <2>1 DEF Aborted
<1>12. MemoryInv'
  <2> SUFFICES ASSUME NEW d \in Bridges, NEW k \in Jobs, mem'[d][k] # Absent
               PROVE  /\ mem'[d][k].state # "absent"
                      /\ disk'[k] = Absent =>
                            \/ k \in withdrawn'
                            \/ \E c \in Callers :
                                  Starter(c)' /\ Home[c] = d /\ thread'[c].job = k
    BY DEF MemoryInv, Starter
  <2>1. d # b /\ mem'[d][k] = mem[d][k]
    BY <1>2, <1>3
  <2> QED
    BY <2>1, <1>5, <1>10 DEF Inv, MemoryInv, Starter
<1>13. StarterInv'
  <2>1. ASSUME NEW c \in Callers, Starter(c)'
        PROVE  LET j == thread'[c].job  rec == mem'[Home[c]][j] IN
               /\ owner'[j] = Home[c] /\ agy'[j][1] # "none" /\ j \notin withdrawn'
               /\ \A a \in Attempts : a > 1 => agy'[j][a] = "none"
               /\ Starting(c)' =>
                     /\ disk'[j] = Absent /\ j \in watched'[Home[c]]
                     /\ rec.state = "running" /\ rec.attempts = 1 /\ rec.pid = 1
    <3>1. Starter(c) /\ thread'[c] = thread[c] /\ Home[c] # b /\ (Starting(c)' <=> Starting(c))
      BY <1>10, <2>1
    <3>2. thread[c].job \in Jobs /\ owner[thread[c].job] = Home[c] /\ Home[c] \in Bridges
      BY <3>1, StarterFacts
    <3>3. owner'[thread[c].job] = Home[c]
      BY <3>1, <3>2 DEF Die
    <3> QED
      BY <3>1, <3>2, <3>3, <1>2, <1>4, <1>5, <1>6, StarterFacts DEF AgyKeeps
  <2>2. \A c, d \in Callers : Starter(c)' /\ Starter(d)' /\ thread'[c].job = thread'[d].job => c = d
    BY <1>10 DEF Inv, StarterInv, Starter
  <2> QED
    BY <2>1, <2>2 DEF StarterInv, Starter
<1>14. ASSUME NEW u \in Threads, thread'[u].pc # "idle", Aborted(thread[u].job)
       PROVE  Aborted(thread[u].job)'
  <2>1. thread'[u] = thread[u] /\ thread[u].pc # "idle" /\ BridgeOf(u) # b /\ thread[u].job \in Jobs
    BY <1>1, <1>14
  <2>2. BridgeOf(u) = owner[thread[u].job]
    BY <1>14, <2>1, AbortedFacts
  <2>3. CASE thread[u].job \in withdrawn
    BY <1>5, <2>1, <2>3 DEF Aborted
  <2>4. ASSUME NEW c \in Callers, Withdrawing(c), thread[c].job = thread[u].job
        PROVE  Withdrawing(c)' /\ thread'[c] = thread[c]
    <3>1. Home[c] # b
      BY <2>1, <2>2, <2>4, StarterFacts DEF Starter
    <3> QED
      BY <1>10, <2>4, <3>1 DEF Starter
  <2> QED
    BY <1>14, <2>1, <2>3, <2>4 DEF Aborted
<1>15. PhaseInv'
  <2> SUFFICES ASSUME NEW u \in Threads
               PROVE  PhaseOK(u)'
    BY DEF PhaseInv
  <2>1. CASE thread'[u].pc = "idle"
    BY <2>1 DEF PhaseOK
  <2>2. CASE thread'[u].pc # "idle"
    <3>1. thread'[u] = thread[u] /\ BridgeOf(u)' = BridgeOf(u) /\ BridgeOf(u) # b
          /\ thread[u].job \in Jobs /\ BridgeOf(u) \in Bridges
      BY <1>1, <2>2
    <3>2. PhaseOK(u)
      BY DEF Inv, PhaseInv
    <3>3. mem'[BridgeOf(u)] = mem[BridgeOf(u)]
      BY <1>2, <3>1
    <3>4. Aborted(thread[u].job) => Aborted(thread[u].job)'
      BY <1>14, <2>2
    <3> QED
      BY <1>5, <3>1, <3>2, <3>3, <3>4 DEF PhaseOK, EndedOnDisk
  <2> QED
    BY <2>1, <2>2
<1>16. ReportInv'
  <2>1. \A u \in Threads : Concluding(u)' =>
           Concluding(u) /\ thread'[u] = thread[u] /\ thread[u].job \in Jobs
    BY <1>1 DEF Concluding
  <2> QED
    BY <1>5, <2>1 DEF Inv, ReportInv, EndedOnDisk, Over
<1>17. ASSUME NEW k \in Jobs, Aborted(k)'
       PROVE  AbortOK(k)'
  <2>1. Aborted(k) /\ AbortOK(k)
    BY <1>11, <1>17 DEF Inv, AbortInv
  <2>2. Live(k) = {} => Live(k)' = {}
    BY <1>4 DEF Live, AgyKeeps
  <2>3. \A u \in Threads : thread'[u].pc # "idle" /\ thread'[u].job = k =>
           thread'[u] = thread[u] /\ owner[k] # b
    BY <1>1, <2>1, AbortedFacts
  <2>4. owner'[k] = IF owner[k] = b THEN NoBridge ELSE owner[k]
    BY DEF Die
  <2>5. \A d \in Bridges :
           /\ d # owner'[k] => mem'[d][k].state # "running"
           /\ k \in watched'[d] => mem'[d][k].state = "running"
           /\ d = owner'[k] /\ mem'[d][k].state = "running" =>
                k \in watched'[d] \/ k \in withdrawn'
    BY <1>2, <1>3, <1>5, <2>1, <2>4, AbsentState DEF AbortOK
  <2>6. \/ EndedOnDisk(k)'
        \/ finishes'[k] > 0
        \/ \E t \in Threads : Concluding(t)' /\ thread'[t].job = k
        => \A d \in Bridges : d = owner'[k] => mem'[d][k].state \in Terminal
    <3>1. \A t \in Threads : Concluding(t)' => Concluding(t) /\ thread'[t] = thread[t]
      BY <1>1 DEF Concluding
    <3>2. \/ EndedOnDisk(k)'
          \/ finishes'[k] > 0
          \/ \E t \in Threads : Concluding(t)' /\ thread'[t].job = k
          => \/ EndedOnDisk(k)
             \/ finishes[k] > 0
             \/ \E t \in Threads : Concluding(t) /\ thread[t].job = k
      BY <1>5, <3>1 DEF EndedOnDisk
    <3>3. \A d \in Bridges : d = owner'[k] => d = owner[k] /\ d # b /\ mem'[d] = mem[d]
      BY <1>2, <2>4, RegistryAssumption
    <3> QED
      BY <2>1, <3>2, <3>3 DEF AbortOK
  <2>7. \A u \in Threads : thread'[u].pc # "idle" /\ thread'[u].job = k =>
           /\ u \in Callers /\ Home[u] = owner'[k]
           /\ thread'[u].pc \in {"killing", "forgetting", "closing",
                                 "cancel", "cancelling", "publish", "signal", "notify"}
    BY <2>1, <2>3, <2>4 DEF AbortOK
  <2>8. agy'[k][1] # "none" /\ \A a \in Attempts : a > 1 => agy'[k][a] = "none"
    BY <1>4, <1>6, <2>1 DEF AbortOK, AgyKeeps
  <2> QED
    BY <1>5, <2>1, <2>2, <2>5, <2>6, <2>7, <2>8 DEF AbortOK, EndedOnDisk
<1>18. AbortInv'
  <2>1. ASSUME NEW c \in Callers, thread'[c].pc = "forgetting"
        PROVE  thread'[c] = thread[c] /\ Live(thread[c].job)' = {}
    <3>1. thread'[c] = thread[c] /\ thread[c].job \in Jobs
      BY <1>1, <1>7, <2>1
    <3>2. Live(thread[c].job) = {}
      BY <2>1, <3>1 DEF Inv, AbortInv
    <3> QED
      BY <1>4, <3>1, <3>2 DEF Live, AgyKeeps
  <2>2. \A k \in Jobs : AbortOK(k)'
    BY <1>17 DEF AbortOK
  <2> QED
    BY <2>1, <2>2 DEF AbortInv
<1>19. ASSUME NEW k \in Jobs
       PROVE  JobOK(k)'
  <2>1. k \in Threads /\ FreshOK(k) /\ LiveOK(k) /\ WatchOK(k)
    BY DEF Threads, Inv, JobsInv, JobOK
  <2>2. CASE owner[k] \in Bridges /\ owner[k] # b
    <3>1. owner'[k] = owner[k] /\ thread'[k] = thread[k] /\ BridgeOf(k) # b
      BY <2>1, <2>2 DEF BridgeOf, Die
    <3>2. FreshOK(k)'
      BY <3>1, <2>1, <2>2, <1>2, <1>4, <1>5 DEF FreshOK, EndedOnDisk, AgyKeeps
    <3>3. LiveOK(k)'
      BY <3>1, <2>1, <2>2, <1>2, <1>4, <1>5 DEF LiveOK, EndedOnDisk, AgyKeeps
    <3>4. ASSUME NEW d \in Bridges, k \in watched'[d]
          PROVE  /\ d = owner'[k]
                 /\ mem'[d][k].state = "running" \/ EndedOnDisk(k)'
                 /\ \/ thread'[k].pc \in WatchingPhases
                    \/ \E c \in Callers : Starter(c)' /\ thread'[c].job = k
                 /\ \A t \in Threads : Concluding(t)' /\ thread'[t].job = k => BridgeOf(t)' # d
      <4>1. d # b /\ k \in watched[d]
        BY <3>4, <1>2
      <4>2. /\ d = owner[k]
            /\ mem[d][k].state = "running" \/ EndedOnDisk(k)
            /\ \/ thread[k].pc \in WatchingPhases
               \/ \E c \in Callers : Starter(c) /\ thread[c].job = k
            /\ \A t \in Threads : Concluding(t) /\ thread[t].job = k => BridgeOf(t) # d
        BY <2>1, <4>1 DEF WatchOK, WatchingPhases, Starter
      <4>3. \A c \in Callers : Starter(c) /\ thread[c].job = k => Home[c] = owner[k]
        BY StarterFacts
      <4>4. \A t \in Threads : Concluding(t)' /\ thread'[t].job = k => BridgeOf(t)' # d
        BY <1>1, <4>2 DEF Concluding
      <4>5. mem'[d][k] = mem[d][k] /\ EndedOnDisk(k)' = EndedOnDisk(k)
        BY <4>1, <1>2, <1>5 DEF EndedOnDisk
      <4> QED
        BY <4>1, <4>2, <4>3, <4>4, <4>5, <3>1, <1>10
    <3> QED
      BY <3>2, <3>3, <3>4 DEF JobOK, WatchOK, WatchingPhases, Starter
  <2>3. CASE ~(owner[k] \in Bridges /\ owner[k] # b)
    <3>1. owner'[k] = NoBridge /\ NoBridge \notin Bridges
      BY <2>3, RegistryAssumption DEF Die, Inv, Typed, TypeOK
    <3>2. \A d \in Bridges : k \notin watched'[d]
      BY <2>1, <2>3, <1>2 DEF WatchOK
    <3>3. thread'[k].pc = "idle"
      BY <2>1, <3>1, <1>1, Busy DEF BridgeOf
    <3>4. FreshOK(k)' /\ WatchOK(k)'
      BY <3>2, <3>3 DEF FreshOK, WatchOK
    <3>5. LiveOK(k)'
      BY <2>1, <3>1, <1>4 DEF LiveOK, AgyKeeps
    <3> QED
      BY <3>4, <3>5 DEF JobOK
  <2> QED
    BY <2>2, <2>3
<1> QED
  BY <1>8, <1>9, <1>12, <1>13, <1>15, <1>16, <1>18, <1>19 DEF Inv, JobsInv

\* A call looks at the job and takes the record it found into memory.
LEMMA GetSafe ==
  ASSUME Inv, Typed', NEW c \in Callers, NEW j \in Jobs, NEW op \in {"get", "cancel"},
         Get(c, op, j)
  PROVE  Inv'
<1> PICK b \in Bridges : b = Home[c]
  BY RegistryAssumption
<1> DEFINE rec == Current(b, j)
<1>1. c \in Threads /\ c \notin Jobs /\ BridgeOf(c) = b /\ thread[c].pc = "idle" /\ MutexFree(b)
  BY RegistryAssumption DEF Threads, BridgeOf, Get
<1>2. \A d \in Callers : Starting(d) => Home[d] # b
  <2>1. \A d \in Callers : Starting(d) => HoldsMutex(d) /\ d \in Threads /\ BridgeOf(d) = Home[d]
    BY StarterFacts, LockPhases DEF Starting, Starter
  <2> QED
    BY <1>1, <2>1 DEF MutexFree
<1>3. /\ rec # Absent
      /\ mem' = [mem EXCEPT ![b] = [@ EXCEPT ![j] = rec]]
      /\ UNCHANGED <<disk, watched, owner, agy, finishes, withdrawn>>
  BY DEF Get
<1>4. \/ rec = disk[j] /\ disk[j] # Absent /\ j \notin watched[b]
      \/ rec = mem[b][j] /\ (disk[j] = Absent \/ j \in watched[b])
                         /\ ~(j \notin watched[b] /\ j \in withdrawn /\ owner[j] = b)
  BY <1>3 DEF Current, Cached
<1>5. rec.state # "absent" /\ (disk[j] # Absent \/ Aborted(j))
  <2>1. CASE rec = disk[j] /\ disk[j] # Absent
    BY <2>1 DEF Inv, PublicInv
  <2>2. CASE rec = mem[b][j]
    <3>1. /\ mem[b][j].state # "absent"
          /\ disk[j] = Absent => j \in withdrawn \/ \E d \in Callers :
                Starter(d) /\ Home[d] = b /\ thread[d].job = j
      BY <1>3, <2>2 DEF Inv, MemoryInv, Starter
    <3> QED
      BY <1>2, <2>2, <3>1 DEF Aborted, Starter
  <2> QED
    BY <1>4, <2>1, <2>2
<1>6. /\ mem'[b][j] = rec
      /\ \A d \in Bridges, k \in Jobs : d # b \/ k # j => mem'[d][k] = mem[d][k]
  <2> HIDE DEF rec
  <2> QED
    BY <1>3 DEF Inv, Typed, TypeOK
<1>7. PICK th \in {Thread("probe", op, j, rec.pid), Thread("cancel", op, j, 0), Idle} :
         /\ thread' = [thread EXCEPT ![c] = th]
         /\ th.pc = "probe" => rec.state = "running" /\ j \notin watched[b]
         /\ th.pc = "cancel" => rec.state \notin Terminal
  <2>1. /\ Thread("probe", op, j, rec.pid).pc = "probe"
        /\ Thread("cancel", op, j, 0).pc = "cancel"
    BY DEF Thread
  <2>2. CASE rec.state = "running" /\ j \notin watched[b]
    BY <2>1, <2>2 DEF Get
  <2>3. CASE ~(rec.state = "running" /\ j \notin watched[b]) /\ op = "cancel" /\ rec.state \notin Terminal
    BY <2>1, <2>3 DEF Get, Proceed
  <2>4. CASE ~(rec.state = "running" /\ j \notin watched[b]) /\ ~(op = "cancel" /\ rec.state \notin Terminal)
    BY <2>1, <2>4, IdleTyped DEF Get, Proceed
  <2> QED
    BY <2>2, <2>3, <2>4
<1>8. th.pc \in {"probe", "cancel", "idle"} /\ (th.pc # "idle" => th.job = j)
  BY <1>7, IdleTyped DEF Thread
<1> HIDE DEF rec
<1>9. \A u \in Threads : /\ thread'[u] = IF u = c THEN th ELSE thread[u]
                         /\ BridgeOf(u)' = BridgeOf(u)
  BY <1>3, <1>7 DEF Inv, Typed, TypeOK, BridgeOf
<1>10. \A u \in Threads : HoldsMutex(u) => BridgeOf(u) # b
  BY <1>1 DEF MutexFree
<1>11. \A u \in Threads : /\ HoldsFlock(u)' => HoldsFlock(u) /\ thread'[u] = thread[u]
                          /\ HoldsMutex(u)' => HoldsMutex(u)
  BY <1>8, <1>9, LockPhases DEF FlockPhases
<1>12. LocksInv'
  BY <1>9, <1>11 DEF Inv, LocksInv
<1>13. PublicInv'
  BY <1>3 DEF Inv, PublicInv
<1>14. /\ \A d \in Callers : /\ Starting(d)' <=> Starting(d)
                             /\ Withdrawing(d)' <=> Withdrawing(d)
                             /\ Starter(d)' <=> Starter(d)
                             /\ Starter(d) => thread'[d] = thread[d]
       /\ \A k : Aborted(k)' <=> Aborted(k)
  <2>1. \A d \in Callers : d \in Threads
    BY DEF Threads
  <2>2. \A d \in Callers : /\ Starting(d)' <=> Starting(d)
                           /\ Withdrawing(d)' <=> Withdrawing(d)
                           /\ Starting(d) \/ Withdrawing(d) => thread'[d] = thread[d]
    BY <1>1, <1>8, <1>9, <2>1 DEF Starting, Withdrawing
  <2> QED
    BY <1>3, <2>2 DEF Starter, Aborted
<1>15. MemoryInv'
  <2> SUFFICES ASSUME NEW d \in Bridges, NEW k \in Jobs, mem'[d][k] # Absent
               PROVE  /\ mem'[d][k].state # "absent"
                      /\ disk'[k] = Absent =>
                            \/ k \in withdrawn'
                            \/ \E e \in Callers :
                                  Starter(e)' /\ Home[e] = d /\ thread'[e].job = k
    BY DEF MemoryInv, Starter
  <2>1. CASE d = b /\ k = j
    <3>1. disk[j] = Absent => rec = mem[b][j]
      BY <1>4
    <3> QED
      BY <1>3, <1>5, <1>6, <1>14, <2>1, <3>1 DEF Inv, MemoryInv, Starter
  <2>2. CASE ~(d = b /\ k = j)
    BY <1>3, <1>6, <1>14, <2>2 DEF Inv, MemoryInv, Starter
  <2> QED
    BY <2>1, <2>2
<1>16. StarterInv'
  <2>1. \A d \in Callers : Starting(d) => /\ Home[d] \in Bridges /\ thread[d].job \in Jobs
                                          /\ mem'[Home[d]][thread[d].job] = mem[Home[d]][thread[d].job]
    BY <1>2, <1>6, StarterFacts DEF Starter
  <2>2. \A d \in Callers : Starting(d) => Starter(d)
    BY DEF Starter
  <2> QED
    BY <2>1, <2>2, <1>3, <1>14 DEF Inv, StarterInv, Starter
<1>17. PhaseInv'
  <2> SUFFICES ASSUME NEW u \in Threads
               PROVE  PhaseOK(u)'
    BY DEF PhaseInv
  <2>1. CASE u = c
    BY <2>1, <1>3, <1>5, <1>8, <1>9, <1>14 DEF PhaseOK
  <2>2. CASE u # c
    <3>1. thread'[u] = thread[u] /\ BridgeOf(u)' = BridgeOf(u) /\ PhaseOK(u)
      BY <2>2, <1>9 DEF Inv, PhaseInv
    <3>2. thread[u].pc \in {"publish", "respawned"} =>
             mem'[BridgeOf(u)][thread[u].job] = mem[BridgeOf(u)][thread[u].job]
      <4>1. thread[u].pc \in {"publish", "respawned"} =>
               thread[u].job \in Jobs /\ BridgeOf(u) \in Bridges /\ BridgeOf(u) # b
        BY <1>10, StandingJob, LockPhases DEF StartPhases
      <4> QED
        BY <1>6, <4>1
    <3> QED
      BY <3>1, <3>2, <1>3, <1>14 DEF PhaseOK, EndedOnDisk
  <2> QED
    BY <2>1, <2>2
<1>18. \A u \in Threads : /\ Concluding(u)' => Concluding(u) /\ thread'[u] = thread[u]
                          /\ Concluding(u) => Concluding(u)' /\ thread'[u] = thread[u]
  BY <1>1, <1>8, <1>9 DEF Concluding
<1>19. ReportInv'
  BY <1>3, <1>18 DEF Inv, ReportInv, EndedOnDisk, Over
\* A call for a job whose start has failed finds the end of it, or still has the job
\* watched: the record in memory stays what it was.
<1>20. ASSUME Aborted(j)
       PROVE  /\ mem'[b][j] = mem[b][j] \/ (rec.state \in Terminal /\ EndedOnDisk(j))
              /\ th.pc # "idle" => th.pc = "cancel" /\ b = owner[j]
  <2>1. AbortOK(j)
    BY DEF Inv, AbortInv
  <2>2. \A d \in Bridges :
           /\ d # owner[j] => mem[d][j].state # "running"
           /\ j \in watched[d] => mem[d][j].state = "running"
           /\ d = owner[j] /\ mem[d][j].state = "running" => j \in watched[d] \/ j \in withdrawn
    BY <1>20, <2>1 DEF AbortOK
  <2>3. CASE rec = disk[j] /\ disk[j] # Absent /\ j \notin watched[b]
    <3>1. EndedOnDisk(j) /\ rec.state \in Terminal /\ "running" \notin Terminal
      BY <1>20, <2>3, AbortedFacts DEF EndedOnDisk, Terminal
    <3> QED
      BY <1>7, <1>8, <3>1
  <2>4. CASE rec = mem[b][j] /\ j \in watched[b]
    BY <1>6, <1>7, <1>8, <1>20, <2>4, AbortedFacts
  <2>5. CASE rec = mem[b][j] /\ j \notin watched[b] /\ ~(j \in withdrawn /\ owner[j] = b)
    <3>1. rec.state # "running"
      BY <2>2, <2>5
    <3>2. rec \in Records
      BY <2>5, Stored DEF Inv
    <3>3. rec.state \in Terminal
      BY <1>5, <3>1, <3>2, RecordFields
    <3> QED
      BY <1>6, <1>7, <1>8, <2>5, <3>1, <3>3
  <2> QED
    BY <1>4, <2>3, <2>4, <2>5
<1>21. ASSUME NEW k \in Jobs, Aborted(k)
       PROVE  AbortOK(k)'
  <2>1. AbortOK(k) /\ "running" \notin Terminal
    BY DEF Inv, AbortInv, Terminal
  <2>2. \A d \in Bridges : mem'[d][k] = mem[d][k] \/ (mem'[d][k].state \in Terminal /\ EndedOnDisk(k))
    BY <1>6, <1>20, <1>21
  <2>3. \A d \in Bridges : EndedOnDisk(k) => k \notin watched[d]
    BY <1>21, AbortedFacts
  <2>4. \A d \in Bridges :
           /\ d # owner[k] => mem[d][k].state # "running"
           /\ k \in watched[d] => mem[d][k].state = "running"
           /\ d = owner[k] /\ mem[d][k].state = "running" => k \in watched[d] \/ k \in withdrawn
    BY <1>21, <2>1 DEF AbortOK
  <2>5. \A d \in Bridges :
           /\ d # owner[k] => mem'[d][k].state # "running"
           /\ k \in watched[d] => mem'[d][k].state = "running"
           /\ d = owner[k] /\ mem'[d][k].state = "running" => k \in watched[d] \/ k \in withdrawn
    BY <2>1, <2>2, <2>3, <2>4
  <2>6. ASSUME NEW u \in Threads, thread'[u].pc # "idle", thread'[u].job = k
        PROVE  /\ u \in Callers /\ Home[u] = owner[k]
               /\ thread'[u].pc \in {"killing", "forgetting", "closing",
                                     "cancel", "cancelling", "publish", "signal", "notify"}
    <3>1. CASE u = c
      BY <1>8, <1>9, <1>20, <1>21, <2>6, <3>1
    <3>2. CASE u # c
      BY <1>9, <1>21, <2>1, <2>6, <3>2 DEF AbortOK
    <3> QED
      BY <3>1, <3>2
  <2>7. \/ EndedOnDisk(k)'
        \/ finishes'[k] > 0
        \/ \E t \in Threads : Concluding(t)' /\ thread'[t].job = k
        => \A d \in Bridges : d = owner[k] => mem'[d][k].state \in Terminal
    <3>1. \/ EndedOnDisk(k)'
          \/ finishes'[k] > 0
          \/ \E t \in Threads : Concluding(t)' /\ thread'[t].job = k
          => \/ EndedOnDisk(k)
             \/ finishes[k] > 0
             \/ \E t \in Threads : Concluding(t) /\ thread[t].job = k
      BY <1>3, <1>18 DEF EndedOnDisk
    <3> QED
      BY <1>21, <2>1, <2>2, <3>1 DEF AbortOK
  <2>8. /\ disk[k] = Absent \/ EndedOnDisk(k)
        /\ agy[k][1] # "none" /\ \A a \in Attempts : a > 1 => agy[k][a] = "none"
        /\ k \in withdrawn => Live(k) = {}
    BY <1>21, <2>1 DEF AbortOK
  <2> QED
    BY <1>3, <2>5, <2>6, <2>7, <2>8 DEF AbortOK, EndedOnDisk, Live
<1>22. AbortInv'
  <2>1. \A d \in Callers : thread'[d].pc = "forgetting" => thread'[d] = thread[d]
    BY <1>8, <1>9 DEF Threads
  <2>2. \A d \in Callers : thread'[d].pc = "forgetting" => Live(thread[d].job)' = {}
    BY <1>3, <2>1 DEF Inv, AbortInv, Live
  <2>3. \A k \in Jobs : AbortOK(k)'
    BY <1>14, <1>21 DEF AbortOK
  <2> QED
    BY <2>1, <2>2, <2>3 DEF AbortInv
<1>23. ASSUME NEW k \in Jobs
       PROVE  JobOK(k)'
  <2>1. /\ k \in Threads /\ k # c /\ thread'[k] = thread[k] /\ BridgeOf(k) = owner[k]
        /\ FreshOK(k) /\ LiveOK(k) /\ WatchOK(k)
    BY <1>1, <1>9 DEF Threads, Inv, JobsInv, JobOK, BridgeOf
  <2>2. thread[k].pc # "idle" => owner[k] \in Bridges
    BY <2>1, Busy DEF Inv
  <2>3. \A d \in Bridges : k \in watched[d] => mem'[d][k] = mem[d][k]
    BY <1>4, <1>6
  <2>4. FreshOK(k)'
    BY <2>1, <2>2, <2>3, <1>3 DEF FreshOK, EndedOnDisk
  <2>5. LiveOK(k)'
    BY <2>1, <2>3, <1>3 DEF LiveOK, EndedOnDisk
  <2>6. WatchOK(k)'
    <3>1. \A u \in Threads : Concluding(u)' /\ thread'[u].job = k =>
             Concluding(u) /\ thread[u].job = k /\ BridgeOf(u)' = BridgeOf(u)
      BY <1>9, <1>18
    <3>2. \A d \in Callers : Starter(d) => Starter(d)' /\ thread'[d] = thread[d]
      BY <1>14
    <3> QED
      BY <2>1, <2>3, <3>1, <3>2, <1>3 DEF WatchOK, EndedOnDisk, Starter
  <2> QED
    BY <2>4, <2>5, <2>6 DEF JobOK
<1> QED
  BY <1>12, <1>13, <1>15, <1>16, <1>17, <1>19, <1>22, <1>23 DEF Inv, JobsInv

----------------------------------------------------------------------------
\* start().  The id is the starter's own: nobody knows the job before.

LEMMA UnknownJob ==
  ASSUME Inv, NEW j \in Jobs, agy[j][1] = "none"
  PROVE  /\ ~Aborted(j) /\ disk[j] = Absent /\ \A a \in Attempts : agy[j][a] = "none"
         /\ \A u \in Threads : thread[u].pc # "idle" => thread[u].job \in Jobs /\ thread[u].job # j
         /\ \A d \in Bridges : mem[d][j] = Absent /\ j \notin watched[d]
<1>1. ~Aborted(j)
  BY DEF Inv, AbortInv, AbortOK
<1>2. disk[j] = Absent /\ \A a \in Attempts : agy[j][a] = "none"
  BY DEF Inv, PublicInv
<1>3. \A u \in Threads : thread[u].pc # "idle" => thread[u].job \in Jobs /\ thread[u].job # j
  <2> SUFFICES ASSUME NEW u \in Threads, thread[u].pc # "idle"
               PROVE  thread[u].job \in Jobs /\ thread[u].job # j
    OBVIOUS
  <2>1. CASE thread[u].pc \in StartPhases
    <3>1. u \in Callers /\ Starter(u)
      BY <2>1 DEF Inv, Typed, ThreadsInv, ThreadOK, Threads, StartPhases, Starter, Starting, Withdrawing
    <3> QED
      BY <3>1, StarterFacts
  <2>2. CASE thread[u].pc \notin StartPhases
    BY <2>2, StandingJob
  <2> QED
    BY <2>1, <2>2
<1>4. \A c \in Callers : Starter(c) => thread[c].job # j
  BY <1>3 DEF Starter, Starting, Withdrawing, Threads
<1>5. \A d \in Bridges : mem[d][j] = Absent
  BY <1>1, <1>2, <1>4 DEF Inv, MemoryInv, Starter, Aborted
<1>6. \A d \in Bridges : j \notin watched[d]
  <2>1. WatchOK(j) /\ j \in Threads
    BY DEF Inv, JobsInv, JobOK, Threads
  <2>2. thread[j].pc = "idle"
    BY <1>3, <2>1, Busy DEF Inv
  <2> QED
    BY <1>4, <2>1, <2>2 DEF WatchOK, Starter
<1> QED
  BY <1>1, <1>2, <1>3, <1>5, <1>6

LEMMA StartSpawnSafe ==
  ASSUME Inv, Typed', NEW c \in Callers, NEW j \in Jobs, NEW served \in BOOLEAN,
         StartSpawn(c, j, served)
  PROVE  Inv'
<1> PICK b \in Bridges : b = Home[c]
  BY RegistryAssumption
<1> DEFINE th == Thread("spawned", "start", j, 0)
           rec == [state |-> "running", attempts |-> 1, pid |-> 1]
<1>1. c \in Threads /\ c \notin Jobs /\ BridgeOf(c) = b /\ thread[c].pc = "idle" /\ 1 \in Attempts
  BY RegistryAssumption DEF Threads, BridgeOf, StartSpawn, Attempts
<1>2. /\ disk[j] = Absent /\ (\A a \in Attempts : agy[j][a] = "none") /\ ~Aborted(j) /\ MutexFree(b)
      /\ \A u \in Threads : thread[u].pc # "idle" => thread[u].job \in Jobs /\ thread[u].job # j
      /\ \A d \in Bridges : mem[d][j] = Absent /\ j \notin watched[d]
  BY UnknownJob DEF StartSpawn
<1>3. th.pc = "spawned" /\ th.job = j
  BY DEF Thread
<1>4. rec.state = "running" /\ rec.attempts = 1 /\ rec.pid = 1 /\ rec # Absent
  BY DEF Absent
<1>5. /\ mem' = [mem EXCEPT ![b] = [@ EXCEPT ![j] = rec]]
      /\ thread' = [thread EXCEPT ![c] = th]
      /\ owner' = [owner EXCEPT ![j] = b]
      /\ agy' = [agy EXCEPT ![j] = [@ EXCEPT ![1] = "running"]]
      /\ watched' = [watched EXCEPT ![b] = @ \cup {j}]
      /\ UNCHANGED <<disk, finishes, withdrawn>>
  BY DEF StartSpawn
<1> HIDE DEF th, rec
<1>6. /\ mem'[b][j] = rec
      /\ \A d \in Bridges, k \in Jobs : d # b \/ k # j => mem'[d][k] = mem[d][k]
  BY <1>5 DEF Inv, Typed, TypeOK
<1>7. \A u \in Threads : thread'[u] = IF u = c THEN th ELSE thread[u]
  BY <1>5 DEF Inv, Typed, TypeOK
<1>8. \A k \in Jobs : owner'[k] = IF k = j THEN b ELSE owner[k]
  BY <1>5 DEF Inv, Typed, TypeOK
<1>9. \A k \in Jobs, a \in Attempts :
         agy'[k][a] = IF k = j /\ a = 1 THEN "running" ELSE agy[k][a]
  BY <1>1, <1>5 DEF Inv, Typed, TypeOK
<1>10. /\ j \in watched'[b] /\ \A d \in Bridges : j \in watched'[d] => d = b
       /\ \A d \in Bridges, k \in Jobs : k # j => (k \in watched'[d] <=> k \in watched[d])
  BY <1>2, <1>5 DEF Inv, Typed, TypeOK
<1>11. \A u \in Threads : thread[u].pc # "idle" => BridgeOf(u)' = BridgeOf(u) /\ u # j
  <2> SUFFICES ASSUME NEW u \in Threads, thread[u].pc # "idle"
               PROVE  BridgeOf(u)' = BridgeOf(u) /\ u # j
    OBVIOUS
  <2>1. u # j
    BY <1>2, Busy DEF Inv
  <2> QED
    BY <2>1, <1>8 DEF BridgeOf
<1>13. BridgeOf(c)' = b
  BY <1>1 DEF BridgeOf
<1>14. LocksInv'
  <2>1. \A u \in Threads : u # c => /\ HoldsFlock(u)' = HoldsFlock(u)
                                    /\ HoldsMutex(u)' = HoldsMutex(u)
                                    /\ thread'[u].job = thread[u].job
                                    /\ HoldsMutex(u) => BridgeOf(u)' = BridgeOf(u) /\ BridgeOf(u) # b
    <3> SUFFICES ASSUME NEW u \in Threads, u # c
                 PROVE  /\ HoldsFlock(u)' = HoldsFlock(u)
                        /\ HoldsMutex(u)' = HoldsMutex(u)
                        /\ thread'[u].job = thread[u].job
                        /\ HoldsMutex(u) => BridgeOf(u)' = BridgeOf(u) /\ BridgeOf(u) # b
      OBVIOUS
    <3>1. thread'[u] = thread[u]
      BY <1>7
    <3>2. HoldsMutex(u) => thread[u].pc # "idle"
      BY LockPhases
    <3> QED
      BY <3>1, <3>2, <1>2, <1>11 DEF HoldsFlock, HoldsMutex, Holds, FirstLock, MutexFree
  <2>2. ~HoldsFlock(c)'
    BY <1>1, <1>3, <1>7, LockPhases DEF FlockPhases
  <2> QED
    BY <2>1, <2>2, <1>13 DEF Inv, LocksInv
<1>15. PublicInv'
  BY <1>1, <1>2, <1>5, <1>9 DEF Inv, PublicInv
<1>16. /\ \A d \in Callers : d # c =>
             /\ Starting(d)' <=> Starting(d)
             /\ Withdrawing(d)' <=> Withdrawing(d)
             /\ thread'[d] = thread[d]
       /\ \A d \in Callers : Starter(d) => d # c /\ thread[d].job \in Jobs /\ thread[d].job # j
       /\ Starting(c)' /\ ~Withdrawing(c)' /\ ~Withdrawing(c) /\ thread'[c].job = j
       /\ \A k : Aborted(k)' <=> Aborted(k)
  <2>1. \A d \in Callers : d \in Threads
    BY DEF Threads
  <2>2. \A d \in Callers : d # c =>
           /\ Starting(d)' <=> Starting(d)
           /\ Withdrawing(d)' <=> Withdrawing(d)
           /\ thread'[d] = thread[d]
    BY <2>1, <1>7 DEF Starting, Withdrawing
  <2>3. \A d \in Callers : Starter(d) => d # c /\ thread[d].job \in Jobs /\ thread[d].job # j
    BY <2>1, <1>1, <1>2 DEF Starter, Starting, Withdrawing
  <2>4. Starting(c)' /\ ~Withdrawing(c)' /\ ~Withdrawing(c) /\ thread'[c].job = j
    BY <1>1, <1>3, <1>7 DEF Starting, Withdrawing
  <2>5. \A k : Aborted(k)' <=> Aborted(k)
    BY <1>5, <2>2, <2>4 DEF Aborted
  <2> QED
    BY <2>2, <2>3, <2>4, <2>5
<1>19. MemoryInv'
  <2> SUFFICES ASSUME NEW d \in Bridges, NEW k \in Jobs, mem'[d][k] # Absent
               PROVE  /\ mem'[d][k].state # "absent"
                      /\ disk'[k] = Absent =>
                            \/ k \in withdrawn'
                            \/ \E e \in Callers :
                                  (Starting(e)' \/ Withdrawing(e)') /\ Home[e] = d /\ thread'[e].job = k
    BY DEF MemoryInv
  <2>1. CASE d = b /\ k = j
    BY <2>1, <1>4, <1>6, <1>16
  <2>2. CASE d # b \/ k # j
    <3>1. mem'[d][k] = mem[d][k] /\ disk'[k] = disk[k]
      BY <2>2, <1>5, <1>6
    <3>2. /\ mem[d][k].state # "absent"
          /\ disk[k] = Absent =>
                \/ k \in withdrawn
                \/ \E e \in Callers : Starter(e) /\ Home[e] = d /\ thread[e].job = k
      BY <3>1 DEF Inv, MemoryInv, Starter
    <3> QED
      BY <3>1, <3>2, <1>5, <1>16 DEF Starter
  <2> QED
    BY <2>1, <2>2
<1>20. StarterInv'
  <2>1. ASSUME NEW d \in Callers, Starting(d)' \/ Withdrawing(d)'
        PROVE  LET k == thread'[d].job  r == mem'[Home[d]][k] IN
               /\ owner'[k] = Home[d] /\ agy'[k][1] # "none" /\ k \notin withdrawn'
               /\ \A a \in Attempts : a > 1 => agy'[k][a] = "none"
               /\ Starting(d)' => /\ disk'[k] = Absent /\ k \in watched'[Home[d]]
                                  /\ r.state = "running" /\ r.attempts = 1 /\ r.pid = 1
    <3>1. CASE d = c
      <4>1. thread'[d].job = j /\ Home[d] = b /\ j \notin withdrawn
        BY <3>1, <1>2, <1>16 DEF Aborted
      <4> QED
        BY <4>1, <1>1, <1>2, <1>4, <1>5, <1>6, <1>8, <1>9, <1>10 DEF Attempts
    <3>2. CASE d # c
      <4>1. /\ Starter(d) /\ thread'[d] = thread[d] /\ (Starting(d)' <=> Starting(d))
            /\ thread[d].job \in Jobs /\ thread[d].job # j
        BY <3>2, <2>1, <1>16 DEF Starter
      <4> PICK k \in Jobs : k = thread[d].job
        BY <4>1
      <4>2. /\ owner[k] = Home[d] /\ agy[k][1] # "none" /\ k \notin withdrawn
            /\ \A a \in Attempts : a > 1 => agy[k][a] = "none"
            /\ Home[d] \in Bridges
            /\ Starting(d) => /\ disk[k] = Absent /\ k \in watched[Home[d]]
                              /\ mem[Home[d]][k].state = "running"
                              /\ mem[Home[d]][k].attempts = 1 /\ mem[Home[d]][k].pid = 1
        BY <4>1, StarterFacts
      <4> QED
        BY <4>1, <4>2, <1>1, <1>5, <1>6, <1>8, <1>9, <1>10
    <3> QED
      BY <3>1, <3>2
  <2>2. \A d, e \in Callers :
           (Starting(d)' \/ Withdrawing(d)') /\ (Starting(e)' \/ Withdrawing(e)')
           /\ thread'[d].job = thread'[e].job => d = e
    BY <1>16 DEF Inv, StarterInv, Starter
  <2> QED
    BY <2>1, <2>2 DEF StarterInv
<1>21. PhaseInv'
  <2> SUFFICES ASSUME NEW u \in Threads
               PROVE  PhaseOK(u)'
    BY DEF PhaseInv
  <2>1. CASE u = c
    BY <2>1, <1>1, <1>3, <1>7 DEF PhaseOK
  <2>2. CASE u # c /\ thread[u].pc = "idle"
    BY <2>2, <1>7 DEF PhaseOK
  <2>3. CASE u # c /\ thread[u].pc # "idle"
    <3>1. thread'[u] = thread[u] /\ BridgeOf(u)' = BridgeOf(u) /\ PhaseOK(u) /\ BridgeOf(u) \in Bridges
      BY <2>3, <1>7, <1>11, Busy DEF Inv, PhaseInv
    <3>2. mem'[BridgeOf(u)][thread[u].job] = mem[BridgeOf(u)][thread[u].job] /\ disk' = disk
      BY <2>3, <3>1, <1>2, <1>5, <1>6
    <3> QED
      BY <3>1, <3>2, <1>16 DEF PhaseOK, EndedOnDisk
  <2> QED
    BY <2>1, <2>2, <2>3
<1>22. /\ \A u \in Threads : Concluding(u)' => Concluding(u) /\ thread'[u] = thread[u]
       /\ \A u \in Threads : Concluding(u) => Concluding(u)' /\ thread'[u] = thread[u]
                                              /\ thread[u].pc # "idle"
  BY <1>1, <1>3, <1>7 DEF Concluding
<1>23. ReportInv'
  BY <1>5, <1>22 DEF Inv, ReportInv, EndedOnDisk, Over
<1>24. AbortInv'
  <2>1. ASSUME NEW k \in Jobs, Aborted(k)
        PROVE  AbortOK(k)'
    <3>1. k # j /\ AbortOK(k)
      BY <1>2, <2>1 DEF Inv, AbortInv
    <3>2. /\ owner'[k] = owner[k] /\ \A a \in Attempts : agy'[k][a] = agy[k][a]
          /\ \A d \in Bridges : mem'[d][k] = mem[d][k] /\ (k \in watched'[d] <=> k \in watched[d])
      BY <3>1, <1>6, <1>8, <1>9, <1>10
    <3>3. Live(k)' = Live(k)
      BY <3>2 DEF Live
    <3>4. \A u \in Threads : thread'[u].pc # "idle" /\ thread'[u].job = k => thread'[u] = thread[u]
      BY <1>3, <1>7, <3>1
    <3> QED
      BY <2>1, <3>1, <3>2, <3>3, <3>4, <1>1, <1>5, <1>22 DEF AbortOK, EndedOnDisk
  <2>2. \A d \in Callers : thread'[d].pc = "forgetting" =>
           thread'[d] = thread[d] /\ thread[d].job \in Jobs /\ thread[d].job # j
    BY <1>2, <1>3, <1>7 DEF Threads
  <2>3. \A k \in Jobs : k # j => Live(k)' = Live(k)
    BY <1>9 DEF Live
  <2>4. \A d \in Callers : thread'[d].pc = "forgetting" => Live(thread[d].job)' = {}
    BY <2>2, <2>3 DEF Inv, AbortInv
  <2>5. \A k \in Jobs : AbortOK(k)'
    BY <1>16, <2>1 DEF AbortOK
  <2> QED
    BY <2>2, <2>4, <2>5 DEF AbortInv, Live
<1>25. ASSUME NEW k \in Jobs, k # j
       PROVE  JobOK(k)'
  <2>1. /\ k \in Threads /\ thread'[k] = thread[k] /\ owner'[k] = owner[k]
        /\ FreshOK(k) /\ LiveOK(k) /\ WatchOK(k) /\ BridgeOf(k) = owner[k]
    BY <1>1, <1>7, <1>8, <1>25 DEF Threads, Inv, JobsInv, JobOK, BridgeOf
  <2>2. thread[k].pc # "idle" => owner[k] \in Bridges
    BY <2>1, Busy DEF Inv
  <2>3. \A d \in Bridges : /\ k \in watched'[d] => k \in watched[d]
                           /\ mem'[d][k] = mem[d][k]
    BY <1>6, <1>10, <1>25
  <2>4. \A a \in Attempts : agy'[k][a] = agy[k][a]
    BY <1>9, <1>25
  <2>5. FreshOK(k)'
    BY <2>1, <2>2, <2>3, <2>4, <1>5 DEF FreshOK, EndedOnDisk
  <2>6. LiveOK(k)'
    BY <2>1, <2>3, <2>4, <1>5 DEF LiveOK, EndedOnDisk
  <2>7. WatchOK(k)'
    <3>1. \A u \in Threads : Concluding(u)' /\ thread'[u].job = k =>
             Concluding(u) /\ thread[u].job = k /\ BridgeOf(u)' = BridgeOf(u)
      BY <1>11, <1>22
    <3>2. \A d \in Callers : Starter(d) => Starter(d)' /\ thread'[d] = thread[d]
      BY <1>16 DEF Starter
    <3> QED
      BY <2>1, <2>3, <3>1, <3>2, <1>5 DEF WatchOK, EndedOnDisk, Starter
  <2> QED
    BY <2>5, <2>6, <2>7 DEF JobOK
<1>26. JobOK(j)'
  <2>1. j \in Threads /\ thread[j].pc = "idle" /\ thread'[j] = thread[j] /\ owner'[j] = b
    BY <1>1, <1>2, <1>7, <1>8, Busy DEF Threads, Inv
  <2>5. FreshOK(j)'
    BY <2>1 DEF FreshOK
  <2>6. \A a \in Attempts : agy'[j][a] = "running" => a = 1
    BY <1>2, <1>9
  <2>7. LiveOK(j)'
    BY <2>1, <2>6, <1>4, <1>6 DEF LiveOK
  <2>8. \A u \in Threads : Concluding(u)' => thread'[u].job # j
    BY <1>2, <1>22
  <2>9. WatchOK(j)'
    BY <2>1, <2>8, <1>4, <1>6, <1>10, <1>16 DEF WatchOK
  <2> QED
    BY <2>5, <2>7, <2>9 DEF JobOK
<1> QED
  BY <1>14, <1>15, <1>19, <1>20, <1>21, <1>23, <1>24, <1>25, <1>26 DEF Inv, JobsInv

\* A job that is being started has nobody but its starter.
LEMMA StartingJob ==
  ASSUME Inv, NEW c \in Callers, Starting(c)
  PROVE  /\ ~Aborted(thread[c].job)
         /\ \A u \in Threads : u # c /\ thread[u].pc # "idle" =>
               thread[u].job \in Jobs /\ thread[u].job # thread[c].job /\ u # thread[c].job
<1> PICK j : j = thread[c].job
  OBVIOUS
<1>1. /\ Starter(c) /\ ~Withdrawing(c)
      /\ \A d \in Callers : Starter(d) /\ thread[d].job = j => d = c
  BY DEF Starter, Starting, Withdrawing, Inv, StarterInv
<1>2. disk[j] = Absent /\ j \notin withdrawn
  BY <1>1, StarterFacts
<1>3. ~Aborted(j)
  BY <1>1, <1>2 DEF Aborted, Starter
<1>4. ASSUME NEW u \in Threads, u # c, thread[u].pc # "idle"
      PROVE  thread[u].job \in Jobs /\ thread[u].job # j /\ u # j
  <2>1. thread[u].job \in Jobs /\ (u \in Jobs => thread[u].job = u)
    BY <1>4, Busy DEF Inv
  <2>2. CASE thread[u].pc \in StartPhases
    <3>1. u \in Callers /\ Starter(u)
      BY <1>4, <2>2 DEF Inv, Typed, ThreadsInv, ThreadOK, Threads, StartPhases, Starter, Starting, Withdrawing
    <3>2. thread[u].job # j
      BY <1>1, <1>4, <3>1
    <3>3. j \in Jobs
      BY <1>1, StarterFacts
    <3> QED
      BY <2>1, <3>1, <3>2, <3>3, RegistryAssumption
  <2>3. CASE thread[u].pc \notin StartPhases
    <3>1. thread[u].job # j
      BY <1>2, <1>3, <2>3, StandingJob
    <3>2. j \in Jobs
      BY <1>1, StarterFacts
    <3> QED
      BY <2>1, <3>1, <3>2
  <2> QED
    BY <2>2, <2>3
<1> QED
  BY <1>3, <1>4

LEMMA StartPersistSafe ==
  ASSUME Inv, Typed', NEW c \in Callers, StartPersist(c)
  PROVE  Inv'
<1>0. Starting(c) /\ Starter(c) /\ ~Withdrawing(c)
  BY DEF StartPersist, Starter, Starting, Withdrawing
<1> PICK j \in Jobs, b \in Bridges : j = thread[c].job /\ b = Home[c]
  BY <1>0, StarterFacts
<1> DEFINE w == Watcher(j, 1)
<1>1. /\ c \in Threads /\ c \notin Jobs /\ j \in Threads /\ j \notin Callers
      /\ disk[j] = Absent /\ owner[j] = b /\ agy[j][1] # "none" /\ j \notin withdrawn
      /\ mem[b][j].state = "running" /\ mem[b][j].attempts = 1 /\ mem[b][j].pid = 1
      /\ \A a \in Attempts : a > 1 => agy[j][a] = "none"
  BY <1>0, StarterFacts DEF Threads
<1>2. /\ disk'[j] = mem[b][j] /\ \A k \in Jobs : k # j => disk'[k] = disk[k]
      /\ UNCHANGED <<mem, watched, agy, owner, finishes, withdrawn>>
  BY DEF StartPersist, Inv, Typed, TypeOK
<1>3. w.pc = "waiting" /\ w.job = j /\ w.pid = 1 /\ Idle.pc = "idle"
  BY IdleTyped DEF Watcher, Thread
<1> HIDE DEF w
<1>4. \A u \in Threads : /\ thread'[u] = IF u = j THEN w ELSE IF u = c THEN Idle ELSE thread[u]
                         /\ BridgeOf(u)' = BridgeOf(u)
  BY <1>1, <1>2 DEF StartPersist, Inv, Typed, TypeOK, w, BridgeOf
<1>5. /\ ~Aborted(j)
      /\ \A u \in Threads : u # c /\ thread[u].pc # "idle" =>
            thread[u].job \in Jobs /\ thread[u].job # j /\ u # j
  BY <1>0, StartingJob
<1>6. disk'[j] # Absent /\ disk'[j].state = "running" /\ ~EndedOnDisk(j) /\ ~EndedOnDisk(j)'
  BY <1>1, <1>2, AbsentState DEF EndedOnDisk, Terminal
<1>7. \A u \in Threads : thread'[u].pc \notin {"idle", "waiting"} =>
         u # c /\ u # j /\ thread'[u] = thread[u]
  BY <1>3, <1>4
<1>8. LocksInv'
  <2>1. \A u \in Threads : /\ HoldsFlock(u)' => HoldsFlock(u) /\ thread'[u] = thread[u]
                           /\ HoldsMutex(u)' => HoldsMutex(u)
    BY <1>7, LockPhases DEF FlockPhases
  <2> QED
    BY <1>4, <2>1 DEF Inv, LocksInv
<1>9. PublicInv'
  BY <1>1, <1>2, <1>6 DEF Inv, PublicInv
<1>10. /\ \A d \in Callers : /\ Starter(d)' => Starter(d) /\ d # c /\ thread'[d] = thread[d]
                             /\ Starter(d) /\ d # c => Starter(d)' /\ thread'[d] = thread[d]
                                  /\ thread[d].job \in Jobs /\ thread[d].job # j
                             /\ Starting(d)' => Starting(d)
                             /\ Withdrawing(d)' <=> Withdrawing(d)
       /\ \A k : Aborted(k)' <=> Aborted(k)
  <2>1. \A d \in Callers : d \in Threads /\ d # j
    BY <1>1 DEF Threads
  <2>2. \A d \in Callers : /\ Starter(d)' => Starter(d) /\ d # c /\ thread'[d] = thread[d]
                           /\ Starter(d) /\ d # c => Starter(d)' /\ thread'[d] = thread[d]
                                /\ thread[d].job \in Jobs /\ thread[d].job # j
                           /\ Starting(d)' => Starting(d)
                           /\ Withdrawing(d)' <=> Withdrawing(d)
    BY <1>0, <1>3, <1>4, <1>5, <2>1 DEF Starter, Starting, Withdrawing
  <2>3. \A d \in Callers : Withdrawing(d) => thread'[d] = thread[d]
    BY <1>0, <1>4, <2>1
  <2>4. \A k : Aborted(k)' <=> Aborted(k)
    BY <1>2, <2>2, <2>3 DEF Aborted
  <2> QED
    BY <2>2, <2>4
<1>11. MemoryInv'
  <2> SUFFICES ASSUME NEW d \in Bridges, NEW k \in Jobs, mem'[d][k] # Absent
               PROVE  /\ mem'[d][k].state # "absent"
                      /\ disk'[k] = Absent =>
                            \/ k \in withdrawn'
                            \/ \E e \in Callers : Starter(e)' /\ Home[e] = d /\ thread'[e].job = k
    BY DEF MemoryInv, Starter
  <2>1. /\ mem[d][k].state # "absent"
        /\ disk[k] = Absent =>
              \/ k \in withdrawn
              \/ \E e \in Callers : Starter(e) /\ Home[e] = d /\ thread[e].job = k
    BY <1>2 DEF Inv, MemoryInv, Starter
  <2>2. ASSUME disk'[k] = Absent
        PROVE  \/ k \in withdrawn'
               \/ \E e \in Callers : Starter(e)' /\ Home[e] = d /\ thread'[e].job = k
    <3>1. k # j /\ disk[k] = Absent
      BY <2>2, <1>2, <1>6
    <3> QED
      BY <2>1, <3>1, <1>2, <1>10
  <2> QED
    BY <2>1, <2>2, <1>2
<1>12. StarterInv'
  <2>1. ASSUME NEW d \in Callers, Starter(d)'
        PROVE  LET k == thread'[d].job  r == mem'[Home[d]][k] IN
               /\ owner'[k] = Home[d] /\ agy'[k][1] # "none" /\ k \notin withdrawn'
               /\ \A a \in Attempts : a > 1 => agy'[k][a] = "none"
               /\ Starting(d)' => /\ disk'[k] = Absent /\ k \in watched'[Home[d]]
                                  /\ r.state = "running" /\ r.attempts = 1 /\ r.pid = 1
    BY <2>1, <1>2, <1>10, StarterFacts
  <2>2. \A d, e \in Callers : Starter(d)' /\ Starter(e)' /\ thread'[d].job = thread'[e].job => d = e
    BY <1>10 DEF Inv, StarterInv, Starter
  <2> QED
    BY <2>1, <2>2 DEF StarterInv, Starter
<1>13. PhaseInv'
  <2> SUFFICES ASSUME NEW u \in Threads
               PROVE  PhaseOK(u)'
    BY DEF PhaseInv
  <2>1. CASE u = j
    BY <2>1, <1>1, <1>3, <1>4, <1>6 DEF PhaseOK
  <2>2. CASE u = c
    BY <2>2, <1>1, <1>3, <1>4 DEF PhaseOK
  <2>3. CASE u # c /\ u # j /\ thread[u].pc = "idle"
    BY <2>3, <1>4 DEF PhaseOK
  <2>4. CASE u # c /\ u # j /\ thread[u].pc # "idle"
    <3>1. thread'[u] = thread[u] /\ disk'[thread[u].job] = disk[thread[u].job] /\ PhaseOK(u)
      BY <2>4, <1>2, <1>4, <1>5 DEF Inv, PhaseInv
    <3> QED
      BY <3>1, <1>2, <1>4, <1>5, <1>10 DEF PhaseOK, EndedOnDisk, BridgeOf
  <2> QED
    BY <2>1, <2>2, <2>3, <2>4
<1>14. /\ \A u \in Threads : Concluding(u)' =>
             /\ Concluding(u) /\ thread'[u] = thread[u] /\ BridgeOf(u)' = BridgeOf(u)
             /\ thread[u].job \in Jobs /\ thread[u].job # j
       /\ \A u \in Threads : Concluding(u) =>
             thread[u].pc # "idle" /\ Concluding(u)' /\ thread'[u] = thread[u]
  BY <1>0, <1>4, <1>5, <1>7 DEF Concluding, Starting
<1>15. \A k \in Jobs : EndedOnDisk(k)' <=> EndedOnDisk(k)
  <2>1. \A k \in Jobs : k # j => EndedOnDisk(k)' <=> EndedOnDisk(k)
    BY <1>2 DEF EndedOnDisk
  <2> QED
    BY <2>1, <1>6
<1>16. ReportInv'
  <2>1. \A k \in Jobs : Over(k)' <=> Over(k)
    BY <1>2, <1>15 DEF Over
  <2> QED
    BY <1>2, <1>14, <2>1 DEF Inv, ReportInv
<1>17. AbortInv'
  <2>1. ASSUME NEW k \in Jobs, Aborted(k)
        PROVE  AbortOK(k)'
    <3>1. k # j /\ AbortOK(k) /\ disk'[k] = disk[k]
      BY <1>2, <1>5, <2>1 DEF Inv, AbortInv
    <3>2. \A u \in Threads : thread'[u].pc # "idle" /\ thread'[u].job = k => thread'[u] = thread[u]
      BY <1>3, <1>4, <3>1
    <3> QED
      BY <2>1, <3>1, <3>2, <1>2, <1>14, <1>15 DEF AbortOK, Live
  <2>2. \A d \in Callers : thread'[d].pc = "forgetting" => thread'[d] = thread[d]
    BY <1>1, <1>3, <1>4 DEF Threads
  <2>3. \A k \in Jobs : AbortOK(k)'
    BY <1>10, <2>1 DEF AbortOK
  <2> QED
    BY <1>2, <2>2, <2>3 DEF Inv, AbortInv, Live
<1>18. ASSUME NEW k \in Jobs, k # j
       PROVE  JobOK(k)'
  <2>1. thread'[k] = thread[k] /\ FreshOK(k) /\ LiveOK(k) /\ WatchOK(k) /\ disk'[k] = disk[k]
    BY <1>1, <1>2, <1>4, <1>18 DEF Threads, Inv, JobsInv, JobOK
  <2>2. FreshOK(k)'
    BY <2>1, <1>2 DEF FreshOK, EndedOnDisk
  <2>3. LiveOK(k)'
    BY <2>1, <1>2 DEF LiveOK, EndedOnDisk
  <2>4. WatchOK(k)'
    <3>1. \A e \in Callers : Starter(e) /\ thread[e].job = k => Starter(e)' /\ thread'[e] = thread[e]
      BY <1>10, <1>18
    <3> QED
      BY <2>1, <3>1, <1>2, <1>14 DEF WatchOK, EndedOnDisk, Starter
  <2> QED
    BY <2>2, <2>3, <2>4 DEF JobOK
<1>19. JobOK(j)'
  <2>1. FreshOK(j)'
    BY <1>1, <1>2, AbsentState DEF FreshOK
  <2>2. LiveOK(j) /\ WatchOK(j)
    BY DEF Inv, JobsInv, JobOK
  <2>3. \A a \in Attempts : agy[j][a] = "running" => a = 1
    BY <1>1, RegistryAssumption DEF Attempts
  <2>4. LiveOK(j)'
    BY <2>2, <2>3, <1>1, <1>2, <1>3, <1>4 DEF LiveOK
  <2>5. WatchOK(j)'
    BY <2>2, <1>1, <1>2, <1>3, <1>4, <1>14 DEF WatchOK
  <2> QED
    BY <2>1, <2>4, <2>5 DEF JobOK
<1> QED
  BY <1>8, <1>9, <1>11, <1>12, <1>13, <1>16, <1>17, <1>18, <1>19 DEF Inv, JobsInv

\* A job whose start fails, or has failed and is being taken back, is known to its
\* own bridge alone.
LEMMA WithdrawnJob ==
  ASSUME Inv, NEW c \in Callers, Starter(c), NEW j, j = thread[c].job
  PROVE  /\ disk[j] = Absent \/ EndedOnDisk(j)
         /\ \A b \in Bridges :
               /\ b # owner[j] => mem[b][j].state # "running"
               /\ j \in watched[b] => mem[b][j].state = "running" /\ b = owner[j]
               /\ b = owner[j] /\ mem[b][j].state = "running" => j \in watched[b]
         /\ \A t \in Threads : t # c /\ thread[t].pc # "idle" /\ thread[t].job = j =>
               /\ t \in Callers /\ Home[t] = owner[j]
               /\ thread[t].pc \in {"closing", "cancel", "cancelling", "publish", "signal", "notify"}
         /\ \/ EndedOnDisk(j)
            \/ finishes[j] > 0
            \/ \E t \in Threads : Concluding(t) /\ thread[t].job = j
            => \A b \in Bridges : b = owner[j] => mem[b][j].state \in Terminal
<1>1. j \in Jobs /\ owner[j] = Home[c] /\ Home[c] \in Bridges /\ j \notin withdrawn /\ c \in Threads
  BY StarterFacts
<1>2. CASE Starting(c)
  <2>1. /\ disk[j] = Absent /\ ~EndedOnDisk(j) /\ mem[Home[c]][j].state = "running"
        /\ j \in watched[Home[c]] /\ ~Withdrawing(c)
    BY <1>2, StarterFacts, AbsentState DEF EndedOnDisk, Terminal, Starting, Withdrawing
  <2>2. \A t \in Threads : t # c /\ thread[t].pc # "idle" => thread[t].job # j
    BY <1>2, StartingJob
  <2>3. \A d \in Callers : Starter(d) /\ thread[d].job = j => d = c
    BY DEF Inv, StarterInv, Starter
  <2>4. \A b \in Bridges : b # owner[j] => mem[b][j] = Absent
    BY <1>1, <2>1, <2>3 DEF Inv, MemoryInv, Starter
  <2>5. \A b \in Bridges : j \in watched[b] => b = owner[j]
    BY <1>1 DEF Inv, JobsInv, JobOK, WatchOK
  <2>6. ~(finishes[j] > 0)
    BY <1>1, <2>1 DEF Inv, ReportInv, Over
  <2>7. \A t \in Threads : Concluding(t) => thread[t].job # j
    BY <1>2, <2>2 DEF Concluding, Starting
  <2> QED
    BY <1>1, <2>1, <2>2, <2>4, <2>5, <2>6, <2>7, AbsentState
<1>3. CASE Withdrawing(c)
  <2>1. Aborted(j) /\ AbortOK(j)
    BY <1>1, <1>3 DEF Aborted, Inv, AbortInv
  <2>2. ASSUME NEW t \in Threads, t # c, thread[t].pc # "idle", thread[t].job = j
        PROVE  thread[t].pc \notin {"killing", "forgetting"}
    <3>1. t \in Callers
      BY <2>1, <2>2 DEF AbortOK
    <3> QED
      BY <2>2, <3>1 DEF Inv, StarterInv, Withdrawing, Starter
  <2>3. \A b \in Bridges : j \in watched[b] => b = owner[j]
    BY <1>1 DEF Inv, JobsInv, JobOK, WatchOK
  <2> QED
    BY <1>1, <2>1, <2>2, <2>3 DEF AbortOK
<1> QED
  BY <1>2, <1>3 DEF Starter

\* A step of start() after its _persist has raised.
WithdrawStep(c, pc) ==
    LET j == thread[c].job IN
    /\ thread' = [thread EXCEPT ![c] = Phase(c, pc)]
    /\ UNCHANGED <<mem, owner, finishes>>
    /\ AgyKeeps
    /\ \A k \in Jobs, a \in Attempts : k # j => agy'[k][a] = agy[k][a]
    /\ pc # "killing" => \A a \in Attempts : agy'[j][a] # "running"
    /\ \A k \in Jobs : k # j => disk'[k] = disk[k]
    /\ \/ disk'[j] = disk[j] /\ withdrawn' = withdrawn /\ pc # "closing"
       \/ disk'[j] = Absent /\ withdrawn' = withdrawn \cup {j} /\ pc = "closing"
    /\ \A b \in Bridges : watched'[b] \subseteq watched[b]
    /\ \A b \in Bridges, k \in Jobs : k # j => (k \in watched'[b] <=> k \in watched[b])
    /\ IF pc = "closing" THEN j \notin watched'[owner[j]] ELSE watched' = watched

LEMMA WithdrawSafe ==
  ASSUME Inv, Typed', NEW c \in Callers, Starter(c), NEW pc \in {"killing", "forgetting", "closing"},
         WithdrawStep(c, pc)
  PROVE  Inv'
<1> PICK j : j = thread[c].job
  OBVIOUS
<1> USE DEF WithdrawStep
<1>0. pc # "killing" => Live(j)' = {}
  BY DEF Live
<1>1. /\ j \in Jobs /\ c \in Threads /\ c \notin Jobs /\ Home[c] \in Bridges /\ j # c /\ j \in Threads
      /\ owner[j] = Home[c] /\ agy[j][1] # "none" /\ j \notin withdrawn
      /\ \A a \in Attempts : a > 1 => agy[j][a] = "none"
  BY StarterFacts DEF Threads
<1>2. Phase(c, pc).pc = pc /\ Phase(c, pc).job = j
  BY <1>1, PhaseTyped DEF Inv, Typed, TypeOK, Phases
<1>3. PICK th : th = Phase(c, pc)
  OBVIOUS
<1>4. \A u \in Threads : /\ thread'[u] = IF u = c THEN th ELSE thread[u]
                         /\ BridgeOf(u)' = BridgeOf(u)
  BY <1>3 DEF Inv, Typed, TypeOK, BridgeOf
<1>5. th.pc = pc /\ th.job = j /\ th.pc \notin FlockPhases /\ th.pc \notin {"spawned", "idle"}
  BY <1>2, <1>3 DEF FlockPhases
<1>6. LocksInv'
  <2>1. \A u \in Threads : /\ HoldsFlock(u)' => HoldsFlock(u) /\ thread'[u] = thread[u]
                           /\ HoldsMutex(u)' => HoldsMutex(u)
    BY <1>4, <1>5, LockPhases DEF FlockPhases
  <2> QED
    BY <1>4, <2>1 DEF Inv, LocksInv
<1>7. PublicInv'
  <2>1. \A k \in Jobs : disk'[k] = disk[k] \/ disk'[k] = Absent
    OBVIOUS
  <2>2. \A k \in Jobs, a \in Attempts : (agy'[k][a] = "none") <=> (agy[k][a] = "none")
    BY DEF AgyKeeps
  <2>3. 1 \in Attempts
    BY RegistryAssumption DEF Attempts
  <2> QED
    BY <2>1, <2>2, <2>3 DEF Inv, PublicInv
\* Who starts and who withdraws afterwards.
<1>8. /\ \A d \in Callers : d # c => /\ Starting(d)' <=> Starting(d)
                                     /\ Withdrawing(d)' <=> Withdrawing(d)
                                     /\ thread'[d] = thread[d]
      /\ ~Starting(c)' /\ (Withdrawing(c)' <=> pc # "closing") /\ thread'[c].job = j
      /\ \A d \in Callers : Starter(d)' => Starter(d) /\ thread'[d].job = thread[d].job
      /\ \A k : Aborted(k)' <=> Aborted(k) \/ k = j
  <2>1. \A d \in Callers : d \in Threads
    BY DEF Threads
  <2>2. \A d \in Callers : d # c => /\ Starting(d)' <=> Starting(d)
                                    /\ Withdrawing(d)' <=> Withdrawing(d)
                                    /\ thread'[d] = thread[d]
    BY <1>4, <2>1 DEF Starting, Withdrawing
  <2>3. ~Starting(c)' /\ (Withdrawing(c)' <=> pc # "closing") /\ thread'[c].job = j
    BY <1>1, <1>4, <1>5 DEF Starting, Withdrawing
  <2>4. \A d \in Callers : Starter(d)' => Starter(d) /\ thread'[d].job = thread[d].job
    BY <2>2, <2>3 DEF Starter
  <2>5. \A k : Aborted(k)' <=> Aborted(k) \/ k = j
    <3>1. CASE pc # "closing"
      BY <2>2, <2>3, <3>1 DEF Aborted
    <3>2. CASE pc = "closing"
      BY <2>2, <2>3, <3>2 DEF Aborted
    <3> QED
      BY <3>1, <3>2
  <2> QED
    BY <2>2, <2>3, <2>4, <2>5
<1>9. MemoryInv'
  <2> SUFFICES ASSUME NEW d \in Bridges, NEW k \in Jobs, mem'[d][k] # Absent
               PROVE  /\ mem'[d][k].state # "absent"
                      /\ disk'[k] = Absent =>
                            \/ k \in withdrawn'
                            \/ \E e \in Callers :
                                  (Starting(e)' \/ Withdrawing(e)') /\ Home[e] = d /\ thread'[e].job = k
    BY DEF MemoryInv
  <2>1. /\ mem[d][k].state # "absent"
        /\ disk[k] = Absent =>
              \/ k \in withdrawn
              \/ \E e \in Callers : (Starting(e) \/ Withdrawing(e)) /\ Home[e] = d /\ thread[e].job = k
    BY DEF Inv, MemoryInv
  <2>2. CASE k = j /\ pc = "closing"
    BY <2>1, <2>2
  <2>3. CASE k = j /\ pc # "closing"
    BY <1>8, <2>1, <2>3
  <2>4. CASE k # j
    BY <1>8, <2>1, <2>4
  <2> QED
    BY <2>2, <2>3, <2>4
<1>10. StarterInv'
  <2>1. ASSUME NEW d \in Callers, Starter(d)'
        PROVE  LET k == thread'[d].job  r == mem'[Home[d]][k] IN
               /\ owner'[k] = Home[d] /\ agy'[k][1] # "none" /\ k \notin withdrawn'
               /\ \A a \in Attempts : a > 1 => agy'[k][a] = "none"
               /\ Starting(d)' => /\ disk'[k] = Absent /\ k \in watched'[Home[d]]
                                  /\ r.state = "running" /\ r.attempts = 1 /\ r.pid = 1
    <3>0. 1 \in Attempts
      BY RegistryAssumption DEF Attempts
    <3>1. CASE d = c
      <4>1. pc # "closing"
        BY <1>8, <2>1, <3>1 DEF Starter
      <4> QED
        BY <1>1, <1>8, <3>0, <3>1, <4>1 DEF AgyKeeps
    <3>2. CASE d # c
      <4>1. /\ Starter(d) /\ thread'[d] = thread[d] /\ (Starting(d)' <=> Starting(d))
        BY <1>8, <2>1, <3>2
      <4>2. thread[d].job \in Jobs /\ thread[d].job # j
        BY <3>2, <4>1, StarterFacts DEF Inv, StarterInv, Starter
      <4> PICK k \in Jobs : k = thread[d].job
        BY <4>2
      <4>3. /\ owner[k] = Home[d] /\ agy[k][1] # "none" /\ k \notin withdrawn
            /\ \A a \in Attempts : a > 1 => agy[k][a] = "none"
            /\ Home[d] \in Bridges
            /\ Starting(d) => /\ disk[k] = Absent /\ k \in watched[Home[d]]
                              /\ mem[Home[d]][k].state = "running"
                              /\ mem[Home[d]][k].attempts = 1 /\ mem[Home[d]][k].pid = 1
        BY <4>1, StarterFacts
      <4> QED
        BY <3>0, <4>1, <4>2, <4>3
    <3> QED
      BY <3>1, <3>2
  <2>2. \A d, e \in Callers : Starter(d)' /\ Starter(e)' /\ thread'[d].job = thread'[e].job => d = e
    BY <1>8 DEF Inv, StarterInv, Starter
  <2> QED
    BY <2>1, <2>2 DEF StarterInv, Starter
<1>11. \A u \in Threads : u # c /\ thread[u].pc # "idle" /\ thread[u].job = j =>
          thread[u].pc \in {"closing", "cancel", "cancelling", "publish", "signal", "notify"}
  BY WithdrawnJob
<1>12. PhaseInv'
  <2> SUFFICES ASSUME NEW u \in Threads
               PROVE  PhaseOK(u)'
    BY DEF PhaseInv
  <2>1. CASE u = c
    BY <1>4, <1>5, <1>8, <2>1 DEF PhaseOK
  <2>2. CASE u # c /\ thread[u].pc = "idle"
    BY <1>4, <2>2 DEF PhaseOK
  <2>3. CASE u # c /\ thread[u].pc # "idle"
    <3>1. thread'[u] = thread[u] /\ BridgeOf(u)' = BridgeOf(u) /\ PhaseOK(u) /\ thread[u].job \in Jobs
      BY <1>4, <2>3, Busy DEF Inv, PhaseInv
    <3>2. CASE thread[u].job = j
      BY <1>8, <1>11, <2>3, <3>1, <3>2 DEF PhaseOK
    <3>3. CASE thread[u].job # j
      BY <1>8, <3>1, <3>3 DEF PhaseOK, EndedOnDisk
    <3> QED
      BY <3>2, <3>3
  <2> QED
    BY <2>1, <2>2, <2>3
<1>13. /\ \A u \in Threads : Concluding(u)' => Concluding(u) /\ thread'[u] = thread[u]
       /\ \A u \in Threads : Concluding(u) => thread[u].job \in Jobs /\ thread[u].pc # "idle"
  <2>1. \A u \in Threads : Concluding(u)' => Concluding(u) /\ thread'[u] = thread[u]
    BY <1>1, <1>4, <1>5 DEF Concluding
  <2>2. \A u \in Threads : Concluding(u) => thread[u].pc # "idle"
    BY DEF Concluding
  <2> QED
    BY <2>1, <2>2, Busy DEF Inv
<1>14. ReportInv'
  <2>1. \A k \in Jobs : Over(k) => Over(k)'
    <3> SUFFICES ASSUME NEW k \in Jobs, Over(k)
                 PROVE  Over(k)'
      OBVIOUS
    <3>1. CASE k = j /\ pc = "closing"
      BY <3>1 DEF Over
    <3>2. CASE k # j \/ pc # "closing"
      BY <3>2 DEF Over, EndedOnDisk
    <3> QED
      BY <3>1, <3>2
  <2> QED
    BY <1>13, <2>1 DEF Inv, ReportInv
<1>15. AbortInv'
  <2>1. ASSUME NEW k \in Jobs, k # j, Aborted(k)
        PROVE  AbortOK(k)'
    <3>1. AbortOK(k)
      BY <2>1 DEF Inv, AbortInv
    <3>2. /\ disk'[k] = disk[k] /\ (k \in withdrawn' <=> k \in withdrawn)
          /\ \A a \in Attempts : agy'[k][a] = agy[k][a]
          /\ \A d \in Bridges : k \in watched'[d] <=> k \in watched[d]
      BY <2>1
    <3>3. Live(k)' = Live(k)
      BY <3>2 DEF Live
    <3>4. \A u \in Threads : thread'[u].pc # "idle" /\ thread'[u].job = k => thread'[u] = thread[u]
      BY <1>4, <1>5, <2>1
    <3>5. 1 \in Attempts
      BY RegistryAssumption DEF Attempts
    <3> QED
      BY <2>1, <3>1, <3>2, <3>3, <3>4, <3>5, <1>13 DEF AbortOK, EndedOnDisk
  <2>2. AbortOK(j)'
    <3>1. disk'[j] = Absent \/ EndedOnDisk(j)'
      BY WithdrawnJob DEF EndedOnDisk
    <3>2. /\ \A b \in Bridges :
                /\ b # owner'[j] => mem'[b][j].state # "running"
                /\ j \in watched'[b] => mem'[b][j].state = "running"
                /\ b = owner'[j] /\ mem'[b][j].state = "running" => j \in watched'[b] \/ j \in withdrawn'
      BY WithdrawnJob
    <3>3. agy'[j][1] # "none" /\ \A a \in Attempts : a > 1 => agy'[j][a] = "none"
      BY <1>1, RegistryAssumption DEF AgyKeeps, Attempts
    <3>4. j \in withdrawn' => Live(j)' = {}
      BY <1>0, <1>1
    <3>5. \A t \in Threads : thread'[t].pc # "idle" /\ thread'[t].job = j =>
             /\ t \in Callers /\ Home[t] = owner'[j]
             /\ thread'[t].pc \in {"killing", "forgetting", "closing",
                                   "cancel", "cancelling", "publish", "signal", "notify"}
      BY <1>1, <1>4, <1>5, WithdrawnJob
    <3>6. \/ EndedOnDisk(j)'
          \/ finishes'[j] > 0
          \/ \E t \in Threads : Concluding(t)' /\ thread'[t].job = j
          => \A b \in Bridges : b = owner'[j] => mem'[b][j].state \in Terminal
      <4>1. EndedOnDisk(j)' => EndedOnDisk(j)
        BY AbsentState DEF EndedOnDisk, Terminal
      <4> QED
        BY <1>13, <4>1, WithdrawnJob
    <3> QED
      BY <3>1, <3>2, <3>3, <3>4, <3>5, <3>6 DEF AbortOK
  <2>3. \A d \in Callers : thread'[d].pc = "forgetting" =>
           {a \in Attempts : agy'[thread'[d].job][a] = "running"} = {}
    <3> SUFFICES ASSUME NEW d \in Callers, thread'[d].pc = "forgetting"
                 PROVE  {a \in Attempts : agy'[thread'[d].job][a] = "running"} = {}
      OBVIOUS
    <3>1. CASE d = c
      BY <1>0, <1>1, <1>4, <1>5, <3>1 DEF Live
    <3>2. CASE d # c
      <4>1. thread'[d] = thread[d] /\ Starter(d) /\ thread[d].pc = "forgetting"
        BY <1>8, <3>2 DEF Starter, Withdrawing
      <4>2. thread[d].job \in Jobs /\ thread[d].job # j
        BY <3>2, <4>1, StarterFacts DEF Inv, StarterInv, Starter
      <4>3. Live(thread[d].job) = {}
        BY <4>1 DEF Inv, AbortInv
      <4> QED
        BY <4>1, <4>2, <4>3 DEF Live
    <3> QED
      BY <3>1, <3>2
  <2>4. \A k \in Jobs : AbortOK(k)'
    <3> SUFFICES ASSUME NEW k \in Jobs PROVE AbortOK(k)'
      OBVIOUS
    <3>1. CASE k # j /\ ~Aborted(k)
      BY <1>8, <3>1 DEF AbortOK
    <3> QED
      BY <2>1, <2>2, <3>1
  <2> QED
    BY <2>3, <2>4 DEF AbortInv, Live
<1>16. ASSUME NEW k \in Jobs, k # j
       PROVE  JobOK(k)'
  <2>1. /\ thread'[k] = thread[k] /\ FreshOK(k) /\ LiveOK(k) /\ WatchOK(k)
        /\ owner'[k] = owner[k] /\ disk'[k] = disk[k] /\ k \in Threads
        /\ thread[k].pc # "idle" => owner[k] \in Bridges
    BY <1>1, <1>4, <1>16, Busy DEF Threads, Inv, JobsInv, JobOK, BridgeOf
  <2>2. \A d \in Bridges : mem'[d][k] = mem[d][k] /\ (k \in watched'[d] <=> k \in watched[d])
    BY <1>16
  <2>3. \A a \in Attempts : agy'[k][a] = agy[k][a]
    BY <1>16
  <2>4. FreshOK(k)'
    BY <2>1, <2>2, <2>3 DEF FreshOK, EndedOnDisk
  <2>5. LiveOK(k)'
    BY <2>1, <2>2, <2>3 DEF LiveOK, EndedOnDisk
  <2>6. WatchOK(k)'
    <3>1. \A e \in Callers : Starter(e) /\ thread[e].job = k => Starter(e)' /\ thread'[e] = thread[e]
      BY <1>8, <1>16 DEF Starter
    <3> QED
      BY <2>1, <2>2, <3>1, <1>4, <1>13 DEF WatchOK, EndedOnDisk, Starter
  <2> QED
    BY <2>4, <2>5, <2>6 DEF JobOK
<1>17. JobOK(j)'
  <2>1. thread'[j].pc = "idle"
    <3>1. thread[j].pc = "idle"
      BY <1>1, RegistryAssumption, WithdrawnJob, Busy DEF Inv
    <3> QED
      BY <1>1, <1>4, <3>1
  <2>2. FreshOK(j)'
    BY <2>1 DEF FreshOK
  <2>3. LiveOK(j) /\ WatchOK(j) /\ (EndedOnDisk(j)' => EndedOnDisk(j))
    BY <1>1, AbsentState DEF Inv, JobsInv, JobOK, EndedOnDisk, Terminal
  <2>4. LiveOK(j)'
    <3>1. \A a \in Attempts : agy[j][a] = "running" => a = 1
      BY <1>1, RegistryAssumption DEF Attempts
    <3>2. \A a, i \in Attempts : agy'[j][a] = "running" /\ agy'[j][i] = "running" => a = i
      BY <1>1, <3>1 DEF AgyKeeps
    <3>3. j \in watched'[owner'[j]] /\ owner'[j] \in Bridges => ~EndedOnDisk(j) /\ pc # "closing"
      BY <1>1, WithdrawnJob DEF Terminal
    <3>4. j \in watched'[owner'[j]] => \A a \in Attempts : agy'[j][a] = "running" => a = mem'[owner'[j]][j].pid
      BY <1>1, <2>3, <3>3 DEF LiveOK, AgyKeeps
    <3> QED
      BY <2>1, <3>2, <3>4 DEF LiveOK
  <2>5. WatchOK(j)'
    <3>1. ASSUME NEW b \in Bridges, j \in watched'[b]
          PROVE  /\ b = owner'[j] /\ mem'[b][j].state = "running" /\ pc # "closing"
                 /\ \A t \in Threads : Concluding(t)' => thread'[t].job # j
      <4>1. b = owner[j] /\ mem[b][j].state = "running" /\ pc # "closing"
        BY <3>1, <1>1, WithdrawnJob
      <4>2. \A t \in Threads : Concluding(t) => thread[t].job # j
        BY <4>1, WithdrawnJob DEF Terminal
      <4> QED
        BY <4>1, <4>2, <1>13
    <3> QED
      BY <3>1, <1>8 DEF WatchOK
  <2> QED
    BY <2>2, <2>4, <2>5 DEF JobOK
<1> QED
  BY <1>6, <1>7, <1>9, <1>10, <1>12, <1>14, <1>15, <1>16, <1>17 DEF Inv, JobsInv

LEMMA StartFailsSafe ==
  ASSUME Inv, Typed', NEW c \in Callers, StartRaises(c) \/ KillStarted(c) \/ StartForgets(c)
  PROVE  Inv'
<1>1. Starter(c)
  BY DEF StartRaises, KillStarted, StartForgets, Starter, Starting, Withdrawing
<1> PICK j \in Jobs, b \in Bridges : j = thread[c].job /\ b = Home[c]
  BY <1>1, StarterFacts
<1>2. /\ c \in Threads /\ 1 \in Attempts /\ owner[j] = b
      /\ agy[j][1] # "none" /\ \A a \in Attempts : a > 1 => agy[j][a] = "none"
  BY <1>1, StarterFacts, RegistryAssumption DEF Attempts
<1>3. CASE StartRaises(c)
  <2>1. WithdrawStep(c, "killing")
    BY <1>3 DEF StartRaises, WithdrawStep, AgyKeeps
  <2> QED
    BY <1>1, <2>1, WithdrawSafe
<1>4. CASE KillStarted(c)
  <2>1. agy' = [agy EXCEPT ![j] = [@ EXCEPT ![1] = "gone"]]
    BY <1>4 DEF KillStarted
  <2>2. \A k \in Jobs, a \in Attempts : agy'[k][a] = IF k = j /\ a = 1 THEN "gone" ELSE agy[k][a]
    BY <1>2, <2>1 DEF Inv, Typed, TypeOK
  <2>3. AgyKeeps /\ \A a \in Attempts : agy'[j][a] # "running"
    BY <1>2, <2>2, RegistryAssumption DEF AgyKeeps, Attempts
  <2>4. WithdrawStep(c, "forgetting")
    BY <1>4, <2>2, <2>3 DEF KillStarted, WithdrawStep
  <2> QED
    BY <1>1, <2>4, WithdrawSafe
<1>5. CASE StartForgets(c)
  <2>1. /\ watched' = [watched EXCEPT ![b] = @ \ {j}]
        /\ disk' = [disk EXCEPT ![j] = Absent]
        /\ agy' = agy /\ AgyKeeps
    BY <1>5 DEF StartForgets, AgyKeeps
  <2>2. /\ disk'[j] = Absent /\ \A k \in Jobs : k # j => disk'[k] = disk[k]
        /\ j \notin watched'[b] /\ \A d \in Bridges : watched'[d] \subseteq watched[d]
        /\ \A d \in Bridges, k \in Jobs : k # j => (k \in watched'[d] <=> k \in watched[d])
    BY <2>1 DEF Inv, Typed, TypeOK
  <2>3. \A a \in Attempts : agy'[j][a] # "running"
    BY <1>5, <2>1 DEF StartForgets, Inv, AbortInv, Live
  <2>4. WithdrawStep(c, "closing")
    BY <1>2, <1>5, <2>1, <2>2, <2>3 DEF StartForgets, WithdrawStep
  <2> QED
    BY <1>1, <2>4, WithdrawSafe
<1> QED
  BY <1>3, <1>4, <1>5

\* The last safety net of a watcher decides without the flock: what it leaves is
\* a job that its bridge no longer watches.
LEMMA ForceFailSafe ==
  ASSUME Inv, Typed', NEW j \in Jobs, NEW written \in BOOLEAN, ForceFail(j, written)
  PROVE  Inv'
<1>1. j \in Threads /\ thread[j].pc = "forcefail" /\ thread[j].job = j /\ BridgeOf(j) = owner[j]
  BY Busy DEF ForceFail, Threads, Inv, BridgeOf
<1>0. ~Aborted(j) /\ thread[j].pc \notin StartPhases
  BY <1>1, WatchersJob DEF StartPhases
<1> PICK b \in Bridges : b = owner[j]
  BY <1>0, <1>1, PublicJob
<1> DEFINE th == Phase(j, "closing")
           rec == mem[b][j]
           failed == EndedRecord(rec, "failed")
<1>2. disk[j] # Absent /\ disk[j].state # "absent" /\ failed.state = "failed" /\ MutexFree(b)
  BY <1>0, <1>1, PublicJob, EndedFields DEF Inv, PublicInv, ForceFail
<1>3. /\ mem' = [mem EXCEPT ![b] = [@ EXCEPT ![j] = failed]] \/ mem' = mem
      /\ disk' = [disk EXCEPT ![j] = failed] \/ disk' = disk
      /\ thread' = [thread EXCEPT ![j] = th]
      /\ watched' = [watched EXCEPT ![b] = @ \ {j}]
      /\ UNCHANGED <<agy, owner, finishes, withdrawn>>
  BY <1>1 DEF ForceFail
<1>4. th \in ThreadStates /\ th.pc = "closing" /\ th.job = j
  BY <1>1, PhaseTyped DEF Inv, Typed, TypeOK, Phases
<1> HIDE DEF failed, th
<1>5. /\ mem'[b][j] = failed \/ mem'[b][j] = mem[b][j]
      /\ disk'[j] = failed \/ disk'[j] = disk[j]
      /\ \A d \in Bridges, k \in Jobs : d # b \/ k # j => mem'[d][k] = mem[d][k]
      /\ \A k \in Jobs : k # j => disk'[k] = disk[k]
  <2>1. disk \in [Jobs -> Records] /\ mem \in [Bridges -> [Jobs -> Records]]
    BY DEF Inv, Typed, TypeOK
  <2>2. mem'[b][j] = failed \/ mem'[b][j] = mem[b][j]
    BY <1>3, <2>1
  <2>3. disk'[j] = failed \/ disk'[j] = disk[j]
    BY <1>3, <2>1
  <2>4. \A d \in Bridges, k \in Jobs : d # b \/ k # j => mem'[d][k] = mem[d][k]
    BY <1>3, <2>1
  <2>5. \A k \in Jobs : k # j => disk'[k] = disk[k]
    BY <1>3, <2>1
  <2> QED
    BY <2>2, <2>3, <2>4, <2>5
<1>6. /\ j \notin watched'[b]
      /\ \A d \in Bridges : watched'[d] \subseteq watched[d]
      /\ \A k \in Jobs, d \in Bridges : k # j /\ k \in watched[d] => k \in watched'[d]
  BY <1>3 DEF Inv, Typed, TypeOK
<1>7. JobStep(j, th) /\ AgyGrows /\ AgyKeeps
  BY <1>0, <1>1, <1>3, <1>4, <1>5, <1>6 DEF JobStep, AgyGrows, AgyKeeps, StartPhases
<1>8. disk'[j].state # "absent" /\ (EndedOnDisk(j) => EndedOnDisk(j)')
  BY <1>2, <1>5 DEF EndedOnDisk, Terminal
<1>9. \A d \in Bridges : j \notin watched'[d]
  BY <1>0, <1>2, <1>6, WatchedFacts
<1>10. \A u \in Threads : BridgeOf(u) = b => ~HoldsMutex(u)
  BY <1>2 DEF MutexFree
<1>11. LocksInv'
  BY <1>1, <1>4, <1>7, StepLocks DEF FlockPhases
<1>12. PublicInv' /\ StarterInv'
  BY <1>0, <1>1, <1>7, <1>8, StepPublic, StepStarters
<1>13. MemoryStep(j)
  BY <1>1, <1>2, <1>5, <1>10 DEF MemoryStep
<1>14. MemoryInv'
  BY <1>1, <1>7, <1>8, <1>13, StepMemory
<1>15. PhaseInv'
  <2>1. PhaseOK(j)'
    BY <1>1, <1>4, <1>7, <1>8, AbsentState, StepThreads DEF PhaseOK
  <2>2. \A u \in Threads : u # j /\ thread[u].job = j => thread[u].pc # "respawned"
    BY DEF Inv, Typed, ThreadsInv, ThreadOK, Threads
  <2> QED
    BY <1>1, <1>7, <1>8, <1>13, <2>1, <2>2, StepPhases
<1>16. ReportInv'
  BY <1>1, <1>3, <1>4, <1>7, <1>8, StepReports
<1>17. AbortInv'
  BY <1>0, <1>1, <1>7, StepAborts
<1>18. JobOK(j)'
  <2>1. thread'[j].pc = "closing"
    BY <1>1, <1>4, <1>7, StepThreads
  <2>2. FreshOK(j)' /\ WatchOK(j)'
    BY <1>9, <2>1 DEF FreshOK, WatchOK
  <2>3. LiveOK(j)'
    BY <1>1, <1>3, <1>7, <1>8, <1>9, StepLive
  <2> QED
    BY <2>2, <2>3 DEF JobOK
<1>19. JobsInv'
  BY <1>1, <1>7, <1>18, StepJobs
<1> QED
  BY <1>11, <1>12, <1>14, <1>15, <1>16, <1>17, <1>19 DEF Inv

----------------------------------------------------------------------------

LEMMA InitSafe == Init => Inv
<1> SUFFICES ASSUME Init PROVE Inv
  OBVIOUS
<1>1. Typed
  BY InitTyped
<1>2. \A t \in Threads : thread[t].pc = "idle"
  BY IdleTyped DEF Init
<1>3. (\A c \in Callers : c \in Threads) /\ (\A j \in Jobs : j \in Threads)
  BY DEF Threads
<1>4. LocksInv /\ PhaseInv
  BY <1>2 DEF LocksInv, HoldsFlock, HoldsMutex, Holds, PhaseInv, PhaseOK
<1>5. StarterInv /\ AbortInv
  <2>1. \A c \in Callers : ~Starting(c) /\ ~Withdrawing(c) /\ thread[c].pc # "forgetting"
    BY <1>2, <1>3 DEF Starting, Withdrawing
  <2>2. \A j \in Jobs : ~Aborted(j)
    BY <2>1 DEF Init, Aborted
  <2> QED
    BY <2>1, <2>2 DEF StarterInv, AbortInv, AbortOK
<1>6. PublicInv /\ MemoryInv
  BY DEF Init, PublicInv, MemoryInv
<1>7. ReportInv
  BY <1>2 DEF Init, ReportInv, Concluding
<1>8. JobsInv
  <2>1. \A j \in Jobs : FreshOK(j)
    BY <1>2, <1>3 DEF FreshOK
  <2>2. \A j \in Jobs : LiveOK(j) /\ WatchOK(j)
    BY DEF Init, LiveOK, WatchOK
  <2> QED
    BY <2>1, <2>2 DEF JobsInv, JobOK
<1> QED
  BY <1>1, <1>4, <1>5, <1>6, <1>7, <1>8 DEF Inv

LEMMA NextSafe ==
  ASSUME Inv, Next
  PROVE  Inv'
<1>1. Typed'
  BY SafeStarters, NextTyped DEF Inv
<1>2. ASSUME NEW t \in Threads, FinalizeStep(t) \/ RetryFails(t) \/ FinalizeFails(t) \/ CloseServer(t)
      PROVE  Inv'
  <2>1. CASE ReadOutput(t) \/ TakeFirst(t) \/ FinalizeAdopts(t) \/ FinalizeRetries(t)
             \/ RetryPersist(t) \/ Publish(t) \/ Signal(t) \/ Notify(t)
    BY <1>1, <2>1, ReadOutputSafe, TakeFirstSafe, FinalizeAdoptsSafe, FinalizeRetriesSafe,
       RetryPersistSafe, PublishSafe, SignalSafe, NotifySafe
  <2>2. CASE FinalizeReenters(t) \/ FinalizeFails(t) \/ CloseServer(t)
    BY <1>1, <2>2, FinalizeReentersSafe, FinalizeFailsSafe, CloseServerSafe
  <2>3. CASE FinalizeEnds(t) \/ RetryFails(t)
    <3>1. PICK s \in Terminal : Commit(t, s, 0)
      BY <2>3 DEF FinalizeEnds, RetryFails, Outcome, Terminal
    <3>2. /\ thread[t].pc = "finalizing" /\ CanLock(t) /\ ~EndedOnDisk(thread[t].job)
          /\ Known(BridgeOf(t), thread[t].job).state = "running"
      BY <2>3 DEF FinalizeEnds, RetryFails, Finalizing
    <3> QED
      BY <1>1, <3>1, <3>2, CommitSafe, RegistryAssumption
  <2> QED
    BY <1>2, <2>1, <2>2, <2>3 DEF FinalizeStep, FinalizeGoesOn
<1>3. ASSUME NEW c \in Callers, CancelCommits(c)
      PROVE  Inv'
  <2>1. c \in Threads /\ c \notin Jobs /\ thread[c].pc = "cancelling" /\ BridgeOf(c) = Home[c]
    BY <1>3, RegistryAssumption DEF CancelCommits, Threads, BridgeOf
  <2>2. Home[c] \in Bridges /\ thread[c].job \in Jobs
    BY <2>1, StandingJob, RegistryAssumption DEF StartPhases
  <2>3. PidToKill(Home[c], thread[c].job) \in 0..MaxAttempts
    BY <2>2, Stored, RecordFields, RegistryAssumption DEF PidToKill, Inv
  <2>4. /\ CanLock(c) /\ ~EndedOnDisk(thread[c].job)
        /\ Known(BridgeOf(c), thread[c].job).state = "running"
        /\ Commit(c, "cancelled", PidToKill(Home[c], thread[c].job))
    BY <1>3, <2>1, AbsentState DEF CancelCommits, Known
  <2> QED
    BY <1>1, <2>1, <2>3, <2>4, CommitSafe DEF Terminal
<1>4. ASSUME NEW c \in Callers,
             Calls(c) \/ CallStep(c) \/ StartRaises(c) \/ KillStarted(c) \/ StartForgets(c)
      PROVE  Inv'
  BY <1>1, <1>3, <1>4, StartSpawnSafe, GetSafe, StartPersistSafe, ProbeSafe,
     CancelFindsEndedSafe, StartFailsSafe DEF Calls, CallStep
<1>5. ASSUME NEW j \in Jobs, WatchStep(j) \/ ForceFailStep(j)
      PROVE  Inv'
  BY <1>1, <1>5, WatchSafe, ForceFailSafe DEF ForceFailStep
<1>6. ASSUME NEW b \in Bridges, Crash(b) \/ Restart(b)
      PROVE  Inv'
  BY <1>1, <1>6, DieSafe, RestartSafe DEF Crash
<1> QED
  BY <1>1, <1>2, <1>4, <1>5, <1>6, ProcessSafe DEF Next, SoundStep, FileFault, FinalizeStep

LEMMA StutterSafe == Inv /\ UNCHANGED vars => Inv'
<1> SUFFICES ASSUME Inv, UNCHANGED vars PROVE Inv'
  OBVIOUS
<1>1. Typed'
  BY DEF vars, Inv, Typed, TypeOK, ThreadsInv, ThreadOK, BridgeOf
<1> QED
  BY <1>1, UnnoticedSafe DEF vars, AgyKeeps

\* The inductive invariant holds in every state, whichever operations raise: locks
\* have one holder, a job that is not public is known to its starter's bridge alone,
\* its records agree with the phases of the threads that work for it, its end is
\* reported by one thread, its next attempt was never used, the one process it may
\* have is the one its watcher waits for, a watched job has a thread, and a job
\* whose start() failed is ended by a cancel of its own bridge at most, which the
\* window of jobs.py:299-310 lets in.
THEOREM RegistrySafe == Spec => []Inv
<1>1. Inv /\ [Next]_vars => Inv'
  BY NextSafe, StutterSafe
<1> QED
  BY <1>1, InitSafe, PTL DEF Spec

LEMMA InvReports == Inv => FinishedOnce
BY DEF Inv, Typed, TypeOK, ReportInv, FinishedOnce

\* However many bridges, callers, jobs, retries, crashes and file errors: on_complete
\* is called at most once for a job (jobs.py:503-513), and the end it reports is on
\* disk, except that of a job whose start() failed: there start() may have removed
\* the end that a cancel published between jobs.py:299 and 310.
THEOREM ReportedOnce == Spec => []FinishedOnce
BY InvReports, RegistrySafe, PTL

\* A set with at most one element.
LEMMA OneElement ==
  ASSUME NEW S, \A x, y \in S : x = y
  PROVE  Cardinality(S) <= 1
<1>1. CASE S = {}
  BY <1>1, FS_EmptySet
<1>2. CASE S # {}
  <2>1. PICK x \in S : S = {x}
    BY <1>2
  <2> QED
    BY <2>1, FS_Singleton
<1> QED
  BY <1>1, <1>2

LEMMA InvOneLive == Inv => OneLiveProcess
<1> SUFFICES ASSUME Inv, NEW j \in Jobs
             PROVE  Cardinality(Live(j)) <= 1
  BY DEF OneLiveProcess
<1>1. \A x, y \in Live(j) : x = y
  BY DEF Inv, JobsInv, JobOK, LiveOK, Live
<1> QED
  BY <1>1, OneElement

\* The retry of jobs.py:447-483 never runs beside the process it replaces, and no
\* other bridge starts one: at most one agy of a job writes to its stdout file.
THEOREM OneLive == Spec => []OneLiveProcess
BY InvOneLive, RegistrySafe, PTL

LEMMA InvServed == Inv => WatchedIsServed
<1> SUFFICES ASSUME Inv, NEW b \in Bridges, NEW j \in watched[b]
             PROVE  \/ thread[j].pc # "idle" /\ owner[j] = b
                    \/ \E c \in Callers : Home[c] = b /\ thread[c].job = j /\ Starter(c)
  BY DEF WatchedIsServed, Starter
<1>1. j \in Jobs
  BY DEF Inv, Typed, TypeOK
<1>2. WatchOK(j)
  BY <1>1 DEF Inv, JobsInv, JobOK
<1>3. \A c \in Callers : Starter(c) => Home[c] = owner[thread[c].job]
  BY StarterFacts
<1> QED
  BY <1>2, <1>3 DEF WatchOK, Starter

\* A job never stays in _watched of a bridge that has no thread for it, file errors
\* included: get() of that bridge would call it running for ever (jobs.py:366-369).
THEOREM WatchedServed == Spec => []WatchedIsServed
BY InvServed, RegistrySafe, PTL

----------------------------------------------------------------------------
\* JobRegistry implements JobLifecycle: spawning is Spawn, the first persist is
\* Announce, the publication of an end is Conclude, on_complete is Report, and every
\* other step leaves the reader's view alone.

\* What the mapping to JobLifecycle looks at.
LEMMA SameView ==
  ASSUME \A j \in Jobs : disk'[j].state = disk[j].state,
         \A j \in Jobs, a \in Attempts : (agy'[j][a] = "none") <=> (agy[j][a] = "none"),
         \A j \in Jobs : (finishes'[j] > 0) <=> (finishes[j] > 0)
  PROVE  UNCHANGED Lifecycle!vars
<1>1. [j \in Jobs |-> disk[j].state]' = [j \in Jobs |-> disk[j].state]
  OBVIOUS
<1>2. [j \in Jobs |-> {a \in Attempts : agy[j][a] # "none"}]'
         = [j \in Jobs |-> {a \in Attempts : agy[j][a] # "none"}]
  OBVIOUS
<1>3. {j \in Jobs : finishes[j] > 0}' = {j \in Jobs : finishes[j] > 0}
  OBVIOUS
<1> QED
  BY <1>1, <1>2, <1>3 DEF Lifecycle!vars

LEMMA ViewSpawn ==
  ASSUME NEW j \in Jobs, NEW a \in Attempts, agy[j][a] = "none", ~EndedOnDisk(j),
         \A k \in Jobs, i \in Attempts :
             (agy'[k][i] # "none") <=> (agy[k][i] # "none" \/ (k = j /\ i = a)),
         UNCHANGED <<disk, finishes>>
  PROVE  Lifecycle!Spawn(j, a)
<1> DEFINE spawned == [k \in Jobs |-> {i \in Attempts : agy[k][i] # "none"}]
<1>1. ~Lifecycle!Ended(j)
  BY DEF EndedOnDisk, Terminal, Lifecycle!Ended, Lifecycle!Outcomes
<1>2. spawned' = [spawned EXCEPT ![j] = @ \cup {a}]
  OBVIOUS
<1> QED
  BY <1>1, <1>2 DEF Lifecycle!Spawn

LEMMA ViewState ==
  ASSUME NEW j \in Jobs, NEW s, disk[j].state # "absent" \/ agy[j][1] # "none",
         disk'[j].state = s, \A k \in Jobs : k # j => disk'[k] = disk[k],
         UNCHANGED <<agy, finishes>>,
         \/ disk[j].state = "absent" /\ s = "running"
         \/ disk[j].state = "running" /\ s \in Terminal
  PROVE  Lifecycle!Next
<1> DEFINE state == [k \in Jobs |-> disk[k].state]
<1>1. state' = [state EXCEPT ![j] = s] /\ state[j] = disk[j].state
  OBVIOUS
<1>2. CASE disk[j].state = "absent"
  <2>1. 1 \in Attempts
    BY RegistryAssumption DEF Attempts
  <2>2. Lifecycle!Announce(j)
    BY <1>1, <1>2, <2>1 DEF Lifecycle!Announce
  <2> QED
    BY <2>2 DEF Lifecycle!Next
<1>3. CASE disk[j].state = "running"
  <2>1. Lifecycle!Conclude(j, s)
    BY <1>1, <1>3 DEF Lifecycle!Conclude
  <2> QED
    BY <1>3, <2>1 DEF Lifecycle!Next, Lifecycle!Outcomes, Terminal
<1> QED
  BY <1>2, <1>3

LEMMA ViewReport ==
  ASSUME NEW j \in Jobs, EndedOnDisk(j), finishes[j] = 0, finishes'[j] = 1,
         \A k \in Jobs : k # j => finishes'[k] = finishes[k],
         UNCHANGED <<disk, agy>>
  PROVE  Lifecycle!Report(j)
<1> DEFINE reported == {k \in Jobs : finishes[k] > 0}
<1>1. reported' = reported \cup {j} /\ j \notin reported
  OBVIOUS
<1>2. Lifecycle!Ended(j)
  BY DEF EndedOnDisk, Terminal, Lifecycle!Ended, Lifecycle!Outcomes
<1> QED
  BY <1>1, <1>2 DEF Lifecycle!Report

----------------------------------------------------------------------------
\* While file operations succeed nobody ends a job behind the back of the thread
\* that holds its flock, and no start() takes anything back.

FaultPhases == {"killing", "forgetting", "closing", "forcefail"}

LEMMA QuietPhases ==
  Undisturbed <=> /\ withdrawn = {}
                  /\ \A t \in Threads :
                        /\ thread[t].pc \notin FaultPhases
                        /\ thread[t].pc = "publish" => ~EndedOnDisk(thread[t].job)
  BY DEF Undisturbed, FaultPhases

LEMMA QuietStep ==
  ASSUME Undisturbed, UNCHANGED <<disk, withdrawn>>,
         \A t \in Threads : thread'[t].pc \in FaultPhases \cup {"publish"} => thread'[t] = thread[t]
  PROVE  Undisturbed'
  BY DEF Undisturbed, EndedOnDisk, FaultPhases

\* Only the thread that publishes the end of a job ends it on disk.
LEMMA DiskStepQuiet ==
  ASSUME Inv, Undisturbed, NEW j \in Jobs,
         \A k \in Jobs : k # j => disk'[k] = disk[k], UNCHANGED withdrawn,
         \A t \in Threads : thread'[t].pc \in FaultPhases \cup {"publish"} =>
             /\ thread'[t] = thread[t]
             /\ thread[t].job = j => ~EndedOnDisk(j)'
  PROVE  Undisturbed'
<1>1. \A t \in Threads : thread[t].pc = "publish" => thread[t].job \in Jobs
  BY StandingJob DEF StartPhases
<1>2. \A k \in Jobs : k # j => EndedOnDisk(k)' = EndedOnDisk(k)
  BY DEF EndedOnDisk
<1> SUFFICES ASSUME NEW t \in Threads
             PROVE  /\ thread'[t].pc \notin FaultPhases
                    /\ thread'[t].pc = "publish" => disk'[thread'[t].job].state \notin Terminal
  BY DEF Undisturbed, EndedOnDisk, FaultPhases
<1>3. thread'[t].pc \notin FaultPhases
  BY QuietPhases
<1>4. ASSUME thread'[t].pc = "publish"
      PROVE  disk'[thread'[t].job].state \notin Terminal
  BY <1>1, <1>2, <1>4 DEF Undisturbed, EndedOnDisk
<1> QED
  BY <1>3, <1>4

LEMMA CommitQuiet ==
  ASSUME Inv, Undisturbed, NEW t \in Threads, thread[t].pc # "idle", ~EndedOnDisk(thread[t].job),
         NEW s, NEW kill, Commit(t, s, kill)
  PROVE  Undisturbed'
<1> DEFINE th == Thread("publish", thread[t].op, thread[t].job, kill)
<1>1. th.pc = "publish" /\ th.job = thread[t].job
  BY DEF Thread
<1> HIDE DEF th
<1>2. /\ disk' = disk /\ withdrawn' = withdrawn
      /\ \A u \in Threads : thread'[u] = IF u = t THEN th ELSE thread[u]
  BY DEF Commit, Inv, Typed, TypeOK, th
<1> QED
  BY <1>1, <1>2 DEF Undisturbed, EndedOnDisk

LEMMA PublishQuiet ==
  ASSUME Inv, Undisturbed, NEW t \in Threads, Publish(t)
  PROVE  Undisturbed'
<1> PICK j \in Jobs : j = thread[t].job
  BY StandingJob DEF Publish, StartPhases
<1>1. thread[t] \in ThreadStates /\ AfterPublish(t) \in {"signal", "notify"} /\ thread[t].pc = "publish"
  BY Busy DEF Inv, Publish, AfterPublish
<1>2. Phase(t, AfterPublish(t)).pc \in {"signal", "notify"}
  BY <1>1, PhaseTyped DEF Phases
<1>3. \A u \in Threads : thread'[u] = IF u = t THEN Phase(t, AfterPublish(t)) ELSE thread[u]
  BY DEF Publish, Inv, Typed, TypeOK
<1>4. withdrawn' = withdrawn /\ \A k \in Jobs : k # j => disk'[k] = disk[k]
  BY DEF Publish, Inv, Typed, TypeOK
<1>5. \A u \in Threads : u # t /\ thread[u].pc = "publish" => thread[u].job # j
  BY <1>1, LockPhases DEF Inv, LocksInv, FlockPhases
<1>6. \A u \in Threads : thread'[u].pc \in FaultPhases \cup {"publish"} =>
         thread'[u] = thread[u] /\ thread[u].job # j
  BY <1>2, <1>3, <1>5, QuietPhases DEF FaultPhases
<1> QED
  BY <1>4, <1>6, DiskStepQuiet

LEMMA RetryPersistQuiet ==
  ASSUME Inv, Undisturbed, NEW t \in Threads, RetryPersist(t)
  PROVE  Undisturbed'
<1> PICK j \in Jobs, b \in Bridges : j = thread[t].job /\ b = BridgeOf(t)
  BY StandingJob DEF RetryPersist, StartPhases
<1> DEFINE w == Watcher(j, mem[b][j].pid)
<1>1. w.pc = "waiting"
  BY DEF Watcher, Thread
<1> HIDE DEF w
<1>2. /\ withdrawn' = withdrawn
      /\ \A u \in Threads : thread'[u] = IF u = t THEN w ELSE thread[u]
      /\ \A k \in Jobs : disk'[k] = IF k = j THEN mem[b][j] ELSE disk[k]
  BY DEF RetryPersist, Inv, Typed, TypeOK, w
<1>3. mem[b][j].state = "running"
  BY DEF RetryPersist, Inv, PhaseInv, PhaseOK
<1>4. ~EndedOnDisk(j)'
  BY <1>2, <1>3 DEF EndedOnDisk, Terminal
<1> QED
  BY <1>1, <1>2, <1>4, QuietPhases, DiskStepQuiet DEF FaultPhases

LEMMA StartPersistQuiet ==
  ASSUME Inv, Undisturbed, NEW c \in Callers, StartPersist(c)
  PROVE  Undisturbed'
<1> PICK j \in Jobs, b \in Bridges : j = thread[c].job /\ b = Home[c]
  BY StarterFacts DEF StartPersist, Starting, Starter, Withdrawing
<1> DEFINE w == Watcher(j, 1)
<1>1. w.pc = "waiting" /\ Idle.pc = "idle"
  BY IdleTyped DEF Watcher, Thread
<1> HIDE DEF w
<1>2. /\ withdrawn' = withdrawn
      /\ \A u \in Threads : thread'[u] = IF u = j THEN w ELSE IF u = c THEN Idle ELSE thread[u]
      /\ \A k \in Jobs : disk'[k] = IF k = j THEN mem[b][j] ELSE disk[k]
  BY RegistryAssumption DEF StartPersist, Inv, Typed, TypeOK, w, Threads
<1>3. mem[b][j].state = "running"
  BY StarterFacts DEF StartPersist, Starting, Starter, Withdrawing
<1>4. ~EndedOnDisk(j)'
  BY <1>2, <1>3 DEF EndedOnDisk, Terminal
<1> QED
  BY <1>1, <1>2, <1>4, QuietPhases, DiskStepQuiet DEF FaultPhases

LEMMA UndisturbedSafe ==
  ASSUME "io" \notin Faults, Inv, Undisturbed, Next
  PROVE  Undisturbed'
<1>1. thread \in [Threads -> ThreadStates]
  BY DEF Inv, Typed, TypeOK
<1>2. ASSUME NEW t \in Threads, NEW pc, pc \notin FaultPhases \cup {"publish"},
             thread' = [thread EXCEPT ![t] = Phase(t, pc)], UNCHANGED <<disk, withdrawn>>
      PROVE  Undisturbed'
  <2>1. Phase(t, pc).pc = pc
    BY <1>1 DEF Phase, ThreadStates
  <2> QED
    BY <1>1, <1>2, <2>1, QuietStep
<1>3. ASSUME NEW t \in Threads, Return(t), UNCHANGED <<disk, withdrawn>>
      PROVE  Undisturbed'
  BY <1>1, <1>3, IdleTyped, QuietStep DEF Return, FaultPhases
<1>4. ASSUME NEW t \in Threads, FinalizeStep(t) \/ RetryFails(t) \/ FinalizeFails(t) \/ CloseServer(t)
      PROVE  Undisturbed'
  <2>1. CASE ReadOutput(t)
    <3>1. UNCHANGED <<disk, withdrawn>> /\ \A u \in Threads : u # t => thread'[u] = thread[u]
      BY <1>1, <2>1 DEF ReadOutput
    <3>2. thread'[t].pc = "finalize"
      BY <1>1, <2>1 DEF ReadOutput
    <3> QED
      BY <3>1, <3>2, QuietStep DEF FaultPhases
  <2>2. CASE FinalizeAdopts(t) \/ FinalizeReenters(t) \/ Notify(t)
    BY <1>3, <2>2 DEF FinalizeAdopts, FinalizeReenters, Notify
  <2>3. CASE FinalizeRetries(t) \/ Signal(t) \/ TakeFirst(t)
    <3>1. PICK pc \in {"respawned", "notify", "finalizing", "cancelling"} :
             thread' = [thread EXCEPT ![t] = Phase(t, pc)] /\ UNCHANGED <<disk, withdrawn>>
      BY <2>3 DEF FinalizeRetries, Signal, TakeFirst
    <3> QED
      BY <1>2, <3>1 DEF FaultPhases
  <2>4. CASE FinalizeEnds(t) \/ RetryFails(t)
    <3>1. thread[t].pc # "idle" /\ ~EndedOnDisk(thread[t].job)
      BY <2>4 DEF FinalizeEnds, RetryFails, Finalizing
    <3> QED
      BY <2>4, <3>1, CommitQuiet DEF FinalizeEnds, RetryFails
  <2>5. ~FinalizeFails(t) /\ ~CloseServer(t)
    BY DEF FinalizeFails, CloseServer, Undisturbed
  <2> QED
    BY <1>4, <2>1, <2>2, <2>3, <2>4, <2>5, PublishQuiet, RetryPersistQuiet DEF FinalizeStep, FinalizeGoesOn
<1>5. ASSUME NEW c \in Callers, NEW op, NEW j, NEW rec, Proceed(c, op, j, rec),
             UNCHANGED <<disk, withdrawn>>
      PROVE  Undisturbed'
  <2>1. c \in Threads
    BY DEF Threads
  <2>2. PICK th \in {Thread("cancel", op, j, 0), Idle} : thread' = [thread EXCEPT ![c] = th]
    BY <1>5 DEF Proceed
  <2>3. th.pc \in {"cancel", "idle"}
    BY <2>2, IdleTyped DEF Thread
  <2> QED
    BY <1>1, <1>5, <2>1, <2>2, <2>3, QuietStep DEF FaultPhases
<1>6. ASSUME NEW c \in Callers,
             Calls(c) \/ CallStep(c) \/ StartRaises(c) \/ KillStarted(c) \/ StartForgets(c)
      PROVE  Undisturbed'
  <2>1. c \in Threads
    BY DEF Threads
  <2>2. ASSUME NEW j \in Jobs, NEW served \in BOOLEAN, StartSpawn(c, j, served)
        PROVE  Undisturbed'
    <3>1. Thread("spawned", "start", j, 0).pc = "spawned"
      BY DEF Thread
    <3> QED
      BY <1>1, <2>1, <2>2, <3>1, QuietStep DEF StartSpawn, FaultPhases
  <2>3. ASSUME NEW j \in Jobs, NEW op \in {"get", "cancel"}, Get(c, op, j)
        PROVE  Undisturbed'
    <3> PICK rec : rec = Current(Home[c], j)
      OBVIOUS
    <3>1. CASE Proceed(c, op, j, rec)
      BY <1>5, <2>3, <3>1 DEF Get
    <3>2. CASE thread' = [thread EXCEPT ![c] = Thread("probe", op, j, rec.pid)]
      <4>1. Thread("probe", op, j, rec.pid).pc = "probe"
        BY DEF Thread
      <4> QED
        BY <1>1, <2>1, <2>3, <3>2, <4>1, QuietStep DEF Get, FaultPhases
    <3> QED
      BY <2>3, <3>1, <3>2 DEF Get
  <2>4. CASE Probe(c)
    BY <1>2, <1>5, <2>1, <2>4 DEF Probe, FaultPhases
  <2>5. CASE CancelFindsEnded(c)
    BY <1>3, <2>1, <2>5 DEF CancelFindsEnded
  <2>6. CASE CancelCommits(c)
    BY <2>1, <2>6, CommitQuiet DEF CancelCommits
  <2>7. ~StartRaises(c) /\ ~KillStarted(c) /\ ~StartForgets(c)
    BY <2>1 DEF StartRaises, KillStarted, StartForgets, Undisturbed
  <2> QED
    BY <1>6, <2>2, <2>3, <2>4, <2>5, <2>6, <2>7, StartPersistQuiet DEF Calls, CallStep
<1>7. ASSUME NEW j \in Jobs, WatchStep(j) \/ ForceFailStep(j)
      PROVE  Undisturbed'
  <2>1. ~ForceFailStep(j)
    BY DEF ForceFailStep, ForceFail, Undisturbed, Threads
  <2>2. \A rc : Reaped(j, rc).pc = "readout"
    BY DEF Reaped
  <2>3. PICK rc : thread' = [thread EXCEPT ![j] = Reaped(j, rc)]
    BY <1>7, <2>1 DEF WatchStep, WatchReap, WatchTimeout
  <2>4. UNCHANGED <<disk, withdrawn>>
    BY <1>7, <2>1, WatchEffect
  <2> QED
    BY <1>1, <2>2, <2>3, <2>4, QuietStep DEF Threads, FaultPhases
<1>8. ASSUME ProcessExits
      PROVE  Undisturbed'
  BY <1>8, ProcessEffect, QuietStep
<1>9. ASSUME NEW b \in Bridges, Crash(b) \/ Restart(b)
      PROVE  Undisturbed'
  <2>1. UNCHANGED <<disk, withdrawn>> /\ \A t \in Threads : thread'[t] = thread[t] \/ thread'[t] = Idle
    BY <1>9 DEF Crash, Die, Restart
  <2> QED
    BY <2>1, IdleTyped, QuietStep DEF FaultPhases
<1> QED
  BY <1>4, <1>6, <1>7, <1>8, <1>9 DEF Next, SoundStep, FileFault, FinalizeStep

----------------------------------------------------------------------------

LEMMA InitRefines == Init => Lifecycle!Init
<1> SUFFICES ASSUME Init PROVE Lifecycle!Init
  OBVIOUS
<1>1. [j \in Jobs |-> disk[j].state] = [j \in Jobs |-> "absent"]
  BY AbsentState DEF Init
<1>2. [j \in Jobs |-> {a \in Attempts : agy[j][a] # "none"}] = [j \in Jobs |-> {}]
  BY DEF Init
<1>3. {j \in Jobs : finishes[j] > 0} = {}
  BY DEF Init
<1> QED
  BY <1>1, <1>2, <1>3 DEF Lifecycle!Init

LEMMA NextRefines ==
  ASSUME "io" \notin Faults, Inv, Undisturbed, Next
  PROVE  Lifecycle!Next \/ UNCHANGED Lifecycle!vars
<1>1. ASSUME UNCHANGED <<disk, finishes>>, AgyKeeps
      PROVE  UNCHANGED Lifecycle!vars
  BY <1>1, SameView DEF AgyKeeps
<1>2. ASSUME UNCHANGED <<disk, finishes, agy>>
      PROVE  UNCHANGED Lifecycle!vars
  BY <1>1, <1>2 DEF AgyKeeps
<1>3. ASSUME NEW c \in Callers, NEW j \in Jobs, NEW served \in BOOLEAN, StartSpawn(c, j, served)
      PROVE  Lifecycle!Next
  <2>1. agy[j][1] = "none" /\ ~EndedOnDisk(j) /\ 1 \in Attempts
    BY <1>3, AbsentState, RegistryAssumption DEF StartSpawn, EndedOnDisk, Terminal, Attempts
  <2>2. \A k \in Jobs, i \in Attempts :
           (agy'[k][i] # "none") <=> (agy[k][i] # "none" \/ (k = j /\ i = 1))
    BY <1>3, <2>1 DEF StartSpawn, Inv, Typed, TypeOK
  <2>3. UNCHANGED <<disk, finishes>>
    BY <1>3 DEF StartSpawn
  <2>4. Lifecycle!Spawn(j, 1)
    BY <2>1, <2>2, <2>3, ViewSpawn
  <2> QED
    BY <2>1, <2>4 DEF Lifecycle!Next, Lifecycle!Attempts, Attempts
<1>4. ASSUME NEW t \in Threads, FinalizeRetries(t)
      PROVE  Lifecycle!Next
  <2> PICK b \in Bridges, a \in Attempts : b = owner[t] /\ a = mem[b][t].attempts + 1
    BY <1>4, RetryEffect
  <2>1. t \in Jobs /\ ~EndedOnDisk(t) /\ agy[t][a] = "none"
    BY <1>4, RetryEffect DEF Attempts
  <2>2. \A k \in Jobs, i \in Attempts :
           (agy'[k][i] # "none") <=> (agy[k][i] # "none" \/ (k = t /\ i = a))
    BY <1>4, RetrySpawns
  <2>3. UNCHANGED <<disk, finishes>>
    BY <1>4 DEF FinalizeRetries
  <2>4. Lifecycle!Spawn(t, a)
    BY <2>1, <2>2, <2>3, ViewSpawn
  <2> QED
    BY <2>1, <2>4 DEF Lifecycle!Next, Lifecycle!Attempts, Attempts
<1>5. ASSUME NEW c \in Callers, StartPersist(c)
      PROVE  Lifecycle!Next
  <2> PICK j \in Jobs : j = thread[c].job
    BY <1>5, StarterFacts DEF StartPersist, Starting, Starter, Withdrawing
  <2>1. disk[j] = Absent /\ agy[j][1] # "none" /\ mem[Home[c]][j].state = "running"
    BY <1>5, StarterFacts DEF StartPersist, Starting, Starter, Withdrawing
  <2>2. /\ disk'[j].state = "running" /\ \A k \in Jobs : k # j => disk'[k] = disk[k]
        /\ UNCHANGED <<agy, finishes>>
    BY <1>5, <2>1 DEF StartPersist, Inv, Typed, TypeOK
  <2> QED
    BY <2>1, <2>2, AbsentState, ViewState
<1>6. ASSUME NEW t \in Threads, Publish(t)
      PROVE  Lifecycle!Next
  <2> PICK j \in Jobs, b \in Bridges : j = thread[t].job /\ b = BridgeOf(t)
    BY <1>6, StandingJob DEF Publish, StartPhases
  <2>1. disk'[j].state \in Terminal /\ \A k \in Jobs : k # j => disk'[k] = disk[k]
    BY <1>6, PublishEffect
  <2>3. disk[j].state = "running"
    <3>1. ~Aborted(j) /\ ~EndedOnDisk(j)
      BY <1>6 DEF Publish, Undisturbed, Aborted, Withdrawing, Threads
    <3> QED
      BY <1>6, <3>1, Stored, RecordFields, PublicJob DEF Publish, EndedOnDisk, Inv, PublicInv, StartPhases
  <2>2. UNCHANGED <<agy, finishes>>
    BY <1>6 DEF Publish
  <2> QED
    BY <2>1, <2>2, <2>3, ViewState
<1>7. ASSUME NEW t \in Threads, RetryPersist(t)
      PROVE  UNCHANGED Lifecycle!vars
  <2>1. t \in Jobs /\ thread[t].job = t /\ PhaseOK(t)
    BY <1>7, Busy DEF RetryPersist, Inv, Typed, ThreadsInv, ThreadOK, Threads, PhaseInv
  <2>2. disk[t].state = "running"
    BY <1>7, <2>1, WatchersJob, Stored, RecordFields, PublicJob
       DEF RetryPersist, PhaseOK, EndedOnDisk, Inv, PublicInv, StartPhases
  <2>3. \A k \in Jobs : disk'[k].state = disk[k].state
    BY <1>7, <2>1, <2>2 DEF RetryPersist, PhaseOK, Inv, Typed, TypeOK
  <2> QED
    BY <1>7, <2>3, SameView DEF RetryPersist
<1>8. ASSUME NEW t \in Threads, Notify(t)
      PROVE  Lifecycle!Next
  <2> PICK j \in Jobs : j = thread[t].job
    BY <1>8, StandingJob DEF Notify, StartPhases
  <2>1. UNCHANGED <<disk, agy>>
    BY <1>8 DEF Notify
  <2>3. EndedOnDisk(j)
    BY <1>8, NotifyEffect DEF Over, Undisturbed
  <2>2. Lifecycle!Report(j)
    BY <1>8, <2>1, <2>3, NotifyEffect, ViewReport
  <2> QED
    BY <2>2 DEF Lifecycle!Next
<1>9. ASSUME NEW t \in Threads, Signal(t)
      PROVE  UNCHANGED Lifecycle!vars
  <2> PICK j \in Jobs : j = thread[t].job
    BY <1>9, StandingJob DEF Signal, StartPhases
  <2>1. UNCHANGED <<disk, finishes>>
    BY <1>9 DEF Signal
  <2> QED
    BY <1>1, <1>9, <2>1, SignalEffect
<1>10. ASSUME NEW t \in Threads, FinalizeStep(t) \/ RetryFails(t) \/ FinalizeFails(t) \/ CloseServer(t)
       PROVE  Lifecycle!Next \/ UNCHANGED Lifecycle!vars
  <2>1. ~FinalizeFails(t) /\ ~CloseServer(t)
    BY DEF FinalizeFails, CloseServer, Undisturbed
  <2>2. CASE \/ ReadOutput(t) \/ TakeFirst(t) \/ FinalizeAdopts(t) \/ FinalizeReenters(t)
             \/ FinalizeEnds(t) \/ RetryFails(t)
    BY <2>2, <1>2 DEF ReadOutput, TakeFirst, FinalizeAdopts, FinalizeReenters, FinalizeEnds, RetryFails, Commit
  <2> QED
    BY <1>4, <1>6, <1>7, <1>8, <1>9, <1>10, <2>1, <2>2 DEF FinalizeStep, FinalizeGoesOn
<1>11. ASSUME NEW c \in Callers,
             Calls(c) \/ CallStep(c) \/ StartRaises(c) \/ KillStarted(c) \/ StartForgets(c)
       PROVE  Lifecycle!Next \/ UNCHANGED Lifecycle!vars
  <2>1. ~StartRaises(c) /\ ~KillStarted(c) /\ ~StartForgets(c)
    BY DEF StartRaises, KillStarted, StartForgets, Undisturbed, Threads
  <2>2. ASSUME NEW j \in Jobs, NEW op \in {"get", "cancel"}, Get(c, op, j)
        PROVE  UNCHANGED Lifecycle!vars
    BY <2>2, <1>2 DEF Get
  <2>3. CASE Probe(c) \/ CancelFindsEnded(c) \/ CancelCommits(c)
    BY <2>3, <1>2 DEF Probe, CancelFindsEnded, CancelCommits, Commit
  <2> QED
    BY <1>3, <1>5, <1>11, <2>1, <2>2, <2>3 DEF Calls, CallStep
<1>12. ASSUME NEW j \in Jobs, WatchStep(j) \/ ForceFailStep(j)
       PROVE  UNCHANGED Lifecycle!vars
  <2>1. ~ForceFailStep(j)
    BY DEF ForceFailStep, ForceFail, Undisturbed, Threads
  <2> QED
    BY <1>1, <1>12, <2>1, WatchEffect
<1>13. ASSUME ProcessExits
       PROVE  UNCHANGED Lifecycle!vars
  BY <1>1, <1>13, ProcessEffect
<1>14. ASSUME NEW b \in Bridges, Crash(b) \/ Restart(b)
       PROVE  UNCHANGED Lifecycle!vars
  <2>1. AgyKeeps
    BY <1>14 DEF Crash, Die, Restart, AgyKeeps
  <2> QED
    BY <1>1, <1>14, <2>1 DEF Crash, Die, Restart
<1> QED
  BY <1>10, <1>11, <1>12, <1>13, <1>14 DEF Next, SoundStep, FileFault, FinalizeStep

LEMMA StepRefines ==
  ASSUME "io" \notin Faults, Inv, Undisturbed, [Next]_vars
  PROVE  /\ [Lifecycle!Next]_(Lifecycle!vars)
         /\ Inv' /\ Undisturbed'
<1>1. CASE Next
  BY <1>1, NextRefines, NextSafe, UndisturbedSafe
<1>2. CASE UNCHANGED vars
  <2>1. UNCHANGED Lifecycle!vars
    BY <1>2 DEF vars, Lifecycle!vars
  <2>2. Undisturbed'
    BY <1>2 DEF vars, Undisturbed, EndedOnDisk
  <2> QED
    BY <1>2, <2>1, <2>2, StutterSafe
<1> QED
  BY <1>1, <1>2

LEMMA UndisturbedInit == Init => Undisturbed
BY IdleTyped DEF Init, Undisturbed

\* Whoever reads only the state directory and the ledger sees JobLifecycle: jobs are
\* announced once, end once and for good, start no process after the end, and their
\* end is reported once, whatever the interleaving of watchers, recoveries, cancels,
\* retries and crashes (the promise of jobs.py:123-130).
THEOREM RegistryImplementsLifecycle ==
  ASSUME "io" \notin Faults
  PROVE  Spec => ImplementsLifecycle
<1>1. Inv /\ Undisturbed /\ [Next]_vars =>
         [Lifecycle!Next]_(Lifecycle!vars) /\ Inv' /\ Undisturbed'
  BY StepRefines
<1> QED
  BY <1>1, UndisturbedInit, InitSafe, InitRefines, PTL DEF Spec, ImplementsLifecycle, Lifecycle!Spec

----------------------------------------------------------------------------
\* What JobLifecycle promises, every state directory keeps.

\* A job that was announced has had a process.
Announced == \A j \in Jobs :
    disk[j].state # "absent" => \E a \in Attempts : agy[j][a] # "none"

LEMMA LifecycleKeeps ==
  ASSUME Announced, Lifecycle!Next \/ UNCHANGED Lifecycle!vars
  PROVE  Announced' /\ Lifecycle!EndKept
<1> DEFINE state == [j \in Jobs |-> disk[j].state]
           next == [j \in Jobs |-> disk'[j].state]
           spawned == [j \in Jobs |-> {a \in Attempts : agy[j][a] # "none"}]
           more == [j \in Jobs |-> {a \in Attempts : agy'[j][a] # "none"}]
<1>1. SUFFICES ASSUME NEW k \in Jobs
               PROVE  /\ next[k] # "absent" => more[k] # {}
                      /\ Lifecycle!Ended(k) => next[k] = state[k] /\ more[k] = spawned[k]
  BY <1>1 DEF Announced, Lifecycle!EndKept
<1>2. /\ state[k] # "absent" => spawned[k] # {}
      /\ Lifecycle!Ended(k) <=> state[k] \in Lifecycle!Outcomes
  BY DEF Announced, Lifecycle!Ended
<1>3. CASE UNCHANGED Lifecycle!vars
  <2>1. next = state /\ more = spawned
    BY <1>3 DEF Lifecycle!vars
  <2> QED
    BY <1>2, <2>1
<1>4. CASE Lifecycle!Next
  <2> PICK j \in Jobs : \/ \E a \in Lifecycle!Attempts : Lifecycle!Spawn(j, a)
                        \/ Lifecycle!Announce(j)
                        \/ \E outcome \in Lifecycle!Outcomes : Lifecycle!Conclude(j, outcome)
                        \/ Lifecycle!Report(j)
    BY <1>4 DEF Lifecycle!Next
  <2>1. ASSUME NEW a \in Lifecycle!Attempts, Lifecycle!Spawn(j, a)
        PROVE  /\ next = state /\ more = [spawned EXCEPT ![j] = @ \cup {a}]
               /\ ~Lifecycle!Ended(j)
    BY <2>1 DEF Lifecycle!Spawn
  <2>2. CASE Lifecycle!Announce(j)
    <3>1. /\ state[j] = "absent" /\ spawned[j] # {}
          /\ next = [state EXCEPT ![j] = "running"] /\ more = spawned
      BY <2>2 DEF Lifecycle!Announce
    <3> HIDE DEF state, next, spawned, more
    <3> QED
      BY <1>2, <3>1 DEF state, Lifecycle!Outcomes
  <2>3. ASSUME NEW outcome \in Lifecycle!Outcomes, Lifecycle!Conclude(j, outcome)
        PROVE  /\ state[j] = "running"
               /\ next = [state EXCEPT ![j] = outcome] /\ more = spawned
    BY <2>3 DEF Lifecycle!Conclude
  <2>4. Lifecycle!Report(j) => next = state /\ more = spawned
    BY DEF Lifecycle!Report
  <2> QED
    BY <1>2, <2>1, <2>2, <2>3, <2>4 DEF Lifecycle!Outcomes
<1> QED
  BY <1>3, <1>4

LEMMA EndedReported ==
  ASSUME FinishedOnce, Undisturbed, Announced, \A j \in Jobs : finishes[j] \in Nat
  PROVE  Lifecycle!ReportedEnded
<1> SUFFICES ASSUME NEW j \in Jobs, finishes[j] > 0
             PROVE  Lifecycle!Ended(j) /\ {a \in Attempts : agy[j][a] # "none"} # {}
  BY DEF Lifecycle!ReportedEnded
<1>1. finishes[j] = 1 /\ EndedOnDisk(j)
  BY DEF FinishedOnce, Over, Undisturbed
<1> QED
  BY <1>1 DEF EndedOnDisk, Terminal, Announced, Lifecycle!Ended, Lifecycle!Outcomes

\* A job's end is final: no recovery, retry, cancel or crash reopens it, changes its
\* outcome or starts a process for it, and only the end of a job that had a process
\* is entered in the ledger (jobs.py:123-130).
THEOREM EndsAreFinal ==
  ASSUME "io" \notin Faults
  PROVE  Spec => []Lifecycle!ReportedEnded /\ Lifecycle!EndIsFinal
<1>1. Init => Announced
  BY AbsentState DEF Init, Announced
<1>2. Inv /\ Undisturbed /\ Announced /\ [Next]_vars =>
         /\ Inv' /\ Undisturbed' /\ Announced'
         /\ [Lifecycle!EndKept]_(Lifecycle!vars)
  BY StepRefines, LifecycleKeeps
<1>3. Inv /\ Undisturbed /\ Announced => Lifecycle!ReportedEnded
  BY InvReports, EndedReported DEF Inv, Typed, TypeOK
<1> QED
  BY <1>1, <1>2, <1>3, UndisturbedInit, InitSafe, PTL DEF Spec, Lifecycle!EndIsFinal
=============================================================================
