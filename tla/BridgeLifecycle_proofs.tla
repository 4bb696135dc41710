------------------------ MODULE BridgeLifecycle_proofs ------------------------
(***************************************************************************)
(* The end of a bridge, for every number of bridges, jobs, callers and     *)
(* nested cleanups: the registry keeps its invariant, a served job does    *)
(* not outlive its server, and a cancel leaves no process.                 *)
(*                                                                         *)
(* A step of LifeSpec is, for the registry, a step of JobRegistry, the end *)
(* of a bridge or nothing.  The first part follows the registry alone: what *)
(* each action does to a job's watch, its server and its end (Orderly), to *)
(* what is recorded of its process (RecordedInv) and to a process that a   *)
(* cancel means to kill.  The second part adds the cleanups.               *)
(***************************************************************************)
EXTENDS BridgeLifecycle, JobRegistrySafety_proofs, SequenceTheorems

\* A step of the registry, or the end of a bridge that is no crash.
RegistryStep == Next \/ \E b \in Bridges : Die(b) /\ UNCHANGED crashes

\* Bridge b dies in this step.
Dies(b) == up[b] /\ ~up'[b]

\* The jobs that a failing file operation leaves without their end, or without the
\* record of their retry.
Failing == FailingIn(Phases)
Forgotten == FailingIn({"respawned"})

LEMMA RegistryStepSafe ==
  ASSUME Inv, RegistryStep
  PROVE  Inv'
<1>1. ASSUME NEW b \in Bridges, Die(b), UNCHANGED crashes
      PROVE  Inv'
  <2>1. Typed'
    BY <1>1, DieTyped DEF Inv, Typed, TypeOK
  <2> QED
    BY <1>1, <2>1, DieSafe
<1> QED
  BY <1>1, NextSafe DEF RegistryStep

----------------------------------------------------------------------------
\* What any step may do to the watch, the server and the end of job j in bridge b.

ServedOK(j, b) == j \in servers[b] => j \in watched[b] \/ Closing(b, j)
Ours(j) == disk[j] # Absent \/ Aborted(j)

OrderlyAt(j, b) ==
    /\ Over(j) => Over(j)'
    /\ Ours(j) => \/ owner'[j] = owner[j] /\ Ours(j)'
                  \/ owner[j] \in Bridges /\ Dies(owner[j]) /\ owner'[j] = NoBridge
    /\ j \in watched[b] /\ ~Dies(b) =>
          \/ j \in watched'[b] /\ (j \in servers[b] => j \in servers'[b])
          \/ Over(j)' \/ Publishing(b, j)' \/ thread[j].pc = "forcefail"
    /\ Publishing(b, j) /\ ~Dies(b) =>
          Publishing(b, j)' \/ EndedOnDisk(j)' \/ j \in Failing
    /\ thread'[j].pc \in {"forcefail", "closing"} =>
          thread[j].pc \in {"forcefail", "closing"} \/ j \in Failing
    /\ disk[j] = Absent /\ disk'[j] # Absent =>
          j \in watched'[owner'[j]] \/ EndedOnDisk(j)'
    /\ disk[j] # Absent /\ disk'[j] = Absent => j \in withdrawn'
    /\ ServedOK(j, b) => ServedOK(j, b)'
Orderly ==
    /\ \A j \in Jobs, b \in Bridges : OrderlyAt(j, b)
    /\ withdrawn \subseteq withdrawn'
    /\ \A c \in Callers : thread'[c].pc = "closing" =>
          \/ thread[c].pc = "closing" /\ thread'[c].job = thread[c].job
          \/ thread'[c].job \in withdrawn'

\* A step that writes no record, ends no watch and leaves alone the threads that
\* publish, close or withdraw something.
LEMMA QuietOrderly ==
  ASSUME UNCHANGED <<disk, watched, servers, owner, withdrawn>>,
         \A t \in Threads : thread[t].pc \in {"publish", "closing"} => thread'[t] = thread[t],
         \A t \in Threads : thread'[t].pc \in {"forcefail", "closing"} => thread'[t] = thread[t],
         \A c \in Callers : Withdrawing(c) => Withdrawing(c)' /\ thread'[c].job = thread[c].job
  PROVE  Orderly
<1>1. ASSUME NEW j \in Jobs, NEW b \in Bridges
      PROVE  OrderlyAt(j, b)
  <2>1. Publishing(b, j) => Publishing(b, j)'
    BY DEF Publishing, BridgeOf
  <2>2. Closing(b, j) => Closing(b, j)'
    BY DEF Closing, BridgeOf
  <2>3. Aborted(j) => Aborted(j)'
    BY DEF Aborted
  <2>4. j \in Threads
    BY DEF Threads
  <2>5. thread'[j].pc \in {"forcefail", "closing"} => thread[j].pc \in {"forcefail", "closing"}
    BY <2>4
  <2> QED
    BY <2>1, <2>2, <2>3, <2>5 DEF OrderlyAt, Over, Ours, ServedOK, EndedOnDisk
<1>2. \A c \in Callers : c \in Threads
  BY DEF Threads
<1> QED
  BY <1>1, <1>2 DEF Orderly

\* Job j is the only one that the step of thread t touches.
LEMMA OneJobOrderly ==
  ASSUME Inv, NEW t \in Threads, NEW th, NEW j \in Jobs,
         thread[t].pc # "idle", thread[t].job = j,
         thread' = [thread EXCEPT ![t] = th],
         UNCHANGED owner, withdrawn \subseteq withdrawn',
         th.pc = "closing" => thread[t].pc # "closing" /\ th.job = j /\ (t \in Jobs \/ j \in withdrawn'),
         \A k \in Jobs : k # j => disk'[k] = disk[k],
         \A k \in Jobs, b \in Bridges : k # j => /\ k \in watched'[b] <=> k \in watched[b]
                                                 /\ k \in servers'[b] <=> k \in servers[b],
         \A b \in Bridges : OrderlyAt(j, b)
  PROVE  Orderly
<1>1. \A u \in Threads : /\ thread'[u] = IF u = t THEN th ELSE thread[u]
                         /\ BridgeOf(u)' = BridgeOf(u)
  BY DEF Inv, Typed, TypeOK, BridgeOf
<1>2. t \in Jobs => t = j
  BY Busy DEF Inv
<1>3. ASSUME NEW k \in Jobs, k # j, NEW b \in Bridges
      PROVE  OrderlyAt(k, b)
  <2>1. disk'[k] = disk[k] /\ owner'[k] = owner[k] /\ EndedOnDisk(k)' = EndedOnDisk(k)
    BY <1>3 DEF EndedOnDisk
  <2>2. Publishing(b, k) => Publishing(b, k)'
    BY <1>1, <1>3 DEF Publishing
  <2>3. thread'[k] = thread[k]
    BY <1>1, <1>2, <1>3 DEF Threads
  <2>4. Closing(b, k) => Closing(b, k)'
    BY <1>1, <1>3 DEF Closing
  <2>5. Aborted(k) => Aborted(k)'
    <3>1. \A c \in Callers : Withdrawing(c) /\ thread[c].job = k =>
             Withdrawing(c)' /\ thread'[c].job = k
      BY <1>1, <1>3 DEF Withdrawing, Threads
    <3> QED
      BY <3>1 DEF Aborted
  <2> QED
    BY <1>3, <2>1, <2>2, <2>3, <2>4, <2>5 DEF OrderlyAt, Over, Ours, ServedOK
<1>4. \A c \in Callers : thread'[c].pc = "closing" =>
          \/ thread[c].pc = "closing" /\ thread'[c].job = thread[c].job
          \/ thread'[c].job \in withdrawn'
  <2>1. \A c \in Callers : c \in Threads /\ c \notin Jobs
    BY RegistryAssumption DEF Threads
  <2> QED
    BY <1>1, <2>1
<1> QED
  BY <1>3, <1>4 DEF Orderly

LEMMA UnwatchSets ==
  ASSUME Inv, NEW d \in Bridges, NEW j \in Jobs, Unwatch(d, j)
  PROVE  /\ \A k \in Jobs, b \in Bridges : k # j \/ b # d =>
               /\ k \in watched'[b] <=> k \in watched[b]
               /\ k \in servers'[b] <=> k \in servers[b]
         /\ j \in servers'[d] => Closing(d, j)
  BY DEF Unwatch, Inv, Typed, TypeOK

\* What becomes of job j when its thread t ends a watch, and is no thread that
\* closes or withdraws something.
LEMMA UnwatchOrderly ==
  ASSUME Inv, NEW t \in Threads, NEW th, NEW j \in Jobs, NEW d \in Bridges,
         thread[t].pc \in {"finalizing", "cancelling"}, thread[t].job = j, BridgeOf(t) = d,
         thread' = [thread EXCEPT ![t] = th], th.pc \notin {"closing", "forcefail"},
         UNCHANGED <<disk, owner, withdrawn>>, Unwatch(d, j),
         EndedOnDisk(j) \/ (th.pc = "publish" /\ th.job = j)
  PROVE  Orderly
<1>1. \A u \in Threads : /\ thread'[u] = IF u = t THEN th ELSE thread[u]
                         /\ BridgeOf(u)' = BridgeOf(u)
  BY DEF Inv, Typed, TypeOK, BridgeOf
<1>2. ASSUME NEW b \in Bridges
      PROVE  OrderlyAt(j, b)
  <2>1. Publishing(b, j) => Publishing(b, j)'
    BY <1>1 DEF Publishing
  <2>2. b = d => Publishing(b, j)' \/ EndedOnDisk(j)'
    BY <1>1 DEF Publishing, EndedOnDisk
  <2>3. thread'[j].pc \in {"forcefail", "closing"} => thread[j].pc \in {"forcefail", "closing"}
    BY <1>1 DEF Threads
  <2>4. Closing(b, j) => Closing(b, j)'
    BY <1>1 DEF Closing
  <2>5. Aborted(j) => Aborted(j)'
    <3>1. \A c \in Callers : Withdrawing(c) => Withdrawing(c)' /\ thread'[c].job = thread[c].job
      BY <1>1 DEF Withdrawing, Threads
    <3> QED
      BY <3>1 DEF Aborted
  <2>6. b # d => (j \in watched'[b] <=> j \in watched[b]) /\ (j \in servers'[b] <=> j \in servers[b])
    BY UnwatchSets
  <2>7. b = d => (j \in servers'[b] => Closing(b, j))
    BY UnwatchSets
  <2>8. ServedOK(j, b) => ServedOK(j, b)'
    BY <2>4, <2>6, <2>7 DEF ServedOK
  <2> QED
    BY <2>1, <2>2, <2>3, <2>5, <2>6, <2>8 DEF OrderlyAt, Over, Ours, EndedOnDisk
<1> QED
  BY <1>2, UnwatchSets, OneJobOrderly

LEMMA CommitOrderly ==
  ASSUME Inv, NEW t \in Threads, thread[t].pc \in {"finalizing", "cancelling"},
         NEW s, NEW kill, Commit(t, s, kill)
  PROVE  Orderly
<1> PICK j \in Jobs, d \in Bridges : j = thread[t].job /\ d = BridgeOf(t)
  BY StandingJob DEF StartPhases
<1> DEFINE th == Thread("publish", thread[t].op, thread[t].job, kill)
<1>1. th.pc = "publish" /\ th.job = j
  BY DEF Thread
<1>2. /\ thread' = [thread EXCEPT ![t] = th] /\ UNCHANGED <<disk, owner, withdrawn>>
      /\ Unwatch(d, j)
  BY DEF Commit
<1> HIDE DEF th
<1> QED
  BY <1>1, <1>2, UnwatchOrderly

LEMMA AdoptsOrderly ==
  ASSUME Inv, NEW t \in Threads, FinalizeAdopts(t)
  PROVE  Orderly
<1>1. thread[t].pc \in {"finalizing", "cancelling"} /\ Idle.pc = "idle"
  BY IdleTyped DEF FinalizeAdopts
<1> PICK j \in Jobs, d \in Bridges : j = thread[t].job /\ d = BridgeOf(t)
  BY <1>1, StandingJob DEF StartPhases
<1> PICK th : th = Idle
  OBVIOUS
<1>2. /\ thread' = [thread EXCEPT ![t] = th] /\ UNCHANGED <<disk, owner, withdrawn>>
      /\ Unwatch(d, j) /\ EndedOnDisk(j)
  BY DEF FinalizeAdopts, Return
<1>3. th.pc \notin {"closing", "forcefail"}
  BY <1>1
<1>4. EndedOnDisk(j) \/ (th.pc = "publish" /\ th.job = j)
  BY <1>2
<1> QED
  BY <1>1, <1>2, <1>3, <1>4, UnwatchOrderly

LEMMA FailsOrderly ==
  ASSUME Inv, NEW t \in Threads, FinalizeFails(t)
  PROVE  Orderly
<1>1. /\ thread[t].pc \in {"finalize", "cancel", "publish", "respawned"}
      /\ thread[t] \in ThreadStates /\ thread[t].pc \in Phases
  BY Busy DEF FinalizeFails, Inv, ThreadStates
<1> PICK j \in Jobs : j = thread[t].job
  BY <1>1, StandingJob DEF StartPhases
<1>2. j \in Failing
  BY <1>1 DEF Failing, FailingIn
<1>3. PICK th \in {Phase(t, "forcefail"), Idle} : thread' = [thread EXCEPT ![t] = th]
  BY DEF FinalizeFails, Return
<1>4. th.pc \in {"forcefail", "idle"}
  BY <1>1, <1>3, IdleTyped, PhaseTyped DEF Phases
<1>5. UNCHANGED <<disk, owner, watched, servers, withdrawn>>
  BY DEF FinalizeFails
<1>6. \A u \in Threads : thread'[u] = IF u = t THEN th ELSE thread[u]
  BY <1>3 DEF Inv, Typed, TypeOK
<1>7. Aborted(j) => Aborted(j)'
  <2>1. \A c \in Callers : Withdrawing(c) => Withdrawing(c)' /\ thread'[c].job = thread[c].job
    BY <1>1, <1>6 DEF Withdrawing, Threads
  <2> QED
    BY <1>5, <2>1 DEF Aborted
<1>8. \A b \in Bridges : Closing(b, j) => Closing(b, j)'
  BY <1>1, <1>5, <1>6 DEF Closing, BridgeOf
<1>9. \A b \in Bridges : OrderlyAt(j, b)
  BY <1>2, <1>5, <1>7, <1>8 DEF OrderlyAt, Over, Ours, ServedOK, EndedOnDisk
<1> QED
  BY <1>1, <1>3, <1>4, <1>5, <1>9, OneJobOrderly

LEMMA RetryPersistOrderly ==
  ASSUME Inv, NEW t \in Threads, RetryPersist(t)
  PROVE  Orderly
<1>1. thread[t].pc = "respawned"
  BY DEF RetryPersist
<1> PICK j \in Jobs, d \in Bridges : j = thread[t].job /\ d = BridgeOf(t)
  BY <1>1, StandingJob DEF StartPhases
<1> DEFINE w == Watcher(j, mem[d][j].pid)
<1>2. w.pc = "waiting"
  BY DEF Watcher, Thread
<1>3. thread' = [thread EXCEPT ![t] = w] /\ UNCHANGED <<owner, watched, servers, withdrawn>>
  BY DEF RetryPersist
<1> HIDE DEF w
<1>4. t \in Jobs /\ t = j
  <2>1. t \notin Callers
    BY <1>1, Busy DEF Inv, WatcherPhases
  <2> QED
    BY <1>1, <2>1, Busy DEF Inv, Threads
<1>5. ~Aborted(j)
  BY <1>1, <1>4, WatchersJob
<1>6. /\ disk'[j] = mem[d][j] /\ \A k \in Jobs : k # j => disk'[k] = disk[k]
      /\ \A u \in Threads : thread'[u] = IF u = t THEN w ELSE thread[u]
      /\ \A u \in Threads : BridgeOf(u)' = BridgeOf(u)
  BY <1>3 DEF RetryPersist, Inv, Typed, TypeOK, BridgeOf
<1>7. /\ ~EndedOnDisk(j) /\ mem[d][j].state = "running" /\ disk[j] # Absent /\ disk'[j] # Absent
      /\ j \notin withdrawn
  BY <1>1, <1>5, <1>6, AbsentState DEF Inv, PhaseInv, PhaseOK, Aborted
<1>8. ASSUME NEW b \in Bridges
      PROVE  OrderlyAt(j, b)
  <2>1. Publishing(b, j) => Publishing(b, j)'
    BY <1>1, <1>6 DEF Publishing
  <2>2. thread'[j].pc \notin {"forcefail", "closing"}
    BY <1>2, <1>4, <1>6 DEF Threads
  <2>3. Closing(b, j) => Closing(b, j)'
    BY <1>1, <1>6 DEF Closing
  <2> QED
    BY <2>1, <2>2, <2>3, <1>3, <1>5, <1>7 DEF OrderlyAt, Over, Ours, ServedOK
<1> QED
  BY <1>1, <1>2, <1>3, <1>6, <1>8, OneJobOrderly

LEMMA PublishOrderly ==
  ASSUME Inv, NEW t \in Threads, Publish(t)
  PROVE  Orderly
<1>1. /\ thread[t].pc = "publish" /\ thread[t] \in ThreadStates
      /\ AfterPublish(t) \in {"signal", "notify"}
  BY Busy DEF Publish, Inv, AfterPublish
<1> PICK j \in Jobs, d \in Bridges : j = thread[t].job /\ d = BridgeOf(t)
  BY <1>1, StandingJob DEF StartPhases
<1> DEFINE th == Phase(t, AfterPublish(t))
<1>2. th.pc \in {"signal", "notify"}
  BY <1>1, PhaseTyped DEF Phases
<1>3. thread' = [thread EXCEPT ![t] = th] /\ UNCHANGED <<owner, watched, servers, withdrawn>>
  BY DEF Publish
<1> HIDE DEF th
<1>4. EndedOnDisk(j)' /\ \A k \in Jobs : k # j => disk'[k] = disk[k]
  BY PublishEffect DEF EndedOnDisk
<1>5. disk'[j] # Absent
  BY <1>4, AbsentState DEF EndedOnDisk, Terminal
<1>6. \A u \in Threads : thread'[u] = IF u = t THEN th ELSE thread[u]
  BY <1>3 DEF Inv, Typed, TypeOK
<1>7. thread'[j].pc \in {"forcefail", "closing"} => thread[j].pc \in {"forcefail", "closing"}
  BY <1>2, <1>6 DEF Threads
<1>8. \A b \in Bridges : Closing(b, j) => Closing(b, j)'
  BY <1>1, <1>3, <1>6 DEF Closing, BridgeOf
<1>9. \A b \in Bridges : OrderlyAt(j, b)
  BY <1>3, <1>4, <1>5, <1>7, <1>8 DEF OrderlyAt, Over, Ours, ServedOK
<1> QED
  BY <1>1, <1>2, <1>3, <1>4, <1>9, OneJobOrderly

LEMMA ForceFailOrderly ==
  ASSUME Inv, NEW j \in Jobs, NEW written \in BOOLEAN, ForceFail(j, written)
  PROVE  Orderly
<1>1. /\ j \in Threads /\ thread[j].pc = "forcefail" /\ thread[j].job = j
      /\ BridgeOf(j) = owner[j] /\ thread[j] \in ThreadStates
  BY Busy DEF ForceFail, Threads, Inv, BridgeOf
<1>2. ~Aborted(j) /\ owner[j] \in Bridges /\ disk[j] # Absent /\ j \notin withdrawn
  BY <1>1, WatchersJob, PublicJob DEF StartPhases, Aborted
<1> PICK d \in Bridges : d = owner[j]
  BY <1>2
<1> PICK failed : failed = EndedRecord(mem[d][j], "failed")
  OBVIOUS
<1> PICK th : th = Phase(j, "closing")
  OBVIOUS
<1>3. failed.state = "failed" /\ failed # Absent /\ th.pc = "closing" /\ th.job = j
  BY <1>1, EndedFields, AbsentState, PhaseTyped DEF Phases
<1>4. /\ thread' = [thread EXCEPT ![j] = th] /\ UNCHANGED <<owner, withdrawn, servers>>
      /\ watched' = [watched EXCEPT ![d] = @ \ {j}]
      /\ disk' = [disk EXCEPT ![j] = failed] \/ disk' = disk
  BY <1>1 DEF ForceFail
<1>5. /\ disk'[j] = failed \/ disk'[j] = disk[j]
      /\ \A k \in Jobs : k # j => disk'[k] = disk[k]
      /\ \A k \in Jobs, b \in Bridges : k # j \/ b # d => (k \in watched'[b] <=> k \in watched[b])
  BY <1>4 DEF Inv, Typed, TypeOK
<1>6. disk'[j] # Absent /\ (EndedOnDisk(j) => EndedOnDisk(j)')
  BY <1>2, <1>3, <1>5 DEF EndedOnDisk, Terminal
<1>7. \A u \in Threads : /\ thread'[u] = IF u = j THEN th ELSE thread[u]
                         /\ BridgeOf(u)' = BridgeOf(u)
  BY <1>1, <1>4 DEF Inv, Typed, TypeOK, BridgeOf
<1>8. \A b \in Bridges : Publishing(b, j) => Publishing(b, j)'
  BY <1>1, <1>7 DEF Publishing
<1>9. Closing(d, j)' /\ \A b \in Bridges : Closing(b, j) => Closing(b, j)'
  BY <1>1, <1>3, <1>7 DEF Closing
<1>10. ASSUME NEW b \in Bridges
       PROVE  OrderlyAt(j, b)
  <2>1. ServedOK(j, b) => ServedOK(j, b)'
    BY <1>4, <1>5, <1>9 DEF ServedOK
  <2>2. Ours(j)' /\ (Over(j) => Over(j)')
    BY <1>2, <1>6 DEF Ours, Over
  <2> QED
    BY <1>1, <1>2, <1>4, <1>6, <1>8, <2>1, <2>2 DEF OrderlyAt
<1> QED
  BY <1>1, <1>3, <1>4, <1>5, <1>10, OneJobOrderly

\* A watcher that closes its server watches nothing.
LEMMA ClosingUnwatched ==
  ASSUME Inv, NEW j \in Jobs, thread[j].pc = "closing", NEW b \in Bridges
  PROVE  j \notin watched[b]
<1>1. j \in Threads /\ thread[j].job = j /\ ~Aborted(j)
  <2>1. j \in Threads
    BY DEF Threads
  <2> QED
    BY <2>1, Busy, WatchersJob DEF Inv
<1>2. disk[j] # Absent
  BY <1>1, PublicJob DEF StartPhases
<1> QED
  BY <1>1, <1>2, WatchedFacts DEF WatchingPhases

LEMMA CloseServerOrderly ==
  ASSUME Inv, RaisedInv, NEW t \in Threads, CloseServer(t)
  PROVE  Orderly
<1>1. thread[t].pc = "closing" /\ Idle.pc = "idle"
  BY IdleTyped DEF CloseServer
<1> PICK j \in Jobs, d \in Bridges : j = thread[t].job /\ d = BridgeOf(t)
  BY <1>1, StandingJob DEF StartPhases
<1>2. /\ thread' = [thread EXCEPT ![t] = Idle] /\ UNCHANGED <<disk, owner, watched, withdrawn>>
      /\ servers' = [servers EXCEPT ![d] = @ \ {j}]
  BY DEF CloseServer, Return
<1>3. /\ \A k \in Jobs, b \in Bridges : k # j \/ b # d => (k \in servers'[b] <=> k \in servers[b])
      /\ j \notin servers'[d]
  BY <1>2 DEF Inv, Typed, TypeOK
<1>4. \A u \in Threads : /\ thread'[u] = IF u = t THEN Idle ELSE thread[u]
                         /\ BridgeOf(u)' = BridgeOf(u)
  BY <1>2 DEF Inv, Typed, TypeOK, BridgeOf
<1>5. j \in withdrawn \/ \A b \in Bridges : j \notin watched[b]
  <2>1. CASE t \in Callers
    BY <1>1, <2>1 DEF RaisedInv
  <2>2. CASE t \in Jobs
    BY <1>1, <2>2, ClosingUnwatched, Busy DEF Inv
  <2> QED
    BY <2>1, <2>2 DEF Threads
<1>6. ASSUME NEW b \in Bridges
      PROVE  OrderlyAt(j, b)
  <2>1. Publishing(b, j) => Publishing(b, j)'
    BY <1>1, <1>4 DEF Publishing
  <2>2. thread'[j].pc \in {"forcefail", "closing"} => thread[j].pc \in {"forcefail", "closing"}
    BY <1>1, <1>4 DEF Threads
  <2>3. b # d => (Closing(b, j) => Closing(b, j)')
    BY <1>4 DEF Closing
  <2>4. Aborted(j) => Aborted(j)'
    <3>1. \A c \in Callers : Withdrawing(c) => Withdrawing(c)' /\ thread'[c].job = thread[c].job
      BY <1>1, <1>4 DEF Withdrawing, Threads
    <3> QED
      BY <1>2, <3>1 DEF Aborted
  <2>5. ServedOK(j, b) => ServedOK(j, b)'
    BY <1>2, <1>3, <2>3 DEF ServedOK
  <2> QED
    BY <1>2, <1>5, <2>1, <2>2, <2>4, <2>5 DEF OrderlyAt, Over, Ours, EndedOnDisk
<1> QED
  BY <1>1, <1>2, <1>3, <1>6, OneJobOrderly

\* While a job has no process, nobody works for it.
LEMMA StartSpawnOrderly ==
  ASSUME Inv, NEW c \in Callers, NEW j \in Jobs, NEW served \in BOOLEAN,
         StartSpawn(c, j, served)
  PROVE  Orderly
<1> PICK d \in Bridges : d = Home[c]
  BY RegistryAssumption
<1> DEFINE th == Thread("spawned", "start", j, 0)
<1>1. /\ c \in Threads /\ c \notin Jobs /\ thread[c].pc = "idle" /\ agy[j][1] = "none"
      /\ th.pc = "spawned" /\ th.job = j
  BY RegistryAssumption DEF Threads, StartSpawn, Thread
<1>2. /\ thread' = [thread EXCEPT ![c] = th]
      /\ UNCHANGED <<disk, withdrawn>>
      /\ owner' = [owner EXCEPT ![j] = d]
      /\ watched' = [watched EXCEPT ![d] = @ \cup {j}]
      /\ servers' = [servers EXCEPT ![d] = @ \cup {j}] \/ servers' = servers
  BY DEF StartSpawn
<1> HIDE DEF th
<1>3. \A u \in Threads : thread'[u] = IF u = c THEN th ELSE thread[u]
  BY <1>2 DEF Inv, Typed, TypeOK
<1>4. /\ ~Aborted(j) /\ disk[j] = Absent
      /\ \A u \in Threads : thread[u].pc # "idle" => thread[u].job # j /\ u # j
  BY <1>1, UnknownJob, Busy DEF Inv
<1>5. \A u \in Threads : thread[u].pc # "idle" => BridgeOf(u)' = BridgeOf(u)
  BY <1>2, <1>4 DEF BridgeOf, Inv, Typed, TypeOK
<1>6. \A k \in Jobs : k # j => owner'[k] = owner[k]
  BY <1>2 DEF Inv, Typed, TypeOK
<1>7. /\ \A b \in Bridges : watched[b] \subseteq watched'[b] /\ servers[b] \subseteq servers'[b]
      /\ \A b \in Bridges, k \in Jobs : k \in servers'[b] => k \in servers[b] \/ k \in watched'[b]
  BY <1>2 DEF Inv, Typed, TypeOK
<1>8. ASSUME NEW k \in Jobs, NEW b \in Bridges
      PROVE  OrderlyAt(k, b)
  <2>1. Publishing(b, k) => Publishing(b, k)'
    BY <1>1, <1>3, <1>5 DEF Publishing
  <2>2. thread'[k].pc \in {"forcefail", "closing"} => thread[k].pc \in {"forcefail", "closing"}
    BY <1>1, <1>3 DEF Threads
  <2>3. Closing(b, k) => Closing(b, k)'
    BY <1>1, <1>3, <1>5 DEF Closing
  <2>4. Aborted(k) => Aborted(k)'
    <3>1. \A e \in Callers : Withdrawing(e) => Withdrawing(e)' /\ thread'[e].job = thread[e].job
      BY <1>1, <1>3 DEF Withdrawing, Threads
    <3> QED
      BY <1>2, <3>1 DEF Aborted
  <2>5. Ours(k) => owner'[k] = owner[k]
    BY <1>4, <1>6 DEF Ours
  <2>6. ServedOK(k, b) => ServedOK(k, b)'
    BY <1>7, <2>3 DEF ServedOK
  <2> QED
    BY <1>2, <1>7, <2>1, <2>2, <2>4, <2>5, <2>6 DEF OrderlyAt, Over, Ours, EndedOnDisk
<1>9. \A e \in Callers : thread'[e].pc = "closing" =>
         thread[e].pc = "closing" /\ thread'[e].job = thread[e].job
  BY <1>1, <1>3 DEF Threads
<1> QED
  BY <1>2, <1>8, <1>9 DEF Orderly

LEMMA StartPersistOrderly ==
  ASSUME Inv, NEW c \in Callers, StartPersist(c)
  PROVE  Orderly
<1>0. Starting(c) /\ Starter(c)
  BY DEF StartPersist, Starting, Starter
<1> PICK j \in Jobs, d \in Bridges : j = thread[c].job /\ d = Home[c]
  BY <1>0, StarterFacts
<1> DEFINE w == Watcher(j, 1)
<1>1. /\ c \in Threads /\ c \notin Jobs /\ j \in Threads /\ j # c
      /\ disk[j] = Absent /\ owner[j] = d /\ mem[d][j].state = "running"
      /\ j \in watched[d] /\ j \notin withdrawn
  BY <1>0, StarterFacts DEF Threads
<1>2. w.pc = "waiting" /\ Idle.pc = "idle"
  BY IdleTyped DEF Watcher, Thread
<1>3. UNCHANGED <<watched, servers, owner, withdrawn>>
  BY DEF StartPersist
<1> HIDE DEF w
<1>4. /\ \A u \in Threads : thread'[u] = IF u = j THEN w ELSE IF u = c THEN Idle ELSE thread[u]
      /\ \A u \in Threads : BridgeOf(u)' = BridgeOf(u)
      /\ \A k \in Jobs : disk'[k] = IF k = j THEN mem[d][j] ELSE disk[k]
  BY <1>1, <1>3 DEF StartPersist, Inv, Typed, TypeOK, w, BridgeOf
<1>5. /\ ~Aborted(j)
      /\ \A u \in Threads : thread[u].pc \notin {"idle", "spawned"} => thread'[u] = thread[u]
  <2>1. thread[c].pc = "spawned"
    BY <1>0 DEF Starting
  <2> QED
    BY <1>0, <1>4, <2>1, StartingJob
<1>6. ASSUME NEW k \in Jobs, NEW b \in Bridges
      PROVE  OrderlyAt(k, b)
  <2>1. Publishing(b, k) => Publishing(b, k)'
    BY <1>4, <1>5 DEF Publishing
  <2>2. thread'[k].pc \in {"forcefail", "closing"} => thread[k].pc \in {"forcefail", "closing"}
    BY <1>2, <1>4 DEF Threads
  <2>3. Closing(b, k) => Closing(b, k)'
    BY <1>4, <1>5 DEF Closing
  <2>4. Aborted(k) => Aborted(k)'
    <3>1. \A e \in Callers : Withdrawing(e) => Withdrawing(e)' /\ thread'[e].job = thread[e].job
      BY <1>5 DEF Withdrawing, Threads
    <3> QED
      BY <1>3, <3>1 DEF Aborted
  <2>5. /\ Over(k) => Over(k)'
        /\ disk[k] # Absent => disk'[k] # Absent
        /\ disk[k] = Absent /\ disk'[k] # Absent => k \in watched'[owner'[k]]
    BY <1>1, <1>3, <1>4, AbsentState DEF EndedOnDisk, Terminal, Over
  <2>6. ServedOK(k, b) => ServedOK(k, b)'
    BY <1>3, <2>3 DEF ServedOK
  <2> QED
    BY <2>1, <2>2, <2>4, <2>5, <2>6, <1>3 DEF OrderlyAt, Ours
<1>7. \A e \in Callers : thread'[e].pc = "closing" =>
         thread[e].pc = "closing" /\ thread'[e].job = thread[e].job
  BY <1>1, <1>2, <1>4, RegistryAssumption DEF Threads
<1> QED
  BY <1>3, <1>6, <1>7 DEF Orderly

LEMMA StartForgetsOrderly ==
  ASSUME Inv, NEW c \in Callers, StartForgets(c)
  PROVE  Orderly
<1>0. Withdrawing(c) /\ Starter(c) /\ thread[c].pc = "forgetting"
  BY DEF StartForgets, Withdrawing, Starter
<1> PICK j \in Jobs, d \in Bridges : j = thread[c].job /\ d = Home[c]
  BY <1>0, StarterFacts
<1> PICK th : th = Phase(c, "closing")
  OBVIOUS
<1>1. /\ c \in Threads /\ c \notin Jobs /\ owner[j] = d /\ BridgeOf(c) = d
      /\ th.pc = "closing" /\ th.job = j
  <2>1. c \in Threads /\ c \notin Jobs /\ owner[j] = d /\ BridgeOf(c) = d
    BY <1>0, StarterFacts
  <2>2. thread[c] \in ThreadStates
    BY <1>0, <2>1, Busy DEF Inv
  <2> QED
    BY <2>1, <2>2, PhaseTyped DEF Phases
<1>2. /\ thread' = [thread EXCEPT ![c] = th] /\ UNCHANGED <<owner, servers>>
      /\ withdrawn' = withdrawn \cup {j}
      /\ watched' = [watched EXCEPT ![d] = @ \ {j}]
      /\ disk' = [disk EXCEPT ![j] = Absent]
  BY DEF StartForgets
<1>3. /\ disk'[j] = Absent /\ \A k \in Jobs : k # j => disk'[k] = disk[k]
      /\ \A k \in Jobs, b \in Bridges : k # j \/ b # d => (k \in watched'[b] <=> k \in watched[b])
      /\ \A u \in Threads : thread'[u] = IF u = c THEN th ELSE thread[u]
      /\ \A u \in Threads : BridgeOf(u)' = BridgeOf(u)
  BY <1>2 DEF Inv, Typed, TypeOK, BridgeOf
<1>4. ASSUME NEW b \in Bridges
      PROVE  OrderlyAt(j, b)
  <2>1. Publishing(b, j) => Publishing(b, j)'
    BY <1>0, <1>3 DEF Publishing
  <2>2. thread'[j].pc \in {"forcefail", "closing"} => thread[j].pc \in {"forcefail", "closing"}
    BY <1>1, <1>3 DEF Threads
  <2>3. /\ b = d => Closing(b, j)'
        /\ Closing(b, j) => Closing(b, j)'
    BY <1>0, <1>1, <1>3 DEF Closing
  <2>4. Over(j)' /\ Ours(j)'
    BY <1>2 DEF Over, Ours, Aborted
  <2>5. ServedOK(j, b) => ServedOK(j, b)'
    BY <1>2, <1>3, <2>3 DEF ServedOK
  <2> QED
    BY <1>2, <1>3, <2>1, <2>2, <2>4, <2>5 DEF OrderlyAt
<1> QED
  BY <1>0, <1>1, <1>2, <1>3, <1>4, OneJobOrderly

LEMMA DieOrderly ==
  ASSUME Inv, NEW d \in Bridges, Die(d)
  PROVE  Orderly
<1>1. /\ Dies(d) /\ UNCHANGED <<disk, withdrawn>>
      /\ \A b \in Bridges : b # d => watched'[b] = watched[b] /\ servers'[b] = servers[b]
      /\ watched'[d] = {} /\ servers'[d] = {}
      /\ \A k \in Jobs : owner'[k] = IF owner[k] = d THEN NoBridge ELSE owner[k]
  BY DEF Die, Dies, Inv, Typed, TypeOK
<1>2. \A u \in Threads : thread'[u] = IF BridgeOf(u) = d THEN Idle ELSE thread[u]
  BY DEF Die
<1>3. \A u \in Threads : BridgeOf(u) # d => BridgeOf(u)' = BridgeOf(u)
  BY <1>1 DEF BridgeOf
<1>4. Idle.pc = "idle"
  BY IdleTyped
<1>5. ASSUME NEW k \in Jobs, NEW b \in Bridges
      PROVE  OrderlyAt(k, b)
  <2>1. b # d => (Publishing(b, k) => Publishing(b, k)')
    BY <1>2, <1>3 DEF Publishing
  <2>2. thread'[k].pc \in {"forcefail", "closing"} => thread[k].pc \in {"forcefail", "closing"}
    BY <1>2, <1>4 DEF Threads
  <2>3. b # d => (Closing(b, k) => Closing(b, k)')
    BY <1>2, <1>3 DEF Closing
  <2>4. owner[k] # d => (Aborted(k) => Aborted(k)')
    <3>1. ASSUME owner[k] # d, NEW c \in Callers, Withdrawing(c), thread[c].job = k
          PROVE  Withdrawing(c)' /\ thread'[c].job = k
      <4>1. c \in Threads /\ BridgeOf(c) = owner[k]
        BY <3>1, StarterFacts DEF Starter
      <4>2. thread'[c] = thread[c]
        BY <1>2, <3>1, <4>1
      <4> QED
        BY <3>1, <4>2 DEF Withdrawing
    <3> QED
      BY <1>1, <3>1 DEF Aborted
  <2>5. Ours(k) => \/ owner'[k] = owner[k] /\ Ours(k)'
                   \/ owner[k] \in Bridges /\ Dies(owner[k]) /\ owner'[k] = NoBridge
    BY <1>1, <2>4 DEF Ours
  <2>6. ServedOK(k, b) => ServedOK(k, b)'
    BY <1>1, <2>3 DEF ServedOK
  <2> QED
    BY <1>1, <2>1, <2>2, <2>5, <2>6 DEF OrderlyAt, Over, EndedOnDisk
<1>6. \A e \in Callers : thread'[e].pc = "closing" =>
         thread[e].pc = "closing" /\ thread'[e].job = thread[e].job
  BY <1>2, <1>4 DEF Threads
<1> QED
  BY <1>1, <1>5, <1>6 DEF Orderly

\* Thread t alone moves, to another phase of the same call or out of it.
LEMMA MoveOrderly ==
  ASSUME Inv, NEW t \in Threads, NEW th, thread' = [thread EXCEPT ![t] = th],
         UNCHANGED <<disk, watched, servers, owner, withdrawn>>,
         \/ thread[t].pc \notin {"publish", "closing", "killing", "forgetting"}
         \/ thread[t].pc = "killing" /\ th.pc = "forgetting" /\ th.job = thread[t].job,
         th.pc \notin {"forcefail", "closing"}
  PROVE  Orderly
<1>1. \A u \in Threads : thread'[u] = IF u = t THEN th ELSE thread[u]
  BY DEF Inv, Typed, TypeOK
<1>2. \A c \in Callers : Withdrawing(c) => Withdrawing(c)' /\ thread'[c].job = thread[c].job
  BY <1>1 DEF Withdrawing, Threads
<1> QED
  BY <1>1, <1>2, QuietOrderly

\* No thread moves.
LEMMA StandOrderly ==
  ASSUME UNCHANGED <<disk, watched, servers, owner, withdrawn, thread>>
  PROVE  Orderly
<1>1. \A c \in Callers : Withdrawing(c) => Withdrawing(c)' /\ thread'[c].job = thread[c].job
  BY DEF Withdrawing
<1> QED
  BY <1>1, QuietOrderly

LEMMA RegistryOrderly ==
  ASSUME Inv, RaisedInv, RegistryStep
  PROVE  Orderly
<1>1. thread \in [Threads -> ThreadStates] /\ Idle.pc = "idle"
  BY IdleTyped DEF Inv, Typed, TypeOK
<1>2. ASSUME NEW t \in Threads, NEW pc \in Phases, pc \notin {"forcefail", "closing"},
             thread[t].pc \notin {"publish", "closing", "forgetting"},
             thread[t].pc = "killing" => pc = "forgetting",
             thread' = [thread EXCEPT ![t] = Phase(t, pc)],
             UNCHANGED <<disk, watched, servers, owner, withdrawn>>
      PROVE  Orderly
  <2> PICK th : th = Phase(t, pc)
    OBVIOUS
  <2>1. th.pc = pc /\ th.job = thread[t].job
    BY <1>1, PhaseTyped
  <2> QED
    BY <1>2, <2>1, MoveOrderly
<1>3. ASSUME NEW t \in Threads, Return(t), thread[t].pc \in {"finalizing", "notify", "cancelling"},
             UNCHANGED <<disk, watched, servers, owner, withdrawn>>
      PROVE  Orderly
  <2> PICK th : th = Idle
    OBVIOUS
  <2>1. thread' = [thread EXCEPT ![t] = th] /\ th.pc \notin {"forcefail", "closing"}
    BY <1>1, <1>3 DEF Return
  <2> QED
    BY <1>3, <2>1, MoveOrderly
<1>4. ASSUME NEW t \in Threads,
             FinalizeStep(t) \/ RetryFails(t) \/ FinalizeFails(t) \/ CloseServer(t)
      PROVE  Orderly
  <2>1. CASE ReadOutput(t)
    <3>1. PICK th : th.pc = "finalize" /\ thread' = [thread EXCEPT ![t] = th]
      BY <1>1, <2>1 DEF ReadOutput
    <3> QED
      BY <2>1, <3>1, MoveOrderly DEF ReadOutput
  <2>2. CASE TakeFirst(t)
    <3>1. PICK pc \in {"finalizing", "cancelling"} : thread' = [thread EXCEPT ![t] = Phase(t, pc)]
      BY <2>2 DEF TakeFirst
    <3> QED
      BY <1>2, <2>2, <3>1 DEF TakeFirst, Phases
  <2>3. CASE FinalizeReenters(t) \/ Notify(t)
    BY <1>3, <2>3 DEF FinalizeReenters, Notify
  <2>4. CASE FinalizeRetries(t)
    BY <1>2, <2>4 DEF FinalizeRetries, Finalizing, Phases
  <2>5. CASE Signal(t)
    BY <1>2, <2>5 DEF Signal, Phases
  <2>6. CASE FinalizeEnds(t) \/ RetryFails(t)
    BY <2>6, CommitOrderly DEF FinalizeEnds, RetryFails, Finalizing
  <2> QED
    BY <1>4, <2>1, <2>2, <2>3, <2>4, <2>5, <2>6, AdoptsOrderly, FailsOrderly, RetryPersistOrderly,
       PublishOrderly, CloseServerOrderly DEF FinalizeStep, FinalizeGoesOn
<1>5. ASSUME NEW c \in Callers, NEW op, NEW j, NEW rec, Proceed(c, op, j, rec),
             thread[c].pc \in {"idle", "probe"},
             UNCHANGED <<disk, watched, servers, owner, withdrawn>>
      PROVE  Orderly
  <2>1. PICK th \in {Thread("cancel", op, j, 0), Idle} : thread' = [thread EXCEPT ![c] = th]
    BY <1>5 DEF Proceed
  <2>2. th.pc \in {"cancel", "idle"} /\ c \in Threads
    BY <2>1, <1>1 DEF Thread, Threads
  <2> QED
    BY <1>5, <2>1, <2>2, MoveOrderly
<1>6. ASSUME NEW c \in Callers,
             Calls(c) \/ CallStep(c) \/ StartRaises(c) \/ KillStarted(c) \/ StartForgets(c)
      PROVE  Orderly
  <2>1. c \in Threads
    BY DEF Threads
  <2>2. ASSUME NEW j \in Jobs, NEW op \in {"get", "cancel"}, Get(c, op, j)
        PROVE  Orderly
    <3> PICK rec : rec = Current(Home[c], j)
      OBVIOUS
    <3>1. thread[c].pc = "idle" /\ UNCHANGED <<disk, watched, servers, owner, withdrawn>>
      BY <2>2 DEF Get
    <3>2. CASE Proceed(c, op, j, rec)
      BY <1>5, <3>1, <3>2
    <3>3. CASE thread' = [thread EXCEPT ![c] = Thread("probe", op, j, rec.pid)]
      <4> PICK th : th = Thread("probe", op, j, rec.pid)
        OBVIOUS
      <4>1. th.pc = "probe"
        BY DEF Thread
      <4> QED
        BY <2>1, <3>1, <3>3, <4>1, MoveOrderly
    <3> QED
      BY <2>2, <3>2, <3>3 DEF Get
  <2>3. CASE Probe(c)
    <3>1. thread[c].pc = "probe" /\ UNCHANGED <<disk, watched, servers, owner, withdrawn>>
      BY <2>3 DEF Probe
    <3> QED
      BY <1>2, <1>5, <2>1, <2>3, <3>1 DEF Probe, Phases
  <2>4. CASE CancelFindsEnded(c)
    BY <1>3, <2>1, <2>4 DEF CancelFindsEnded
  <2>5. CASE CancelCommits(c)
    BY <2>1, <2>5, CommitOrderly DEF CancelCommits
  <2>6. CASE StartRaises(c)
    BY <1>2, <2>1, <2>6 DEF StartRaises, Phases
  <2>7. CASE KillStarted(c)
    BY <1>2, <2>1, <2>7 DEF KillStarted, Phases
  <2> QED
    BY <1>6, <2>2, <2>3, <2>4, <2>5, <2>6, <2>7, StartSpawnOrderly, StartPersistOrderly,
       StartForgetsOrderly DEF Calls, CallStep
<1>7. ASSUME NEW j \in Jobs, WatchStep(j) \/ ForceFailStep(j)
      PROVE  Orderly
  <2>1. CASE WatchStep(j)
    <3>1. \A rc : Reaped(j, rc).pc = "readout"
      BY DEF Reaped
    <3>2. PICK rc : thread' = [thread EXCEPT ![j] = Reaped(j, rc)]
      BY <2>1 DEF WatchStep, WatchReap, WatchTimeout
    <3>3. /\ thread[j].pc = "waiting" /\ j \in Threads
          /\ UNCHANGED <<disk, watched, servers, owner, withdrawn>>
      BY <2>1 DEF WatchStep, WatchReap, WatchTimeout, Threads
    <3> PICK th : th = Reaped(j, rc)
      OBVIOUS
    <3> QED
      BY <3>1, <3>2, <3>3, MoveOrderly
  <2> QED
    BY <1>7, <2>1, ForceFailOrderly DEF ForceFailStep
<1>8. ASSUME ProcessExits
      PROVE  Orderly
  BY <1>8, StandOrderly DEF ProcessExits, AgyExits
<1>9. ASSUME NEW b \in Bridges, Crash(b) \/ Restart(b) \/ Die(b)
      PROVE  Orderly
  <2>1. CASE Restart(b)
    BY <2>1, StandOrderly DEF Restart
  <2> QED
    BY <1>9, <2>1, DieOrderly DEF Crash
<1> QED
  BY <1>4, <1>6, <1>7, <1>8, <1>9 DEF RegistryStep, Next, SoundStep, FileFault, FinalizeStep

----------------------------------------------------------------------------
\* What the record says of the process, in memory of the bridge that started the
\* job and on disk.

RecOK(j, b) ==
    /\ mem[b][j].state = "running" => \A a \in Attempts : agy[j][a] = "running" => a = mem[b][j].pid
    /\ disk[j].state = "running" /\ thread[j].pc # "respawned" =>
          \A a \in Attempts : agy[j][a] = "running" => a = disk[j].pid
    /\ thread[j].pc = "respawned" => j \in watched[b]

LEMMA Recorded ==
  RecordedInv <=> \A j \in Jobs \ unrecorded : owner[j] \in Bridges => RecOK(j, owner[j])
  BY DEF RecordedInv, RecOK, Live, Running

\* No process of job j is new, and a record of it is one that was there before.
RecordKeeps(j, b) ==
    /\ \A a \in Attempts : agy'[j][a] = "running" => agy[j][a] = "running"
    /\ mem'[b][j].state = "running" =>
          \/ mem'[b][j] = mem[b][j]
          \/ mem'[b][j] = disk[j] /\ thread[j].pc # "respawned"
    /\ disk'[j].state = "running" /\ thread'[j].pc # "respawned" =>
          \/ disk'[j] = disk[j] /\ thread[j].pc # "respawned"
          \/ disk'[j] = mem[b][j]
    /\ thread'[j].pc = "respawned" =>
          thread[j].pc = "respawned" /\ (j \in watched[b] => j \in watched'[b])

LEMMA RecordsKept ==
  ASSUME RecordedInv, unrecorded \subseteq unrecorded',
         \A j \in Jobs, b \in Bridges : owner'[j] = b /\ j \notin unrecorded' =>
             \/ owner[j] = b /\ (RecOK(j, b) => RecordKeeps(j, b))
             \/ RecOK(j, b)'
  PROVE  RecordedInv'
<1>1. ASSUME NEW j \in Jobs, j \notin unrecorded', NEW b \in Bridges, owner'[j] = b
      PROVE  RecOK(j, b)'
  <2>1. ASSUME RecordKeeps(j, b), RecOK(j, b)
        PROVE  RecOK(j, b)'
    BY <2>1 DEF RecordKeeps, RecOK
  <2>2. owner[j] = b => RecOK(j, b)
    BY <1>1, Recorded
  <2> QED
    BY <1>1, <2>1, <2>2
<1>2. ASSUME NEW j \in Jobs, j \notin unrecorded', owner'[j] \in Bridges
      PROVE  /\ Live(j)' = {a \in Attempts : agy'[j][a] = "running"}
             /\ \A b \in Bridges : owner'[j] = b => RecOK(j, b)'
  BY <1>1, <1>2 DEF Live
<1> QED
  BY <1>2 DEF RecordedInv, RecOK, Running

\* Nothing is written and no process starts.
LEMMA QuietRecords ==
  ASSUME RecordedInv, unrecorded \subseteq unrecorded', UNCHANGED <<disk, mem, owner, watched>>,
         \A j \in Jobs, a \in Attempts : agy'[j][a] = "running" => agy[j][a] = "running",
         \A j \in Jobs : \/ j \in unrecorded'
                         \/ thread'[j].pc = "respawned" <=> thread[j].pc = "respawned"
  PROVE  RecordedInv'
<1>1. \A j \in Jobs, b \in Bridges : owner'[j] = b /\ j \notin unrecorded' =>
         owner[j] = b /\ RecordKeeps(j, b)
  BY DEF RecordKeeps
<1> QED
  BY <1>1, RecordsKept

\* Thread t alone moves, not into and not out of a retry.
LEMMA MoveRecords ==
  ASSUME Inv, RecordedInv, unrecorded \subseteq unrecorded', UNCHANGED <<disk, mem, owner, watched>>,
         AgyKeeps \/ UNCHANGED agy,
         NEW t \in Threads, NEW th, thread' = [thread EXCEPT ![t] = th],
         thread[t].pc # "respawned", th.pc # "respawned"
  PROVE  RecordedInv'
<1>1. \A j \in Jobs : thread'[j].pc = "respawned" <=> thread[j].pc = "respawned"
  BY DEF Inv, Typed, TypeOK, Threads
<1> QED
  BY <1>1, QuietRecords DEF AgyKeeps

\* Thread t writes about job j alone, and it is not j's watcher in a retry.
LEMMA OneJobRecords ==
  ASSUME Inv, RecordedInv, unrecorded \subseteq unrecorded', UNCHANGED owner,
         NEW t \in Threads, NEW th, thread' = [thread EXCEPT ![t] = th], th.pc # "respawned",
         NEW j \in Jobs, thread[t].job = j, thread[t].pc # "idle",
         \A k \in Jobs : k # j => disk'[k] = disk[k],
         \A k \in Jobs, b \in Bridges : k # j => /\ mem'[b][k] = mem[b][k]
                                                 /\ k \in watched[b] => k \in watched'[b],
         \A k \in Jobs, a \in Attempts : agy'[k][a] = "running" => agy[k][a] = "running",
         \A b \in Bridges : owner[j] = b /\ j \notin unrecorded' /\ RecOK(j, b) => RecordKeeps(j, b)
  PROVE  RecordedInv'
<1>1. t \in Jobs => t = j
  BY Busy DEF Inv
<1>2. \A k \in Jobs : k # j => thread'[k] = thread[k]
  BY <1>1 DEF Inv, Typed, TypeOK, Threads
<1>3. \A k \in Jobs, b \in Bridges : k # j => RecordKeeps(k, b)
  BY <1>2 DEF RecordKeeps
<1> QED
  BY <1>3, RecordsKept

\* The end that a thread commits, adopts or finds is no running record; the locks
\* keep j's watcher from being in a retry.
LEMMA EndRecords ==
  ASSUME Inv, RecordedInv, unrecorded \subseteq unrecorded', UNCHANGED <<owner, disk, agy>>,
         NEW t \in Threads, thread[t].pc \in {"finalizing", "cancelling"}, CanLock(t),
         NEW th, thread' = [thread EXCEPT ![t] = th], th.pc # "respawned",
         NEW j \in Jobs, thread[t].job = j, NEW b \in Bridges, BridgeOf(t) = b,
         \A k \in Jobs, d \in Bridges : k # j \/ d # b => mem'[d][k] = mem[d][k],
         mem'[b][j].state # "running" \/ mem'[b][j] = mem[b][j],
         \A k \in Jobs, d \in Bridges : k # j => (k \in watched[d] => k \in watched'[d])
  PROVE  RecordedInv'
<1>1. Locked(t) /\ j \in Threads
  BY LockPhases DEF Locked, StartPhases, FlockPhases, Threads
<1>2. thread[j].pc # "respawned"
  <2>1. thread[j].pc = "respawned" => HoldsFlock(j) /\ thread[j].job = j
    BY <1>1, LockPhases, Busy DEF FlockPhases, Inv
  <2> QED
    BY <1>1, <2>1, AloneUnderLocks
<1>3. thread'[j].pc # "respawned"
  BY <1>1, <1>2 DEF Inv, Typed, TypeOK
<1>4. \A d \in Bridges : RecordKeeps(j, d)
  BY <1>2, <1>3 DEF RecordKeeps
<1>5. \A k \in Jobs, d \in Bridges : k # j =>
          mem'[d][k] = mem[d][k] /\ (k \in watched[d] => k \in watched'[d])
  OBVIOUS
<1>6. \A k \in Jobs, a \in Attempts : agy'[k][a] = "running" => agy[k][a] = "running"
  OBVIOUS
<1>7. thread[t].pc # "idle" /\ \A k \in Jobs : k # j => disk'[k] = disk[k]
  OBVIOUS
<1>8. \A d \in Bridges : owner[j] = d /\ j \notin unrecorded' /\ RecOK(j, d) => RecordKeeps(j, d)
  BY <1>4
<1> QED
  BY <1>5, <1>6, <1>7, <1>8, OneJobRecords

LEMMA CommitRecords ==
  ASSUME Inv, RecordedInv, unrecorded \subseteq unrecorded', NEW t \in Threads,
         thread[t].pc \in {"finalizing", "cancelling"}, CanLock(t),
         NEW s \in Terminal, NEW kill, Commit(t, s, kill)
  PROVE  RecordedInv'
<1> PICK j \in Jobs, b \in Bridges : j = thread[t].job /\ b = BridgeOf(t)
  BY StandingJob DEF StartPhases
<1> PICK rec : rec = EndedRecord(Known(b, j), s)
  OBVIOUS
<1> PICK th : th = Thread("publish", thread[t].op, j, kill)
  OBVIOUS
<1>1. rec.state # "running" /\ th.pc = "publish"
  BY EndedFields DEF Terminal, Thread
<1>2. /\ mem' = [mem EXCEPT ![b] = [@ EXCEPT ![j] = rec]]
      /\ thread' = [thread EXCEPT ![t] = th] /\ UNCHANGED <<owner, disk, agy>> /\ Unwatch(b, j)
  BY DEF Commit
<1>3. /\ mem'[b][j] = rec
      /\ \A k \in Jobs, d \in Bridges : k # j \/ d # b => mem'[d][k] = mem[d][k]
  BY <1>2 DEF Inv, Typed, TypeOK
<1>4. \A k \in Jobs, d \in Bridges : k # j => (k \in watched[d] => k \in watched'[d])
  BY <1>2, UnwatchSets
<1>5. th.pc # "respawned" /\ (mem'[b][j].state # "running" \/ mem'[b][j] = mem[b][j])
  BY <1>1, <1>3
<1>6. UNCHANGED <<owner, disk, agy>> /\ thread[t].job = j /\ BridgeOf(t) = b
  BY <1>2
<1>7. thread' = [thread EXCEPT ![t] = th]
  BY <1>2
<1> QED
  BY <1>3, <1>4, <1>5, <1>6, <1>7, EndRecords

LEMMA AdoptRecords ==
  ASSUME Inv, RecordedInv, unrecorded \subseteq unrecorded', NEW t \in Threads,
         FinalizeAdopts(t) \/ (t \in Callers /\ CancelFindsEnded(t))
  PROVE  RecordedInv'
<1>1. thread[t].pc \in {"finalizing", "cancelling"} /\ CanLock(t)
  BY DEF FinalizeAdopts, CancelFindsEnded
<1> PICK j \in Jobs, b \in Bridges : j = thread[t].job /\ b = BridgeOf(t)
  BY <1>1, StandingJob DEF StartPhases
<1> PICK th : th = Idle
  OBVIOUS
<1>2. t \in Callers => Home[t] = b
  BY <1>1, Busy DEF Inv
<1>3. /\ mem' = mem \/ (EndedOnDisk(j) /\ mem' = [mem EXCEPT ![b] = [@ EXCEPT ![j] = disk[j]]])
      /\ thread' = [thread EXCEPT ![t] = th] /\ UNCHANGED <<owner, disk, agy>>
      /\ watched' = watched \/ Unwatch(b, j)
  BY <1>2 DEF FinalizeAdopts, CancelFindsEnded, Return
<1>4. /\ mem'[b][j].state # "running" \/ mem'[b][j] = mem[b][j]
      /\ \A k \in Jobs, d \in Bridges : k # j \/ d # b => mem'[d][k] = mem[d][k]
  BY <1>3 DEF Inv, Typed, TypeOK, EndedOnDisk, Terminal
<1>5. \A k \in Jobs, d \in Bridges : k # j => (k \in watched[d] => k \in watched'[d])
  BY <1>3, UnwatchSets
<1>6. th.pc # "respawned"
  BY IdleTyped
<1>7. UNCHANGED <<owner, disk, agy>> /\ thread[t].job = j /\ BridgeOf(t) = b
  BY <1>3
<1>8. thread' = [thread EXCEPT ![t] = th]
  BY <1>3
<1> QED
  BY <1>1, <1>4, <1>5, <1>6, <1>7, <1>8, EndRecords

LEMMA RetryRecords ==
  ASSUME Inv, RecordedInv, unrecorded \subseteq unrecorded', NEW t \in Threads, FinalizeRetries(t)
  PROVE  RecordedInv'
<1> PICK b \in Bridges, a \in Attempts : b = owner[t] /\ a = mem[b][t].attempts + 1
  BY RetryEffect
<1>1. /\ t \in Jobs /\ \A i \in Attempts : agy[t][i] # "running"
      /\ thread[t] \in ThreadStates /\ t \in watched[b]
  <2>1. t \in Jobs /\ thread[t].job = t /\ BridgeOf(t) = b /\ MayRetry(t)
        /\ \A i \in Attempts : agy[t][i] # "running"
    BY RetryEffect DEF FinalizeRetries
  <2>2. t \in watched[b]
    BY <2>1 DEF MayRetry
  <2>3. thread[t] \in ThreadStates
    BY DEF Inv, Typed, TypeOK
  <2> QED
    BY <2>1, <2>2, <2>3
<1> PICK th : th = Phase(t, "respawned")
  OBVIOUS
<1>2. th.pc = "respawned"
  BY <1>1, PhaseTyped DEF Phases
<1>3. /\ \A k \in Jobs, i \in Attempts :
            agy'[k][i] = IF k = t /\ i = a THEN "running" ELSE agy[k][i]
      /\ mem'[b][t].pid = a
      /\ \A d \in Bridges, k \in Jobs : d # b \/ k # t => mem'[d][k] = mem[d][k]
      /\ UNCHANGED <<disk, watched, owner>>
  BY RetryWrites, RetrySpawns
<1>6. thread' = [thread EXCEPT ![t] = th]
  BY RetryWrites
<1>7. \A k \in Jobs : thread'[k] = IF k = t THEN th ELSE thread[k]
  BY <1>6 DEF Inv, Typed, TypeOK, Threads
<1>4. \A d \in Bridges : owner[t] = d => RecOK(t, d)'
  BY <1>1, <1>2, <1>3, <1>7 DEF RecOK
<1>5. \A k \in Jobs, d \in Bridges : k # t => RecordKeeps(k, d)
  BY <1>3, <1>7 DEF RecordKeeps
<1> QED
  BY <1>3, <1>4, <1>5, RecordsKept

LEMMA RetryPersistRecords ==
  ASSUME Inv, RecordedInv, unrecorded \subseteq unrecorded', NEW t \in Threads, RetryPersist(t)
  PROVE  RecordedInv'
<1>1. thread[t].pc = "respawned"
  BY DEF RetryPersist
<1> PICK j \in Jobs, d \in Bridges : j = thread[t].job /\ d = BridgeOf(t)
  BY <1>1, StandingJob DEF StartPhases
<1> PICK w : w = Watcher(j, mem[d][j].pid)
  OBVIOUS
<1>2. w.pc = "waiting"
  BY DEF Watcher, Thread
<1>3. /\ thread' = [thread EXCEPT ![t] = w] /\ UNCHANGED <<owner, mem, agy, watched>>
      /\ disk' = [disk EXCEPT ![j] = mem[d][j]]
  BY DEF RetryPersist
<1>4. t = j
  <2>1. t \notin Callers
    BY <1>1, Busy DEF Inv, WatcherPhases
  <2> QED
    BY <1>1, <2>1, Busy DEF Inv, Threads
<1>5. disk'[j] = mem[d][j] /\ \A k \in Jobs : k # j => disk'[k] = disk[k]
  BY <1>3 DEF Inv, Typed, TypeOK
<1>6. thread'[j].pc # "respawned" /\ owner[j] = d
  BY <1>2, <1>3, <1>4 DEF Inv, Typed, TypeOK, BridgeOf
<1>7. \A b \in Bridges : owner[j] = b => RecordKeeps(j, b)
  BY <1>3, <1>5, <1>6 DEF RecordKeeps
<1> QED
  BY <1>1, <1>2, <1>3, <1>5, <1>7, OneJobRecords

LEMMA PublishRecords ==
  ASSUME Inv, RecordedInv, unrecorded \subseteq unrecorded', NEW t \in Threads, Publish(t)
  PROVE  RecordedInv'
<1>1. /\ thread[t].pc = "publish" /\ thread[t] \in ThreadStates
      /\ AfterPublish(t) \in {"signal", "notify"}
  BY Busy DEF Publish, Inv, AfterPublish
<1> PICK j \in Jobs, d \in Bridges : j = thread[t].job /\ d = BridgeOf(t)
  BY <1>1, StandingJob DEF StartPhases
<1> PICK th : th = Phase(t, AfterPublish(t))
  OBVIOUS
<1>2. th.pc \in {"signal", "notify"}
  BY <1>1, PhaseTyped DEF Phases
<1>3. thread' = [thread EXCEPT ![t] = th] /\ UNCHANGED <<owner, mem, agy, watched>>
  BY DEF Publish
<1>4. disk'[j].state # "running" /\ \A k \in Jobs : k # j => disk'[k] = disk[k]
  BY PublishEffect DEF Terminal
<1>5. thread'[j].pc = "respawned" => thread[j].pc = "respawned"
  BY <1>2, <1>3 DEF Inv, Typed, TypeOK, Threads
<1>6. \A b \in Bridges : RecordKeeps(j, b)
  BY <1>3, <1>4, <1>5 DEF RecordKeeps
<1> QED
  BY <1>1, <1>2, <1>3, <1>4, <1>6, OneJobRecords

LEMMA FailsRecords ==
  ASSUME Inv, RecordedInv, unrecorded \subseteq unrecorded', Forgotten \subseteq unrecorded',
         NEW t \in Threads, FinalizeFails(t)
  PROVE  RecordedInv'
<1>1. /\ thread[t].pc \in {"finalize", "cancel", "publish", "respawned"}
      /\ thread[t] \in ThreadStates /\ UNCHANGED <<disk, mem, owner, watched, agy>>
  BY Busy DEF FinalizeFails, Inv
<1>2. PICK th \in {Phase(t, "forcefail"), Idle} : thread' = [thread EXCEPT ![t] = th]
  BY DEF FinalizeFails, Return
<1>3. th.pc # "respawned"
  BY <1>1, <1>2, IdleTyped, PhaseTyped DEF Phases
<1>4. ASSUME NEW j \in Jobs, j \notin unrecorded'
      PROVE  thread'[j].pc = "respawned" <=> thread[j].pc = "respawned"
  <2>1. j = t => thread[t].pc # "respawned"
    <3>1. j = t => thread[t].job = j
      BY <1>1, Busy DEF Inv
    <3>2. thread[t].pc = "respawned" => thread[t].job \in Forgotten
      BY DEF Forgotten, FailingIn
    <3> QED
      BY <1>4, <3>1, <3>2
  <2> QED
    BY <1>2, <1>3, <2>1 DEF Inv, Typed, TypeOK, Threads
<1> QED
  BY <1>1, <1>4, QuietRecords

LEMMA ForceFailRecords ==
  ASSUME Inv, RecordedInv, unrecorded \subseteq unrecorded', NEW j \in Jobs,
         NEW written \in BOOLEAN, ForceFail(j, written)
  PROVE  RecordedInv'
<1>1. /\ j \in Threads /\ thread[j].pc = "forcefail" /\ thread[j].job = j
      /\ thread[j] \in ThreadStates /\ BridgeOf(j) \in Bridges
  BY Busy DEF ForceFail, Threads, Inv
<1> PICK d \in Bridges : d = BridgeOf(j)
  BY <1>1
<1> PICK failed : failed = EndedRecord(mem[d][j], "failed")
  OBVIOUS
<1> PICK th : th = Phase(j, "closing")
  OBVIOUS
<1>2. failed.state # "running" /\ th.pc = "closing"
  BY <1>1, EndedFields, PhaseTyped DEF Phases
<1>3. /\ thread' = [thread EXCEPT ![j] = th] /\ UNCHANGED <<owner, agy>>
      /\ watched' = [watched EXCEPT ![d] = @ \ {j}]
      /\ disk' = [disk EXCEPT ![j] = failed] \/ disk' = disk
      /\ mem' = [mem EXCEPT ![d] = [@ EXCEPT ![j] = failed]] \/ mem' = mem
  BY DEF ForceFail
<1>4. /\ disk'[j] = failed \/ disk'[j] = disk[j]
      /\ \A k \in Jobs : k # j => disk'[k] = disk[k]
      /\ \A k \in Jobs, b \in Bridges : k # j => /\ mem'[b][k] = mem[b][k]
                                                 /\ k \in watched[b] => k \in watched'[b]
      /\ \A b \in Bridges : mem'[b][j] = failed \/ mem'[b][j] = mem[b][j]
      /\ thread'[j] = th
  BY <1>1, <1>3 DEF Inv, Typed, TypeOK
<1>5. \A b \in Bridges : RecordKeeps(j, b)
  BY <1>1, <1>2, <1>3, <1>4 DEF RecordKeeps
<1> QED
  BY <1>1, <1>2, <1>3, <1>4, <1>5, OneJobRecords

LEMMA StartSpawnRecords ==
  ASSUME Inv, RecordedInv, unrecorded \subseteq unrecorded', NEW c \in Callers, NEW j \in Jobs,
         NEW served \in BOOLEAN, StartSpawn(c, j, served)
  PROVE  RecordedInv'
<1> PICK d \in Bridges : d = Home[c]
  BY RegistryAssumption
<1> PICK rec : rec = [state |-> "running", attempts |-> 1, pid |-> 1]
  OBVIOUS
<1> PICK th : th = Thread("spawned", "start", j, 0)
  OBVIOUS
<1>1. /\ c \in Threads /\ c \notin Jobs /\ agy[j][1] = "none" /\ rec.pid = 1 /\ th.pc = "spawned"
  BY RegistryAssumption DEF Threads, StartSpawn, Thread
<1>2. /\ thread' = [thread EXCEPT ![c] = th] /\ UNCHANGED disk
      /\ owner' = [owner EXCEPT ![j] = d]
      /\ agy' = [agy EXCEPT ![j] = [@ EXCEPT ![1] = "running"]]
      /\ mem' = [mem EXCEPT ![d] = [@ EXCEPT ![j] = rec]]
      /\ watched' = [watched EXCEPT ![d] = @ \cup {j}]
  BY DEF StartSpawn
<1>3. /\ disk[j] = Absent /\ \A a \in Attempts : agy[j][a] = "none"
      /\ thread[j].pc = "idle" /\ j \in Threads
  <2>1. j \in Threads
    BY DEF Threads
  <2> QED
    BY <1>1, <2>1, UnknownJob, Busy DEF Inv
<1>4. /\ mem'[d][j] = rec /\ owner'[j] = d /\ thread'[j].pc = "idle"
      /\ \A a \in Attempts : agy'[j][a] = "running" => a = 1
  BY <1>1, <1>2, <1>3 DEF Inv, Typed, TypeOK
<1>5. RecOK(j, d)'
  BY <1>1, <1>2, <1>3, <1>4, AbsentState DEF RecOK
<1>6. ASSUME NEW k \in Jobs, k # j, NEW b \in Bridges
      PROVE  owner'[k] = owner[k] /\ RecordKeeps(k, b)
  <2>1. /\ owner'[k] = owner[k] /\ mem'[b][k] = mem[b][k] /\ agy'[k] = agy[k]
        /\ thread'[k] = thread[k] /\ (k \in watched[b] => k \in watched'[b])
    BY <1>1, <1>2, <1>6 DEF Inv, Typed, TypeOK, Threads
  <2> QED
    BY <1>2, <2>1 DEF RecordKeeps
<1> QED
  BY <1>4, <1>5, <1>6, RecordsKept

LEMMA StartPersistRecords ==
  ASSUME Inv, RecordedInv, unrecorded \subseteq unrecorded', NEW c \in Callers, StartPersist(c)
  PROVE  RecordedInv'
<1>0. Starting(c) /\ Starter(c)
  BY DEF StartPersist, Starting, Starter
<1> PICK j \in Jobs, d \in Bridges : j = thread[c].job /\ d = Home[c]
  BY <1>0, StarterFacts
<1> PICK w : w = Watcher(j, 1)
  OBVIOUS
<1>1. /\ c \in Threads /\ c \notin Jobs /\ j \in Threads /\ j # c /\ owner[j] = d
      /\ w.pc = "waiting"
  BY <1>0, StarterFacts DEF Threads, Watcher, Thread
<1>2. /\ UNCHANGED <<mem, watched, owner, agy>>
      /\ \A k \in Jobs : thread'[k] = IF k = j THEN w ELSE thread[k]
      /\ \A k \in Jobs : disk'[k] = IF k = j THEN mem[d][j] ELSE disk[k]
  BY <1>1 DEF StartPersist, Inv, Typed, TypeOK, Threads
<1>3. \A k \in Jobs, b \in Bridges : owner[k] = b => RecordKeeps(k, b)
  BY <1>1, <1>2 DEF RecordKeeps
<1> QED
  BY <1>2, <1>3, RecordsKept

LEMMA StartForgetsRecords ==
  ASSUME Inv, RecordedInv, unrecorded \subseteq unrecorded', NEW c \in Callers, StartForgets(c)
  PROVE  RecordedInv'
<1>0. Starter(c) /\ Withdrawing(c) /\ thread[c].pc = "forgetting"
  BY DEF StartForgets, Withdrawing, Starter
<1> PICK j \in Jobs, d \in Bridges : j = thread[c].job /\ d = Home[c]
  BY <1>0, StarterFacts
<1> PICK th : th = Phase(c, "closing")
  OBVIOUS
<1>1. c \in Threads /\ c \notin Jobs /\ Aborted(j) /\ th.pc = "closing"
  <2>1. c \in Threads /\ c \notin Jobs /\ Aborted(j)
    BY <1>0, StarterFacts
  <2>2. thread[c] \in ThreadStates
    BY <1>0, <2>1, Busy DEF Inv
  <2> QED
    BY <2>1, <2>2, PhaseTyped DEF Phases
<1>2. /\ thread' = [thread EXCEPT ![c] = th] /\ UNCHANGED <<owner, mem, agy>>
      /\ watched' = [watched EXCEPT ![d] = @ \ {j}]
      /\ disk' = [disk EXCEPT ![j] = Absent]
  BY DEF StartForgets
<1>3. /\ disk'[j] = Absent /\ \A k \in Jobs : k # j => disk'[k] = disk[k]
      /\ \A k \in Jobs, b \in Bridges : k # j => (k \in watched[b] => k \in watched'[b])
      /\ \A k \in Jobs : thread'[k] = thread[k]
  BY <1>1, <1>2 DEF Inv, Typed, TypeOK, Threads
<1>4. thread'[j].pc # "respawned"
  BY <1>1, <1>3, AbortedFacts
<1>5. \A b \in Bridges : RecordKeeps(j, b)
  BY <1>2, <1>3, <1>4, AbsentState DEF RecordKeeps
<1> QED
  BY <1>0, <1>1, <1>2, <1>3, <1>5, OneJobRecords

\* get() of a job that this bridge does not watch takes over the record on disk.
LEMMA GetRecords ==
  ASSUME Inv, RecordedInv, unrecorded \subseteq unrecorded', NEW c \in Callers, NEW j \in Jobs,
         NEW op \in {"get", "cancel"}, Get(c, op, j)
  PROVE  RecordedInv'
<1> PICK d \in Bridges : d = Home[c]
  BY RegistryAssumption
<1> PICK rec : rec = Current(d, j)
  OBVIOUS
<1>1. /\ mem' = [mem EXCEPT ![d] = [@ EXCEPT ![j] = rec]]
      /\ UNCHANGED <<disk, watched, agy, owner>>
      /\ \E th : thread' = [thread EXCEPT ![c] = th]
  BY DEF Get, Proceed
<1>2. /\ \A k \in Jobs, b \in Bridges : k # j \/ b # d => mem'[b][k] = mem[b][k]
      /\ mem'[d][j] = rec
      /\ \A k \in Jobs : thread'[k] = thread[k]
  BY <1>1, RegistryAssumption DEF Inv, Typed, TypeOK, Threads
<1>3. rec = mem[d][j] \/ (rec = disk[j] /\ j \notin watched[d]) \/ rec = Absent
  BY DEF Current, Cached
<1>4. \A k \in Jobs, b \in Bridges : RecOK(k, b) => RecordKeeps(k, b)
  BY <1>1, <1>2, <1>3, AbsentState DEF RecordKeeps, RecOK
<1> QED
  BY <1>1, <1>4, RecordsKept

LEMMA DieRecords ==
  ASSUME Inv, RecordedInv, unrecorded \subseteq unrecorded', NEW d \in Bridges, Die(d)
  PROVE  RecordedInv'
<1>1. /\ UNCHANGED disk
      /\ \A b \in Bridges : b # d => watched'[b] = watched[b] /\ mem'[b] = mem[b]
      /\ \A k \in Jobs : owner'[k] = IF owner[k] = d THEN NoBridge ELSE owner[k]
      /\ \A k \in Jobs, a \in Attempts : agy'[k][a] = "running" => agy[k][a] = "running"
      /\ \A k \in Jobs : owner[k] # d => thread'[k] = thread[k]
  BY DEF Die, Inv, Typed, TypeOK, BridgeOf, Threads
<1>2. \A k \in Jobs, b \in Bridges : owner'[k] = b => owner[k] = b /\ b # d
  BY <1>1, RegistryAssumption
<1>3. \A k \in Jobs, b \in Bridges : owner'[k] = b => RecordKeeps(k, b)
  BY <1>1, <1>2 DEF RecordKeeps
<1> QED
  BY <1>2, <1>3, RecordsKept

LEMMA RegistryRecords ==
  ASSUME Inv, RecordedInv, unrecorded \subseteq unrecorded', Forgotten \subseteq unrecorded',
         RegistryStep
  PROVE  RecordedInv'
<1>1. thread \in [Threads -> ThreadStates] /\ Idle.pc = "idle"
  BY IdleTyped DEF Inv, Typed, TypeOK
<1>2. ASSUME NEW t \in Threads, NEW pc \in Phases, pc # "respawned", thread[t].pc # "respawned",
             thread' = [thread EXCEPT ![t] = Phase(t, pc)],
             UNCHANGED <<disk, mem, watched, owner>>, AgyKeeps \/ UNCHANGED agy
      PROVE  RecordedInv'
  <2> PICK th : th = Phase(t, pc)
    OBVIOUS
  <2>1. th.pc = pc
    BY <1>1, PhaseTyped
  <2> QED
    BY <1>2, <2>1, MoveRecords
<1>3. ASSUME NEW t \in Threads, Return(t), thread[t].pc # "respawned",
             UNCHANGED <<disk, mem, watched, owner, agy>>
      PROVE  RecordedInv'
  <2> PICK th : th = Idle
    OBVIOUS
  <2>1. thread' = [thread EXCEPT ![t] = th] /\ th.pc # "respawned"
    BY <1>1, <1>3 DEF Return
  <2> QED
    BY <1>3, <2>1, MoveRecords
<1>4. ASSUME NEW t \in Threads,
             FinalizeStep(t) \/ RetryFails(t) \/ FinalizeFails(t) \/ CloseServer(t)
      PROVE  RecordedInv'
  <2>1. CASE ReadOutput(t)
    <3>1. PICK th : th.pc = "finalize" /\ thread' = [thread EXCEPT ![t] = th]
      BY <1>1, <2>1 DEF ReadOutput
    <3> QED
      BY <2>1, <3>1, MoveRecords DEF ReadOutput
  <2>2. CASE TakeFirst(t)
    <3>1. PICK pc \in {"finalizing", "cancelling"} : thread' = [thread EXCEPT ![t] = Phase(t, pc)]
      BY <2>2 DEF TakeFirst
    <3> QED
      BY <1>2, <2>2, <3>1 DEF TakeFirst, Phases
  <2>3. CASE FinalizeReenters(t) \/ Notify(t) \/ CloseServer(t)
    BY <1>3, <2>3 DEF FinalizeReenters, Notify, CloseServer
  <2>4. CASE Signal(t)
    <3>1. thread[t].pc = "signal" /\ thread[t].job \in Jobs
      BY <2>4, Busy DEF Signal, Inv
    <3>2. AgyKeeps
      BY <2>4, <3>1, SignalEffect
    <3> QED
      BY <1>2, <2>4, <3>1, <3>2 DEF Signal, Phases
  <2>5. CASE FinalizeEnds(t) \/ RetryFails(t)
    <3>1. PICK s \in Terminal : Commit(t, s, 0)
      BY <2>5 DEF FinalizeEnds, RetryFails, Outcome, Terminal
    <3> QED
      BY <2>5, <3>1, CommitRecords DEF FinalizeEnds, RetryFails, Finalizing
  <2> QED
    BY <1>4, <2>1, <2>2, <2>3, <2>4, <2>5, AdoptRecords, RetryRecords, RetryPersistRecords,
       PublishRecords, FailsRecords DEF FinalizeStep, FinalizeGoesOn
<1>5. ASSUME NEW c \in Callers,
             Calls(c) \/ CallStep(c) \/ StartRaises(c) \/ KillStarted(c) \/ StartForgets(c)
      PROVE  RecordedInv'
  <2>1. c \in Threads
    BY DEF Threads
  <2>2. CASE Probe(c)
    <3>1. PICK th : th.pc # "respawned" /\ thread' = [thread EXCEPT ![c] = th]
      <4>1. /\ Thread("cancel", thread[c].op, thread[c].job, 0).pc = "cancel"
            /\ Phase(c, "readout").pc = "readout"
        BY <1>1, <2>1, PhaseTyped DEF Thread, Phases
      <4> QED
        BY <1>1, <2>2, <4>1 DEF Probe, Proceed
    <3> QED
      BY <2>1, <2>2, <3>1, MoveRecords DEF Probe
  <2>3. CASE CancelCommits(c)
    BY <2>1, <2>3, CommitRecords DEF CancelCommits, Terminal
  <2>4. CASE StartRaises(c)
    BY <1>2, <2>1, <2>4 DEF StartRaises, Phases
  <2>5. CASE KillStarted(c)
    <3>1. AgyKeeps
      <4>1. Starter(c)
        BY <2>5 DEF KillStarted, Starter, Withdrawing
      <4>2. thread[c].job \in Jobs /\ agy[thread[c].job][1] # "none"
        BY <4>1, StarterFacts
      <4> QED
        BY <2>5, <4>2 DEF KillStarted, AgyKeeps, Inv, Typed, TypeOK
    <3> QED
      BY <1>2, <2>1, <2>5, <3>1 DEF KillStarted, Phases
  <2> QED
    BY <1>5, <2>1, <2>2, <2>3, <2>4, <2>5, AdoptRecords, StartSpawnRecords, GetRecords,
       StartPersistRecords, StartForgetsRecords DEF Calls, CallStep
<1>6. ASSUME NEW j \in Jobs, WatchStep(j) \/ ForceFailStep(j)
      PROVE  RecordedInv'
  <2>1. CASE WatchStep(j)
    <3>1. \A rc : Reaped(j, rc).pc = "readout"
      BY DEF Reaped
    <3>2. PICK rc : thread' = [thread EXCEPT ![j] = Reaped(j, rc)]
      BY <2>1 DEF WatchStep, WatchReap, WatchTimeout
    <3>3. UNCHANGED <<disk, mem, watched, owner>> /\ AgyKeeps /\ thread[j].pc = "waiting"
          /\ j \in Threads
      BY <2>1, WatchEffect DEF Threads, WatchStep, WatchReap, WatchTimeout
    <3> PICK th : th = Reaped(j, rc)
      OBVIOUS
    <3> QED
      BY <3>1, <3>2, <3>3, MoveRecords
  <2> QED
    BY <1>6, <2>1, ForceFailRecords DEF ForceFailStep
<1>7. ASSUME ProcessExits
      PROVE  RecordedInv'
  BY <1>7, ProcessEffect, QuietRecords DEF AgyKeeps
<1>8. ASSUME NEW b \in Bridges, Crash(b) \/ Restart(b) \/ Die(b)
      PROVE  RecordedInv'
  <2>1. CASE Restart(b)
    BY <2>1, QuietRecords DEF Restart
  <2> QED
    BY <1>8, <2>1, DieRecords DEF Crash
<1> QED
  BY <1>4, <1>5, <1>6, <1>7, <1>8 DEF RegistryStep, Next, SoundStep, FileFault, FinalizeStep

----------------------------------------------------------------------------
\* What a cancel aims at: a process that is still there when the record is public
\* is the one whose pid the caller noted before.

Aimed(c) == \A a \in Live(thread[c].job) : a = thread[c].pid /\ thread[c].pc # "notify"
CancelledHere(c) ==
    Concluding(c) /\ owner[thread[c].job] = Home[c] /\ Decided(c) = "cancelled"

\* Caller c goes on with the same record, and no process of its job is new.
Kept(c) ==
    LET j == thread[c].job IN
    /\ thread'[c] = thread[c]
    /\ Concluding(c) =>
          /\ owner'[j] = Home[c] => owner[j] = Home[c]
          /\ thread[c].pc = "publish" => mem'[Home[c]][j] = mem[Home[c]][j]
          /\ thread[c].pc # "publish" => disk'[j] = disk[j] \/ disk'[j].state # "cancelled"
          /\ \A a \in Attempts : agy'[j][a] = "running" => agy[j][a] = "running"

\* Caller c is about to end its job in this step, or does not.
Ends(c) == thread'[c].pc \in {"publish", "signal", "notify"}

LEMMA KeptAims ==
  ASSUME NEW c \in Callers, Kept(c), CancelledHere(c)', CancelledHere(c) => Aimed(c)
  PROVE  Aimed(c)'
<1>1. /\ thread'[c] = thread[c] /\ Concluding(c)
      /\ owner[thread[c].job] = Home[c]
  BY DEF Kept, CancelledHere, Concluding
<1>2. Decided(c)' = Decided(c) \/ Decided(c)' # "cancelled"
  BY <1>1 DEF Kept, Decided
<1>3. Aimed(c)
  BY <1>1, <1>2 DEF CancelledHere
<1> QED
  BY <1>1, <1>3 DEF Kept, Aimed, Live

\* Each caller is in no end, keeps what it has or aims at the right process.
LEMMA CancelsKept ==
  ASSUME CancelInv, unrecorded \subseteq unrecorded',
         \A c \in Callers : \/ ~Ends(c) \/ Kept(c)
                            \/ CancelledHere(c)' /\ thread'[c].job \notin unrecorded' => Aimed(c)'
  PROVE  CancelInv'
<1>1. \A c \in Callers : CancelledHere(c) /\ thread[c].job \notin unrecorded => Aimed(c)
  BY DEF CancelInv, CancelledHere, Aimed
<1>2. ASSUME NEW c \in Callers, CancelledHere(c)', thread'[c].job \notin unrecorded'
      PROVE  Aimed(c)'
  <2>1. Ends(c)
    BY <1>2 DEF CancelledHere, Concluding, Ends
  <2>2. CASE Kept(c)
    <3>1. thread[c].job \notin unrecorded
      BY <1>2, <2>2 DEF Kept
    <3> QED
      BY <1>1, <1>2, <2>2, <3>1, KeptAims
  <2> QED
    BY <1>2, <2>1, <2>2
<1> QED
  BY <1>2 DEF CancelInv, CancelledHere, Aimed

\* Who concludes works for a job.
LEMMA ConcludingJob ==
  ASSUME Inv, NEW c \in Callers, Concluding(c)
  PROVE  /\ c \in Threads /\ thread[c].job \in Jobs /\ thread[c].pc # "idle"
         /\ BridgeOf(c) = Home[c] /\ Home[c] \in Bridges
<1>1. c \in Threads /\ c \notin Jobs
  BY RegistryAssumption DEF Threads
<1> QED
  BY <1>1, StandingJob, RegistryAssumption DEF Concluding, StartPhases, BridgeOf

\* Thread t alone moves; the others' records and processes stay as they are.
LEMMA OthersKept ==
  ASSUME Inv, NEW t \in Threads, NEW th, thread' = [thread EXCEPT ![t] = th],
         NEW c \in Callers, c # t,
         Concluding(c) => LET j == thread[c].job IN
             /\ owner'[j] = owner[j]
             /\ thread[c].pc = "publish" => mem'[Home[c]][j] = mem[Home[c]][j]
             /\ thread[c].pc # "publish" => disk'[j] = disk[j] \/ disk'[j].state # "cancelled"
             /\ \A a \in Attempts : agy'[j][a] = "running" => agy[j][a] = "running"
  PROVE  Kept(c)
<1>1. thread'[c] = thread[c]
  BY DEF Inv, Typed, TypeOK, Threads
<1> QED
  BY <1>1 DEF Kept

\* A step that writes no record and starts no process.
LEMMA QuietCancels ==
  ASSUME Inv, CancelInv, unrecorded \subseteq unrecorded', NEW t \in Threads, NEW th,
         thread' = [thread EXCEPT ![t] = th], th.pc \notin {"publish", "signal", "notify"},
         UNCHANGED <<disk, mem, owner>>, AgyKeeps \/ UNCHANGED agy
  PROVE  CancelInv'
<1>1. ASSUME NEW c \in Callers, c # t
      PROVE  Kept(c)
  <2>1. Concluding(c) => thread[c].job \in Jobs
    BY ConcludingJob
  <2> QED
    BY <1>1, <2>1, OthersKept DEF AgyKeeps
<1>2. ~Ends(t)
  BY DEF Ends, Inv, Typed, TypeOK
<1> QED
  BY <1>1, <1>2, CancelsKept

\* A step under the mutex of t's bridge that writes only to that bridge's memory.
LEMMA LockedCancels ==
  ASSUME Inv, CancelInv, unrecorded \subseteq unrecorded', NEW t \in Threads, NEW th,
         thread' = [thread EXCEPT ![t] = th], UNCHANGED <<disk, agy, owner>>,
         \A u \in Threads : u # t /\ BridgeOf(u) = BridgeOf(t) => ~HoldsMutex(u),
         \A b \in Bridges : b # BridgeOf(t) => mem'[b] = mem[b],
         t \in Callers => \/ ~Ends(t)
                          \/ CancelledHere(t)' /\ thread'[t].job \notin unrecorded' => Aimed(t)'
  PROVE  CancelInv'
<1>1. ASSUME NEW c \in Callers, c # t
      PROVE  Kept(c)
  <2>1. Concluding(c) => c \in Threads /\ BridgeOf(c) = Home[c] /\ Home[c] \in Bridges
    BY ConcludingJob
  <2>2. thread[c].pc = "publish" => Home[c] # BridgeOf(t)
    BY <1>1, <2>1, LockPhases DEF Concluding
  <2> QED
    BY <1>1, <2>1, <2>2, OthersKept
<1> QED
  BY <1>1, CancelsKept

LEMMA CommitCancels ==
  ASSUME Inv, CancelInv, unrecorded \subseteq unrecorded', NEW t \in Threads,
         thread[t].pc \in {"finalizing", "cancelling"},
         CanLock(t), NEW s, NEW kill, Commit(t, s, kill),
         t \in Callers /\ s = "cancelled" /\ owner[thread[t].job] = Home[t]
             /\ thread[t].job \notin unrecorded => \A a \in Live(thread[t].job) : a = kill
  PROVE  CancelInv'
<1> PICK j \in Jobs, d \in Bridges : j = thread[t].job /\ d = BridgeOf(t)
  BY StandingJob DEF StartPhases
<1> DEFINE th == Thread("publish", thread[t].op, thread[t].job, kill)
<1>1. /\ th.pc = "publish" /\ th.job = j /\ th.pid = kill
      /\ thread' = [thread EXCEPT ![t] = th] /\ UNCHANGED <<disk, agy, owner>>
  BY DEF Thread, Commit
<1> HIDE DEF th
<1>2. \A u \in Threads : u # t /\ BridgeOf(u) = BridgeOf(t) => ~HoldsMutex(u)
  <2>1. Locked(t)
    BY LockPhases DEF Locked, StartPhases, FlockPhases
  <2> QED
    BY <2>1, AloneUnderLocks
<1>3. \A b \in Bridges : b # d => mem'[b] = mem[b]
  BY DEF Commit, Inv, Typed, TypeOK
<1>4. mem'[d][j].state = s
  <2>1. mem'[d][j] = EndedRecord(Known(d, j), s)
    BY DEF Commit, Inv, Typed, TypeOK
  <2> QED
    BY <2>1, EndedFields
<1>5. thread'[t] = th
  BY <1>1 DEF Inv, Typed, TypeOK
<1>6. ASSUME t \in Callers, CancelledHere(t)', thread'[t].job \notin unrecorded'
      PROVE  Aimed(t)'
  <2>1. d = Home[t]
    BY <1>6, Busy DEF Inv
  <2>2. s = "cancelled" /\ owner[j] = Home[t] /\ j \notin unrecorded
    BY <1>1, <1>4, <1>5, <1>6, <2>1 DEF CancelledHere, Decided
  <2>3. \A a \in Live(j) : a = kill
    BY <1>6, <2>2
  <2> QED
    BY <1>1, <1>5, <2>3 DEF Aimed, Live
<1> QED
  BY <1>1, <1>2, <1>3, <1>6, LockedCancels

\* A cancel in the bridge of the job finds its process in the record.
LEMMA CancelCommitsCancels ==
  ASSUME Inv, CancelInv, RecordedInv, unrecorded \subseteq unrecorded', NEW c \in Callers,
         CancelCommits(c)
  PROVE  CancelInv'
<1>1. /\ c \in Threads /\ thread[c].pc = "cancelling" /\ CanLock(c)
      /\ BridgeOf(c) = Home[c] /\ Home[c] \in Bridges
  BY RegistryAssumption DEF CancelCommits, Threads, BridgeOf
<1> PICK j \in Jobs, b \in Bridges : j = thread[c].job /\ b = Home[c]
  BY <1>1, StandingJob DEF StartPhases
<1>2. mem[b][j].state = "running" /\ Commit(c, "cancelled", PidToKill(b, j))
  BY DEF CancelCommits
<1>3. ASSUME owner[j] = b, j \notin unrecorded, NEW a \in Live(j)
      PROVE  a = PidToKill(b, j)
  <2>1. RecOK(j, b)
    BY <1>3, Recorded
  <2>2. a \in Attempts /\ agy[j][a] = "running" /\ a = mem[b][j].pid
    BY <1>2, <1>3, <2>1 DEF Live, RecOK
  <2>3. a # 0
    BY <2>2, RegistryAssumption DEF Attempts
  <2> QED
    BY <2>2, <2>3 DEF PidToKill, IsOurProcess
<1> QED
  BY <1>1, <1>2, <1>3, CommitCancels

LEMMA PublishCancels ==
  ASSUME Inv, CancelInv, unrecorded \subseteq unrecorded', NEW t \in Threads, Publish(t)
  PROVE  CancelInv'
<1>1. /\ thread[t].pc = "publish" /\ thread[t] \in ThreadStates
      /\ AfterPublish(t) \in {"signal", "notify"}
  BY Busy DEF Publish, Inv, AfterPublish
<1> PICK j \in Jobs, d \in Bridges : j = thread[t].job /\ d = BridgeOf(t)
  BY <1>1, StandingJob DEF StartPhases
<1> DEFINE th == Phase(t, AfterPublish(t))
<1>2. /\ th.pc = AfterPublish(t) /\ th.job = j /\ th.pid = thread[t].pid
      /\ thread' = [thread EXCEPT ![t] = th] /\ UNCHANGED <<mem, agy, owner>>
  BY <1>1, PhaseTyped DEF Phases, Publish
<1> HIDE DEF th
<1>3. disk'[j] = mem[d][j] /\ \A k \in Jobs : k # j => disk'[k] = disk[k]
  BY PublishEffect
<1>4. ASSUME NEW c \in Callers, c # t
      PROVE  Kept(c)
  <2>1. Concluding(c) => thread[c].job \in Jobs /\ thread[c].job # j
    BY <1>1, <1>4, ConcludingJob DEF Concluding, Inv, ReportInv
  <2> QED
    BY <1>2, <1>3, <1>4, <2>1, OthersKept
<1>5. ASSUME t \in Callers, CancelledHere(t)', thread'[t].job \notin unrecorded'
      PROVE  Aimed(t)'
  <2>1. thread'[t] = th /\ th.pc # "publish"
    BY <1>1, <1>2 DEF Inv, Typed, TypeOK
  <2>2. d = Home[t]
    BY <1>1, <1>5, Busy DEF Inv
  <2>3. disk'[j].state = "cancelled" /\ owner[j] = Home[t] /\ j \notin unrecorded
    BY <1>2, <1>5, <2>1 DEF CancelledHere, Decided
  <2>4. Decided(t) = "cancelled" /\ Concluding(t)
    BY <1>1, <1>3, <2>2, <2>3 DEF Decided, Concluding
  <2>5. \A a \in Live(j) : a = thread[t].pid
    BY <1>5, <2>3, <2>4 DEF CancelInv
  <2>6. \A a \in Live(j) : a # 0
    BY RegistryAssumption DEF Live, Attempts
  <2>7. \A a \in Live(j) : AfterPublish(t) = "signal"
    BY <2>5, <2>6 DEF AfterPublish
  <2> QED
    BY <1>2, <2>1, <2>5, <2>7 DEF Aimed, Live
<1> QED
  BY <1>4, <1>5, CancelsKept

LEMMA SignalCancels ==
  ASSUME Inv, CancelInv, unrecorded \subseteq unrecorded', NEW t \in Threads, Signal(t)
  PROVE  CancelInv'
<1>1. thread[t].pc = "signal" /\ thread[t] \in ThreadStates
  BY Busy DEF Signal, Inv
<1> PICK j \in Jobs : j = thread[t].job
  BY <1>1, StandingJob DEF StartPhases
<1> DEFINE th == Phase(t, "notify")
<1>2. /\ th.pc = "notify" /\ th.job = j
      /\ thread' = [thread EXCEPT ![t] = th] /\ UNCHANGED <<disk, mem, owner>>
  BY <1>1, PhaseTyped DEF Phases, Signal
<1> HIDE DEF th
<1>3. /\ \A k \in Jobs, a \in Attempts : agy'[k][a] = "running" => agy[k][a] = "running"
      /\ \A a \in Attempts : a = thread[t].pid => agy'[j][a] # "running"
  BY SignalEffect DEF AgyKeeps
<1>4. ASSUME NEW c \in Callers, c # t
      PROVE  Kept(c)
  <2>1. Concluding(c) => thread[c].job \in Jobs
    BY ConcludingJob
  <2> QED
    BY <1>2, <1>3, <1>4, <2>1, OthersKept
<1>5. ASSUME t \in Callers, CancelledHere(t)', thread'[t].job \notin unrecorded'
      PROVE  Aimed(t)'
  <2>1. thread'[t] = th
    BY <1>1, <1>2 DEF Inv, Typed, TypeOK
  <2>2. disk[j].state = "cancelled" /\ owner[j] = Home[t] /\ j \notin unrecorded
    BY <1>2, <1>5, <2>1 DEF CancelledHere, Decided
  <2>3. \A a \in Live(j) : a = thread[t].pid
    BY <1>1, <1>5, <2>2 DEF CancelInv, Decided, Concluding
  <2> QED
    BY <1>2, <1>3, <2>1, <2>3 DEF Aimed, Live
<1> QED
  BY <1>4, <1>5, CancelsKept

\* A caller that has ended job j has taken it from everybody else.
LEMMA EndedAlready ==
  ASSUME Inv, NEW c \in Callers, Concluding(c), ~HoldsFlock(c)
  PROVE  Over(thread[c].job)
<1>1. c \in Threads /\ thread[c].pc # "publish"
  BY LockPhases DEF Threads, FlockPhases
<1> QED
  BY <1>1 DEF Inv, ReportInv

LEMMA RetryCancels ==
  ASSUME Inv, CancelInv, unrecorded \subseteq unrecorded', NEW t \in Threads, FinalizeRetries(t)
  PROVE  CancelInv'
<1>1. /\ t \in Jobs /\ thread[t].job = t /\ owner[t] \in Bridges /\ BridgeOf(t) = owner[t]
      /\ CanLock(t) /\ ~Over(t) /\ thread[t].pc = "finalizing"
  BY RetryEffect DEF Over, Aborted
<1> PICK b \in Bridges, a \in Attempts : b = owner[t] /\ a = mem[b][t].attempts + 1
  BY RetryEffect
<1> PICK th : th = Phase(t, "respawned")
  OBVIOUS
<1>2. /\ \A d \in Bridges, k \in Jobs : d # b \/ k # t => mem'[d][k] = mem[d][k]
      /\ thread' = [thread EXCEPT ![t] = th]
      /\ UNCHANGED <<disk, owner>>
  BY RetryWrites
<1>3. \A k \in Jobs, i \in Attempts : k # t => agy'[k][i] = agy[k][i]
  BY RetrySpawns
<1>4. \A u \in Threads : u # t /\ thread[u].job = t => ~HoldsFlock(u)
  <2>1. Locked(t)
    BY <1>1, LockPhases DEF Locked, StartPhases, FlockPhases
  <2> QED
    BY <1>1, <2>1, AloneUnderLocks
<1>5. ASSUME NEW c \in Callers
      PROVE  Kept(c)
  <2>1. c # t
    BY <1>1, RegistryAssumption
  <2>2. Concluding(c) => thread[c].job \in Jobs /\ thread[c].job # t
    BY <1>1, <1>4, <2>1, EndedAlready, ConcludingJob
  <2>3. Home[c] \in Bridges
    BY RegistryAssumption
  <2> QED
    BY <1>2, <1>3, <2>1, <2>2, <2>3, OthersKept
<1> QED
  BY <1>5, CancelsKept

LEMMA RetryPersistCancels ==
  ASSUME Inv, CancelInv, unrecorded \subseteq unrecorded', NEW t \in Threads, RetryPersist(t)
  PROVE  CancelInv'
<1>1. thread[t].pc = "respawned"
  BY DEF RetryPersist
<1> PICK j \in Jobs, d \in Bridges : j = thread[t].job /\ d = BridgeOf(t)
  BY <1>1, StandingJob DEF StartPhases
<1> DEFINE w == Watcher(j, mem[d][j].pid)
<1>2. thread' = [thread EXCEPT ![t] = w] /\ UNCHANGED <<owner, mem, agy>>
  BY DEF RetryPersist
<1> HIDE DEF w
<1>3. \A k \in Jobs : k # j => disk'[k] = disk[k]
  BY DEF RetryPersist, Inv, Typed, TypeOK
<1>4. t \notin Callers /\ t \in Jobs
  BY <1>1, Busy DEF Inv, WatcherPhases, Threads
<1>5. ~Over(j)
  <2>1. ~EndedOnDisk(j)
    BY <1>1 DEF Inv, PhaseInv, PhaseOK
  <2>2. ~Aborted(j)
    BY <1>1, <1>4, WatchersJob
  <2> QED
    BY <2>1, <2>2 DEF Over, Aborted
<1>6. ASSUME NEW c \in Callers
      PROVE  Kept(c)
  <2>1. Concluding(c) /\ thread[c].pc # "publish" => thread[c].job \in Jobs /\ thread[c].job # j
    BY <1>5, ConcludingJob DEF Inv, ReportInv
  <2> QED
    BY <1>2, <1>3, <1>4, <2>1, OthersKept
<1> QED
  BY <1>6, CancelsKept

LEMMA ForceFailCancels ==
  ASSUME Inv, CancelInv, unrecorded \subseteq unrecorded', NEW j \in Jobs, NEW written \in BOOLEAN,
         ForceFail(j, written)
  PROVE  CancelInv'
<1>1. /\ j \in Threads /\ thread[j].pc = "forcefail" /\ MutexFree(BridgeOf(j)) /\ j \notin Callers
      /\ BridgeOf(j) \in Bridges
  BY RegistryAssumption, Busy DEF ForceFail, Threads, Inv
<1> PICK d \in Bridges : d = BridgeOf(j)
  BY <1>1
<1> PICK failed : failed = EndedRecord(mem[d][j], "failed")
  OBVIOUS
<1> PICK th : th = Phase(j, "closing")
  OBVIOUS
<1>2. /\ thread' = [thread EXCEPT ![j] = th] /\ UNCHANGED <<owner, agy>>
      /\ disk' = [disk EXCEPT ![j] = failed] \/ disk' = disk
      /\ mem' = [mem EXCEPT ![d] = [@ EXCEPT ![j] = failed]] \/ mem' = mem
  BY DEF ForceFail
<1>3. /\ \A k \in Jobs : disk'[k] = disk[k] \/ disk'[k].state # "cancelled"
      /\ \A b \in Bridges : b # d => mem'[b] = mem[b]
  <2>1. failed.state # "cancelled"
    BY EndedFields
  <2> QED
    BY <1>2, <2>1 DEF Inv, Typed, TypeOK
<1>4. ASSUME NEW c \in Callers
      PROVE  Kept(c)
  <2>1. Concluding(c) => c \in Threads /\ BridgeOf(c) = Home[c] /\ Home[c] \in Bridges
                         /\ thread[c].job \in Jobs
    BY ConcludingJob
  <2>2. thread[c].pc = "publish" => Home[c] # d
    BY <1>1, <2>1, LockPhases DEF MutexFree, Concluding
  <2> QED
    BY <1>1, <1>2, <1>3, <2>1, <2>2, OthersKept
<1> QED
  BY <1>4, CancelsKept

LEMMA StartSpawnCancels ==
  ASSUME Inv, CancelInv, unrecorded \subseteq unrecorded', NEW c \in Callers, NEW j \in Jobs,
         NEW served \in BOOLEAN, StartSpawn(c, j, served)
  PROVE  CancelInv'
<1> DEFINE th == Thread("spawned", "start", j, 0)
<1>1. c \in Threads /\ agy[j][1] = "none" /\ th.pc = "spawned"
  BY DEF StartSpawn, Threads, Thread
<1>2. /\ thread' = [thread EXCEPT ![c] = th] /\ UNCHANGED disk
      /\ owner' = [owner EXCEPT ![j] = Home[c]]
      /\ agy' = [agy EXCEPT ![j] = [@ EXCEPT ![1] = "running"]]
  BY DEF StartSpawn
<1> HIDE DEF th
<1>3. \A k \in Jobs : k # j => /\ owner'[k] = owner[k] /\ agy'[k] = agy[k]
                               /\ \A b \in Bridges : mem'[b][k] = mem[b][k]
  BY <1>2 DEF StartSpawn, Inv, Typed, TypeOK
<1>4. ASSUME NEW e \in Callers, e # c
      PROVE  Kept(e)
  <2>1. Concluding(e) => thread[e].job \in Jobs /\ thread[e].job # j /\ Home[e] \in Bridges
    BY <1>1, ConcludingJob, UnknownJob
  <2> QED
    BY <1>1, <1>2, <1>3, <1>4, <2>1, OthersKept
<1>5. ~Ends(c)
  BY <1>1, <1>2 DEF Ends, Inv, Typed, TypeOK
<1> QED
  BY <1>4, <1>5, CancelsKept

LEMMA StartPersistCancels ==
  ASSUME Inv, CancelInv, unrecorded \subseteq unrecorded', NEW c \in Callers, StartPersist(c)
  PROVE  CancelInv'
<1>0. Starting(c) /\ Starter(c)
  BY DEF StartPersist, Starting, Starter
<1> PICK j \in Jobs, d \in Bridges : j = thread[c].job /\ d = Home[c]
  BY <1>0, StarterFacts
<1> DEFINE w == Watcher(j, 1)
<1>1. c \in Threads /\ c \notin Jobs
  BY <1>0, StarterFacts
<1>2. /\ thread' = [thread EXCEPT ![c] = Idle, ![j] = w]
      /\ disk' = [disk EXCEPT ![j] = mem[d][j]] /\ UNCHANGED <<mem, owner, agy>>
  BY DEF StartPersist
<1> HIDE DEF w
<1>3. /\ \A e \in Callers : e # c => thread'[e] = thread[e]
      /\ thread'[c] = Idle
      /\ \A k \in Jobs : k # j => disk'[k] = disk[k]
  BY <1>1, <1>2, RegistryAssumption DEF Inv, Typed, TypeOK, Threads
<1>4. ASSUME NEW e \in Callers, e # c
      PROVE  Kept(e)
  <2>1. Concluding(e) => thread[e].job \in Jobs /\ thread[e].job # j
    BY <1>0, <1>4, ConcludingJob, StartingJob
  <2> QED
    BY <1>2, <1>3, <1>4, <2>1 DEF Kept
<1>5. ~Ends(c)
  BY <1>3, IdleTyped DEF Ends
<1> QED
  BY <1>4, <1>5, CancelsKept

LEMMA StartForgetsCancels ==
  ASSUME Inv, CancelInv, unrecorded \subseteq unrecorded', NEW c \in Callers, StartForgets(c)
  PROVE  CancelInv'
<1>0. Starter(c) /\ thread[c].pc = "forgetting"
  BY DEF StartForgets, Withdrawing, Starter
<1> PICK j \in Jobs : j = thread[c].job
  BY <1>0, StarterFacts
<1> PICK th : th = Phase(c, "closing")
  OBVIOUS
<1>1. c \in Threads /\ th.pc = "closing"
  <2>1. c \in Threads
    BY <1>0, StarterFacts
  <2>2. thread[c] \in ThreadStates
    BY <1>0, <2>1, Busy DEF Inv
  <2> QED
    BY <2>1, <2>2, PhaseTyped DEF Phases
<1>2. /\ thread' = [thread EXCEPT ![c] = th] /\ UNCHANGED <<owner, mem, agy>>
      /\ disk' = [disk EXCEPT ![j] = Absent]
  BY DEF StartForgets
<1>3. \A k \in Jobs : disk'[k] = disk[k] \/ disk'[k].state # "cancelled"
  BY <1>2, AbsentState DEF Inv, Typed, TypeOK
<1>4. ASSUME NEW e \in Callers, e # c
      PROVE  Kept(e)
  <2>1. Concluding(e) => thread[e].job \in Jobs
    BY ConcludingJob
  <2> QED
    BY <1>1, <1>2, <1>3, <1>4, <2>1, OthersKept
<1>5. ~Ends(c)
  BY <1>1, <1>2 DEF Ends, Inv, Typed, TypeOK
<1> QED
  BY <1>4, <1>5, CancelsKept

LEMMA DieCancels ==
  ASSUME Inv, CancelInv, unrecorded \subseteq unrecorded', NEW d \in Bridges, Die(d)
  PROVE  CancelInv'
<1>1. /\ UNCHANGED disk
      /\ \A b \in Bridges : b # d => mem'[b] = mem[b]
      /\ \A k \in Jobs : owner'[k] = IF owner[k] = d THEN NoBridge ELSE owner[k]
      /\ \A k \in Jobs, a \in Attempts : agy'[k][a] = "running" => agy[k][a] = "running"
  BY DEF Die, Inv, Typed, TypeOK
<1>2. \A u \in Threads : thread'[u] = IF BridgeOf(u) = d THEN Idle ELSE thread[u]
  BY DEF Die
<1>3. ASSUME NEW c \in Callers
      PROVE  ~Ends(c) \/ Kept(c)
  <2>1. c \in Threads /\ BridgeOf(c) = Home[c] /\ Home[c] \in Bridges /\ Home[c] # NoBridge
    BY RegistryAssumption DEF Threads, BridgeOf
  <2>2. CASE Home[c] = d
    BY <1>2, <2>1, <2>2, IdleTyped DEF Ends
  <2>3. CASE Home[c] # d
    <3>1. Concluding(c) => thread[c].job \in Jobs
      BY ConcludingJob
    <3> QED
      BY <1>1, <1>2, <2>1, <2>3, <3>1 DEF Kept
  <2> QED
    BY <2>2, <2>3
<1> QED
  BY <1>3, CancelsKept

LEMMA RegistryCancels ==
  ASSUME Inv, CancelInv, RecordedInv, unrecorded \subseteq unrecorded', RegistryStep
  PROVE  CancelInv'
<1>1. thread \in [Threads -> ThreadStates] /\ Idle.pc = "idle"
  BY IdleTyped DEF Inv, Typed, TypeOK
<1>2. ASSUME NEW t \in Threads, NEW pc \in Phases, pc \notin {"publish", "signal", "notify"},
             thread' = [thread EXCEPT ![t] = Phase(t, pc)],
             UNCHANGED <<disk, mem, owner>>, AgyKeeps \/ UNCHANGED agy
      PROVE  CancelInv'
  <2> PICK th : th = Phase(t, pc)
    OBVIOUS
  <2>1. th.pc = pc
    BY <1>1, PhaseTyped
  <2> QED
    BY <1>2, <2>1, QuietCancels
<1>3. ASSUME UNCHANGED <<disk, mem, owner, thread>>, AgyKeeps \/ UNCHANGED agy
      PROVE  CancelInv'
  <2>1. ASSUME NEW c \in Callers
        PROVE  ~Ends(c) \/ Kept(c)
    <3>1. Concluding(c) => thread[c].job \in Jobs
      BY ConcludingJob
    <3> QED
      BY <1>3, <3>1 DEF Kept, AgyKeeps
  <2> QED
    BY <2>1, CancelsKept
<1>4. ASSUME NEW t \in Threads, NEW th, th.pc \notin {"publish", "signal", "notify"},
             thread' = [thread EXCEPT ![t] = th],
             UNCHANGED <<disk, agy, owner>>, thread[t].pc \in {"finalizing", "cancelling"}, CanLock(t),
             \A b \in Bridges : b # BridgeOf(t) => mem'[b] = mem[b]
      PROVE  CancelInv'
  <2>1. ~Ends(t)
    BY <1>1, <1>4 DEF Ends
  <2>2. Locked(t)
    BY <1>4, LockPhases DEF Locked, StartPhases, FlockPhases
  <2> QED
    BY <1>4, <2>1, <2>2, AloneUnderLocks, LockedCancels
<1>5. ASSUME NEW t \in Threads, Return(t), UNCHANGED <<disk, mem, owner, agy>>
      PROVE  CancelInv'
  <2> PICK th : th = Idle
    OBVIOUS
  <2>1. thread' = [thread EXCEPT ![t] = th] /\ th.pc \notin {"publish", "signal", "notify"}
    BY <1>1, <1>5 DEF Return
  <2> QED
    BY <1>5, <2>1, QuietCancels
<1>6. ASSUME NEW t \in Threads,
             FinalizeStep(t) \/ RetryFails(t) \/ FinalizeFails(t) \/ CloseServer(t)
      PROVE  CancelInv'
  <2>1. CASE ReadOutput(t)
    <3>1. PICK th : th.pc = "finalize" /\ thread' = [thread EXCEPT ![t] = th]
      BY <1>1, <2>1 DEF ReadOutput
    <3> QED
      BY <2>1, <3>1, QuietCancels DEF ReadOutput
  <2>2. CASE TakeFirst(t)
    <3>1. PICK pc \in {"finalizing", "cancelling"} : thread' = [thread EXCEPT ![t] = Phase(t, pc)]
      BY <2>2 DEF TakeFirst
    <3> QED
      BY <1>2, <2>2, <3>1 DEF TakeFirst, Phases
  <2>3. CASE FinalizeReenters(t) \/ Notify(t) \/ CloseServer(t)
    BY <1>5, <2>3 DEF FinalizeReenters, Notify, CloseServer
  <2>4. CASE FinalizeFails(t)
    BY <1>2, <1>5, <2>4 DEF FinalizeFails, Phases
  <2>5. CASE FinalizeAdopts(t)
    <3>1. \A b \in Bridges : b # BridgeOf(t) => mem'[b] = mem[b]
      BY <2>5 DEF FinalizeAdopts, Inv, Typed, TypeOK
    <3> PICK th : th = Idle
      OBVIOUS
    <3> QED
      BY <1>1, <1>4, <2>5, <3>1 DEF FinalizeAdopts, Return
  <2>6. CASE FinalizeEnds(t)
    <3>1. Outcome(t) # "cancelled"
      BY DEF Outcome
    <3> QED
      BY <2>6, <3>1, CommitCancels DEF FinalizeEnds, Finalizing
  <2>7. CASE RetryFails(t)
    BY <2>7, CommitCancels DEF RetryFails, Finalizing
  <2> QED
    BY <1>6, <2>1, <2>2, <2>3, <2>4, <2>5, <2>6, <2>7, RetryCancels, RetryPersistCancels,
       PublishCancels, SignalCancels DEF FinalizeStep, FinalizeGoesOn
<1>7. ASSUME NEW c \in Callers,
             Calls(c) \/ CallStep(c) \/ StartRaises(c) \/ KillStarted(c) \/ StartForgets(c)
      PROVE  CancelInv'
  <2>1. c \in Threads /\ BridgeOf(c) = Home[c] /\ Home[c] \in Bridges
    BY RegistryAssumption DEF Threads, BridgeOf
  <2>2. ASSUME NEW j \in Jobs, NEW op \in {"get", "cancel"}, Get(c, op, j)
        PROVE  CancelInv'
    <3> PICK rec : rec = Current(Home[c], j)
      OBVIOUS
    <3>1. PICK th : th.pc \notin {"publish", "signal", "notify"} /\ thread' = [thread EXCEPT ![c] = th]
      <4>1. /\ Thread("probe", op, j, rec.pid).pc = "probe"
            /\ Thread("cancel", op, j, 0).pc = "cancel"
        BY DEF Thread
      <4> QED
        BY <1>1, <2>2, <4>1 DEF Get, Proceed
    <3>2. \A b \in Bridges : b # BridgeOf(c) => mem'[b] = mem[b]
      BY <2>1, <2>2 DEF Get, Inv, Typed, TypeOK
    <3>3. \A u \in Threads : u # c /\ BridgeOf(u) = BridgeOf(c) => ~HoldsMutex(u)
      BY <2>1, <2>2 DEF Get, MutexFree
    <3>4. ~Ends(c) /\ UNCHANGED <<disk, agy, owner>>
      BY <1>1, <2>1, <2>2, <3>1 DEF Ends, Get
    <3> QED
      BY <2>1, <3>1, <3>2, <3>3, <3>4, LockedCancels
  <2>3. CASE Probe(c)
    <3>1. PICK th : th.pc \notin {"publish", "signal", "notify"} /\ thread' = [thread EXCEPT ![c] = th]
      <4>1. /\ Thread("cancel", thread[c].op, thread[c].job, 0).pc = "cancel"
            /\ Phase(c, "readout").pc = "readout"
        BY <1>1, <2>1, PhaseTyped DEF Thread, Phases
      <4> QED
        BY <1>1, <2>3, <4>1 DEF Probe, Proceed
    <3> QED
      BY <2>1, <2>3, <3>1, QuietCancels DEF Probe
  <2>4. CASE CancelFindsEnded(c)
    <3>1. \A b \in Bridges : b # BridgeOf(c) => mem'[b] = mem[b]
      BY <2>1, <2>4 DEF CancelFindsEnded, Inv, Typed, TypeOK
    <3> PICK th : th = Idle
      OBVIOUS
    <3> QED
      BY <1>1, <1>4, <2>1, <2>4, <3>1 DEF CancelFindsEnded, Return
  <2>5. CASE StartRaises(c)
    BY <1>2, <2>1, <2>5 DEF StartRaises, Phases
  <2>6. CASE KillStarted(c)
    <3>1. AgyKeeps
      <4>1. Starter(c)
        BY <2>6 DEF KillStarted, Starter, Withdrawing
      <4>2. thread[c].job \in Jobs /\ agy[thread[c].job][1] # "none"
        BY <4>1, StarterFacts
      <4> QED
        BY <2>6, <4>2 DEF KillStarted, AgyKeeps, Inv, Typed, TypeOK
    <3> QED
      BY <1>2, <2>1, <2>6, <3>1 DEF KillStarted, Phases
  <2> QED
    BY <1>7, <2>2, <2>3, <2>4, <2>5, <2>6, CancelCommitsCancels, StartSpawnCancels,
       StartPersistCancels, StartForgetsCancels DEF Calls, CallStep
<1>8. ASSUME NEW j \in Jobs, WatchStep(j) \/ ForceFailStep(j)
      PROVE  CancelInv'
  <2>1. CASE WatchStep(j)
    <3>1. \A rc : Reaped(j, rc).pc = "readout"
      BY DEF Reaped
    <3>2. PICK rc : thread' = [thread EXCEPT ![j] = Reaped(j, rc)]
      BY <2>1 DEF WatchStep, WatchReap, WatchTimeout
    <3>3. UNCHANGED <<disk, mem, owner>> /\ AgyKeeps /\ j \in Threads
      BY <2>1, WatchEffect DEF Threads
    <3> PICK th : th = Reaped(j, rc)
      OBVIOUS
    <3> QED
      BY <3>1, <3>2, <3>3, QuietCancels
  <2> QED
    BY <1>8, <2>1, ForceFailCancels DEF ForceFailStep
<1>9. ASSUME ProcessExits
      PROVE  CancelInv'
  BY <1>3, <1>9, ProcessEffect
<1>10. ASSUME NEW b \in Bridges, Crash(b) \/ Restart(b) \/ Die(b)
      PROVE  CancelInv'
  <2>1. CASE Restart(b)
    BY <1>3, <2>1 DEF Restart
  <2> QED
    BY <1>10, <2>1, DieCancels DEF Crash
<1> QED
  BY <1>6, <1>7, <1>8, <1>9, <1>10 DEF RegistryStep, Next, SoundStep, FileFault, FinalizeStep

----------------------------------------------------------------------------
\* The stack of cleanups, and what a step of the bridge's end is for the registry.

LEMMA EmptyOrNot ==
  ASSUME LifeTyped
  PROVE  Depth \in Nat /\ (Stopping <=> Depth # 0)
<1>1. cleanups \in Seq(Cleanups)
  BY DEF LifeTyped
<1> QED
  BY <1>1, LenProperties, EmptySeq DEF Stopping, Depth

LEMMA TopFacts ==
  ASSUME LifeTyped, Stopping
  PROVE  /\ Me \in MainThreads /\ Me \in Callers /\ Me \in Threads /\ Me \notin Jobs
         /\ BridgeOf(Me) = Host /\ Home[Me] = Host /\ Host \in Bridges
         /\ Top \in Cleanups /\ up[Host]
<1>1. Depth \in 1..Len(Main)
  BY EmptyOrNot, LifecycleAssumption DEF LifeTyped, Depth
<1>2. Me \in Callers /\ Me \in MainThreads
  BY <1>1, LifecycleAssumption, ElementOfSeq, LenProperties DEF Me, MainThreads
<1>3. Top \in Cleanups
  BY EmptyOrNot, ElementOfSeq DEF LifeTyped, Top, Depth
<1> QED
  BY <1>2, <1>3, LifecycleAssumption, RegistryAssumption DEF Threads, BridgeOf, LifeTyped

LEMMA TopStep ==
  ASSUME LifeTyped, Stopping, NEW c \in Cleanups, TopBecomes(c)
  PROVE  /\ cleanups' \in Seq(Cleanups) /\ Depth' = Depth /\ Top' = c /\ Stopping' /\ Me' = Me
<1>1. cleanups \in Seq(Cleanups) /\ Depth \in 1..Len(cleanups)
  BY EmptyOrNot DEF LifeTyped, Depth
<1>2. cleanups' \in Seq(Cleanups) /\ Len(cleanups') = Len(cleanups) /\ cleanups'[Depth] = c
  BY <1>1, ExceptSeq DEF TopBecomes
<1> QED
  BY <1>1, <1>2, EmptySeq DEF Depth, Top, Me, Stopping

LEMMA EnterStep ==
  ASSUME LifeTyped, NEW why \in {"signal", "finally"}, Enter(why)
  PROVE  /\ cleanups' \in Seq(Cleanups) /\ Depth' <= Len(Main) /\ Top'.step = "list"
<1> DEFINE c == [why |-> why, step |-> "list", todo |-> {}]
<1>1. c \in Cleanups /\ c.step = "list"
  BY DEF Cleanups, Steps
<1>2. cleanups' = Append(cleanups, c) /\ cleanups \in Seq(Cleanups) /\ Depth < Len(Main)
  BY DEF Enter, LifeTyped
<1> HIDE DEF c
<1>3. /\ cleanups' \in Seq(Cleanups) /\ Len(cleanups') = Len(cleanups) + 1
      /\ cleanups'[Len(cleanups) + 1] = c
  BY <1>1, <1>2, AppendProperties
<1>4. Len(Main) \in Nat
  BY LifecycleAssumption, LenProperties
<1> QED
  BY <1>1, <1>2, <1>3, <1>4, LenProperties DEF Depth, Top

LEMMA LifeRegistry ==
  ASSUME LifeTyped, LifeNext
  PROVE  RegistryStep \/ UNCHANGED vars
<1>1. CASE \E j \in Jobs : AskCancel(j)
  BY <1>1, TopFacts DEF AskCancel, RegistryStep, Next, SoundStep, Calls
<1>2. CASE Cancelling
  BY <1>2, TopFacts DEF Cancelling, RegistryStep, Next, SoundStep, FileFault, CallStep, FinalizeStep
<1>3. CASE DieBySignal \/ ProcessEnds
  BY <1>3, LifecycleAssumption DEF DieBySignal, ProcessEnds, RegistryStep
<1>4. CASE Replaced
  BY <1>4, LifecycleAssumption DEF Replaced, RegistryStep, Next, SoundStep
<1>5. CASE Meanwhile
  BY <1>5 DEF Meanwhile, RegistryStep
<1>6. CASE List \/ ServeReturns \/ \E why \in {"signal", "finally"} : Enter(why)
  BY <1>6 DEF List, ServeReturns, Enter
<1> QED
  BY <1>1, <1>2, <1>3, <1>4, <1>5, <1>6 DEF LifeNext, Shutdown

\* Every job whose end, or whose retry, is not written for a file error is noted.
Noted ==
    /\ raised \subseteq raised' /\ Failing \subseteq raised'
    /\ unrecorded \subseteq unrecorded' /\ Forgotten \subseteq unrecorded'

LEMMA NothingFails ==
  ASSUME Inv, up' # up \/ thread' = thread
               \/ \E t \in Threads : thread[t].pc = "idle" /\ \E th : thread' = [thread EXCEPT ![t] = th]
  PROVE  Failing = {} /\ Forgotten = {}
<1> SUFFICES ASSUME NEW t \in Threads, FinalizeFails(t)
             PROVE  FALSE
  BY DEF Failing, Forgotten, FailingIn
<1>1. up' = up /\ thread[t].pc \in {"finalize", "cancel", "publish", "respawned"}
  BY DEF FinalizeFails
<1>2. thread \in [Threads -> ThreadStates] /\ Idle.pc = "idle"
  BY IdleTyped DEF Inv, Typed, TypeOK
<1>3. thread'[t].pc \in {"idle", "forcefail"}
  <2>1. Phase(t, "forcefail").pc = "forcefail"
    BY <1>2, PhaseTyped DEF Phases
  <2>2. PICK th \in {Idle, Phase(t, "forcefail")} : thread' = [thread EXCEPT ![t] = th]
    BY DEF FinalizeFails, Return
  <2> QED
    BY <1>2, <2>1, <2>2
<1>4. thread'[t] # thread[t]
  BY <1>1, <1>3
<1>5. PICK u \in Threads : thread[u].pc = "idle" /\ \E th : thread' = [thread EXCEPT ![u] = th]
  BY <1>1, <1>4
<1>6. u # t
  BY <1>1, <1>5
<1> QED
  BY <1>2, <1>4, <1>5, <1>6

LEMMA LifeNotes ==
  ASSUME Inv, LifeTyped, LifeNext
  PROVE  Noted
<1>1. CASE \E j \in Jobs : AskCancel(j)
  <2> PICK j \in Jobs : AskCancel(j)
    BY <1>1
  <2>1. Me \in Threads /\ thread[Me].pc = "idle" /\ UNCHANGED <<raised, unrecorded>>
    BY TopFacts DEF AskCancel
  <2>2. thread' = thread \/ \E th : thread' = [thread EXCEPT ![Me] = th]
    BY DEF AskCancel, Get, Proceed, vars
  <2> QED
    BY <2>1, <2>2, NothingFails DEF Noted
<1>2. CASE Cancelling \/ Meanwhile
  BY <1>2 DEF Cancelling, Meanwhile, Noted, Failures, Failing, Forgotten
<1>3. CASE DieBySignal \/ ProcessEnds \/ Replaced
  <2>1. up' # up
    BY <1>3, LifecycleAssumption DEF DieBySignal, ProcessEnds, Replaced, Crash, Restart, Die,
       Inv, Typed, TypeOK
  <2> QED
    BY <1>3, <2>1, NothingFails DEF DieBySignal, ProcessEnds, Replaced, Forget, Noted
<1>4. CASE List \/ ServeReturns \/ \E why \in {"signal", "finally"} : Enter(why)
  <2>1. thread' = thread /\ UNCHANGED <<raised, unrecorded>>
    BY <1>4 DEF List, ServeReturns, Enter, vars
  <2> QED
    BY <2>1, NothingFails DEF Noted
<1> QED
  BY <1>1, <1>2, <1>3, <1>4 DEF LifeNext, Shutdown

LEMMA FailingJobs == Inv => Failing \subseteq Jobs /\ FailingIn({"respawned"}) \subseteq Jobs
<1> SUFFICES ASSUME Inv, NEW t \in Threads, FinalizeFails(t)
             PROVE  thread[t].job \in Jobs
  BY DEF Failing, FailingIn
<1> QED
  BY StandingJob DEF FinalizeFails, StartPhases

LEMMA LifeTypedKept ==
  ASSUME Inv, LifeTyped, LifeNext
  PROVE  LifeTyped'
<1>1. ASSUME NEW c \in Cleanups, TopBecomes(c), Stopping, UNCHANGED <<vars, raised, unrecorded>>,
             asked' \subseteq Jobs
      PROVE  LifeTyped'
  <2>1. UNCHANGED up /\ Depth <= Len(Main)
    BY <1>1 DEF vars, LifeTyped
  <2> QED
    BY <1>1, <2>1, TopStep DEF LifeTyped
<1>2. ASSUME NEW why \in {"signal", "finally"}, Enter(why)
      PROVE  LifeTyped'
  <2>1. UNCHANGED <<up, asked, raised, unrecorded>> /\ up[Host]
    BY <1>2 DEF Enter, vars
  <2> QED
    BY <1>2, <2>1, EnterStep DEF LifeTyped
<1>3. CASE List
  <2>1. Top \in Cleanups /\ Served \subseteq Jobs
    BY <1>3, TopFacts, LifecycleAssumption DEF List, Served, Inv, Typed, TypeOK
  <2>2. [Top EXCEPT !.step = "cancel", !.todo = Served] \in Cleanups
    BY <2>1 DEF Cleanups, Steps
  <2> QED
    BY <1>1, <1>3, <2>1, <2>2 DEF List, LifeTyped
<1>4. CASE \E j \in Jobs : AskCancel(j)
  <2> PICK j \in Jobs : AskCancel(j)
    BY <1>4
  <2>1. [Top EXCEPT !.todo = @ \ {j}] \in Cleanups
    BY TopFacts DEF AskCancel, Cleanups
  <2>2. UNCHANGED <<up, asked, raised, unrecorded>>
    BY DEF AskCancel, Get, vars
  <2> QED
    BY <2>1, <2>2, TopStep DEF AskCancel, LifeTyped
<1>5. CASE ServeReturns
  <2>1. [Top EXCEPT !.step = "exit"] \in Cleanups
    BY <1>5, TopFacts DEF ServeReturns, Cleanups, Steps
  <2> QED
    BY <1>1, <1>5, <2>1 DEF ServeReturns, LifeTyped
<1>6. CASE Cancelling \/ Meanwhile
  <2>1. UNCHANGED <<cleanups, asked>> /\ raised' \subseteq Jobs /\ unrecorded' \subseteq Jobs
    BY <1>6, FailingJobs DEF Cancelling, Meanwhile, LifeTyped, Failures, Failing
  <2>2. Stopping => up'[Host]
    <3>1. CASE Meanwhile
      BY <3>1 DEF Meanwhile, LifeTyped
    <3>2. CASE Cancelling
      <4>1. up' = up
        BY <3>2 DEF Cancelling, FinalizeStep, FinalizeGoesOn, ReadOutput, TakeFirst, FinalizeAdopts,
           FinalizeEnds, FinalizeRetries, RetryPersist, Publish, Signal, Notify, FinalizeReenters,
           Probe, CancelFindsEnded, CancelCommits, Commit, FinalizeFails
      <4> QED
        BY <4>1 DEF LifeTyped
    <3> QED
      BY <1>6, <3>1, <3>2
  <2> QED
    BY <2>1, <2>2 DEF LifeTyped, Depth, Stopping
<1>7. CASE DieBySignal \/ ProcessEnds \/ Replaced
  <2>1. /\ cleanups' = <<>> /\ asked' \subseteq Jobs /\ raised' \subseteq Jobs
        /\ unrecorded' \subseteq Jobs
    BY <1>7 DEF DieBySignal, ProcessEnds, Replaced, Forget, LifeTyped
  <2>2. Len(Main) \in Nat
    BY LifecycleAssumption, LenProperties
  <2> QED
    BY <2>1, <2>2, EmptySeq DEF LifeTyped, Depth, Stopping
<1> QED
  BY <1>2, <1>3, <1>4, <1>5, <1>6, <1>7 DEF LifeNext, Shutdown

\* What a step that is none of the registry's leaves alone.
LEMMA NothingMoves ==
  ASSUME WatchInv, RaisedInv, HeldInv, RecordedInv, CancelInv, UNCHANGED vars, Noted
  PROVE  /\ WatchInv' /\ RaisedInv' /\ HeldInv' /\ RecordedInv' /\ CancelInv'
<1>1. \A j : EndedOnDisk(j)' = EndedOnDisk(j)
  BY DEF vars, EndedOnDisk
<1>2. \A b, j : /\ Publishing(b, j)' <=> Publishing(b, j)
                /\ Closing(b, j)' <=> Closing(b, j)
  BY DEF vars, Publishing, Closing, BridgeOf
<1>3. WatchInv'
  BY <1>2 DEF WatchInv, vars
<1>4. RaisedInv'
  BY DEF RaisedInv, Noted, vars
<1>5. HeldInv'
  BY <1>1, <1>2 DEF HeldInv, Noted, vars
<1>6. \A c \in Callers : Kept(c)
  BY DEF Kept, vars
<1>7. CancelInv'
  BY <1>6, CancelsKept DEF Noted
<1>8. RecordedInv'
  BY QuietRecords DEF Noted, vars
<1> QED
  BY <1>3, <1>4, <1>5, <1>7, <1>8

\* Nobody is the child of a bridge that has just died.
LEMMA DeadParent ==
  ASSUME Inv, RegistryStep, NEW b \in Bridges, Dies(b), NEW j \in Jobs
  PROVE  owner'[j] # b
<1>1. Die(b)
  <2>1. up' # up /\ ~up'[b]
    BY DEF Dies
  <2>2. ASSUME NEW d \in Bridges, Restart(d)
        PROVE  FALSE
    BY <2>1, <2>2 DEF Restart, Dies, Inv, Typed, TypeOK
  <2>3. ASSUME NEW d \in Bridges, Die(d)
        PROVE  d = b
    BY <2>3 DEF Die, Dies, Inv, Typed, TypeOK
  <2>4. ASSUME NEW t \in Threads, FinalizeStep(t) \/ RetryFails(t) \/ FinalizeFails(t) \/ CloseServer(t)
        PROVE  up' = up
    BY <2>4 DEF FinalizeStep, FinalizeGoesOn, ReadOutput, TakeFirst, FinalizeAdopts, FinalizeEnds,
       FinalizeRetries, RetryPersist, Publish, Signal, Notify, RetryFails, FinalizeReenters,
       FinalizeFails, Commit, CloseServer
  <2>5. ASSUME NEW c \in Callers,
               Calls(c) \/ CallStep(c) \/ StartRaises(c) \/ KillStarted(c) \/ StartForgets(c)
        PROVE  up' = up
    BY <2>5 DEF Calls, StartSpawn, Get, CallStep, StartPersist, Probe, CancelFindsEnded,
       CancelCommits, Commit, StartRaises, KillStarted, StartForgets
  <2>6. ASSUME NEW k \in Jobs, WatchStep(k) \/ ForceFailStep(k)
        PROVE  up' = up
    BY <2>6 DEF WatchStep, WatchReap, WatchTimeout, ForceFailStep, ForceFail
  <2>7. ASSUME ProcessExits
        PROVE  up' = up
    BY <2>7 DEF ProcessExits, AgyExits
  <2> QED
    BY <2>1, <2>2, <2>3, <2>4, <2>5, <2>6, <2>7
       DEF RegistryStep, Next, SoundStep, FileFault, FinalizeStep, Crash
<1> QED
  BY <1>1, RegistryAssumption DEF Die, Inv, Typed, TypeOK

LEMMA RaisedKept ==
  ASSUME RaisedInv, Orderly, Noted
  PROVE  RaisedInv'
<1>1. ASSUME NEW j \in Jobs, thread'[j].pc \in {"forcefail", "closing"}
      PROVE  j \in raised'
  <2>1. thread[j].pc \in {"forcefail", "closing"} \/ j \in Failing
    BY <1>1, LifecycleAssumption DEF Orderly, OrderlyAt
  <2> QED
    BY <2>1 DEF RaisedInv, Noted
<1>2. ASSUME NEW c \in Callers, thread'[c].pc = "closing"
      PROVE  thread'[c].job \in withdrawn'
  BY <1>2 DEF Orderly, RaisedInv
<1> QED
  BY <1>1, <1>2 DEF RaisedInv

LEMMA WatchKept ==
  ASSUME WatchInv, Inv', Orderly
  PROVE  WatchInv'
<1> SUFFICES ASSUME NEW b \in Bridges, NEW j \in servers'[b]
             PROVE  j \in watched'[b] \/ Closing(b, j)'
  BY DEF WatchInv
<1>1. j \in Jobs
  BY DEF Inv, Typed, TypeOK
<1>2. ServedOK(j, b)
  BY DEF ServedOK, WatchInv
<1> QED
  BY <1>1, <1>2 DEF Orderly, OrderlyAt, ServedOK

LEMMA HeldKept ==
  ASSUME Inv, Inv', RaisedInv, HeldInv, RegistryStep, Orderly, Noted
  PROVE  HeldInv'
<1> SUFFICES ASSUME NEW j \in Jobs, j \notin raised', NEW b \in Bridges, owner'[j] = b,
                    disk'[j] # Absent, ~EndedOnDisk(j)'
             PROVE  j \in watched'[b] \/ Publishing(b, j)'
  <2> SUFFICES ASSUME NEW j \in Jobs, j \notin raised', owner'[j] \in Bridges,
                      disk'[j] # Absent, ~EndedOnDisk(j)'
               PROVE  j \in watched'[owner'[j]] \/ Publishing(owner[j], j)'
    BY DEF HeldInv
  <2> PICK b \in Bridges : owner'[j] = b
    OBVIOUS
  <2>1. j \in watched'[b] \/ Publishing(b, j)'
    OBVIOUS
  <2> QED
    BY <2>1 DEF Publishing
<1>1. OrderlyAt(j, b) /\ ~Dies(b)
  BY DeadParent DEF Orderly
<1>2. CASE disk[j] = Absent
  BY <1>1, <1>2 DEF OrderlyAt
<1>3. CASE disk[j] # Absent
  <2>1. owner[j] = b
    BY <1>1, <1>3, RegistryAssumption DEF OrderlyAt, Ours
  <2>2. ~Over(j)'
    <3>1. AbortOK(j)' /\ (j \in withdrawn' => Aborted(j)')
      BY DEF Inv, AbortInv, Aborted
    <3>2. Aborted(j)' => disk'[j] = Absent \/ EndedOnDisk(j)'
      BY <3>1 DEF AbortOK
    <3> QED
      BY <3>1, <3>2 DEF Over
  <2>3. ~EndedOnDisk(j) /\ j \notin raised /\ j \notin Failing
    BY <1>1, <2>2 DEF OrderlyAt, Noted, Over
  <2>4. thread[j].pc # "forcefail"
    BY <2>3 DEF RaisedInv
  <2>5. j \in watched[b] \/ Publishing(b, j)
    BY <1>3, <2>1, <2>3 DEF HeldInv
  <2> QED
    BY <1>1, <1>3, <2>2, <2>3, <2>4, <2>5 DEF OrderlyAt
<1> QED
  BY <1>2, <1>3

LEMMA OverKept == Orderly => \A j \in Jobs : Over(j) => Over(j)'
  BY LifecycleAssumption DEF Orderly, OrderlyAt

----------------------------------------------------------------------------
\* The three invariants about the cleanups, action by action.

CleanupInv == AskedInv /\ TodoInv /\ ServedJobsEnd

\* A server is closed out of order for a file error or a start() that failed.
LEMMA ClosingNoted ==
  ASSUME Inv, RaisedInv, NEW b, NEW j \in Jobs, Closing(b, j)
  PROVE  j \in raised \/ Over(j)
<1> PICK t \in Threads : thread[t].pc = "closing" /\ thread[t].job = j
  BY DEF Closing
<1>1. t \in Jobs => t = j
  BY Busy DEF Inv
<1> QED
  BY <1>1 DEF RaisedInv, Threads, Over

\* What the cleanups have found, while they find nothing new.
LEMMA AskedKept ==
  ASSUME Inv, LifeTyped, WatchInv, RaisedInv, AskedInv, Orderly, Noted, asked' = asked,
         up'[Host] => up[Host]
  PROVE  AskedInv'
<1> SUFFICES ASSUME NEW j \in asked, up'[Host]
             PROVE  /\ owner'[j] = Host /\ Ours(j)'
                    /\ j \notin raised' =>
                          Over(j)' \/ j \in servers'[Host] \/ Publishing(Host, j)'
  BY DEF AskedInv, Ours
<1>1. /\ j \in Jobs /\ Host \in Bridges /\ OrderlyAt(j, Host) /\ up[Host] /\ ~Dies(Host)
      /\ owner[j] = Host /\ Ours(j)
  BY LifecycleAssumption DEF LifeTyped, Orderly, AskedInv, Dies, Ours
<1>2. owner'[j] = Host /\ Ours(j)'
  BY <1>1 DEF OrderlyAt
<1>3. ASSUME j \notin raised'
      PROVE  Over(j)' \/ j \in servers'[Host] \/ Publishing(Host, j)'
  <2>1. j \notin raised /\ j \notin Failing
    BY <1>3 DEF Noted
  <2>2. thread[j].pc # "forcefail"
    BY <1>1, <2>1 DEF RaisedInv
  <2>3. Over(j) \/ j \in servers[Host] \/ Publishing(Host, j)
    BY <1>1, <2>1 DEF AskedInv
  <2>4. j \in servers[Host] => j \in watched[Host] \/ Over(j)
    BY <1>1, <2>1, ClosingNoted DEF WatchInv
  <2>5. EndedOnDisk(j)' => Over(j)'
    BY DEF Over
  <2> QED
    BY <1>1, <2>1, <2>2, <2>3, <2>4, <2>5 DEF OrderlyAt
<1> QED
  BY <1>2, <1>3

\* A step that changes nothing of what CleanupInv looks at but the stack.
Unmoved ==
    /\ UNCHANGED <<disk, withdrawn, up, servers, owner, raised, asked>>
    /\ \A t \in Threads : thread[t].pc \in {"publish", "killing", "forgetting"}
                            => thread'[t] = thread[t]

LEMMA UnmovedKeeps ==
  ASSUME LifeTyped, CleanupInv, Unmoved
  PROVE  AskedInv' /\ ServedJobsEnd' /\ \A j \in Jobs : Over(j)' <=> Over(j)
<1>1. \A j : /\ Over(j)' <=> Over(j)
             /\ Publishing(Host, j) => Publishing(Host, j)'
  BY DEF Unmoved, Over, EndedOnDisk, Publishing, BridgeOf
<1>2. \A j : Aborted(j) => Aborted(j)'
  BY DEF Unmoved, Aborted, Withdrawing, Threads
<1> QED
  BY <1>1, <1>2 DEF CleanupInv, AskedInv, ServedJobsEnd, Unmoved

LEMMA EnterKeeps ==
  ASSUME LifeTyped, CleanupInv, NEW why \in {"signal", "finally"}, Enter(why)
  PROVE  CleanupInv'
<1>1. Unmoved /\ Top'.step = "list"
  BY EnterStep DEF Enter, vars, Unmoved
<1>2. AskedInv' /\ ServedJobsEnd'
  BY <1>1, UnmovedKeeps
<1>3. TodoInv'
  BY <1>1 DEF TodoInv
<1> QED
  BY <1>2, <1>3 DEF CleanupInv

\* A served job of the bridge whose mutex is free is public or given up.
LEMMA ServedPublic ==
  ASSUME Inv, WatchInv, MutexFree(Host), NEW j \in Served
  PROVE  j \in Jobs /\ j \in watched[Host] /\ owner[j] = Host /\ Ours(j)
<1>1. j \in Jobs /\ Host \in Bridges /\ j \in watched[Host] /\ WatchOK(j)
  BY LifecycleAssumption DEF WatchInv, Served, Inv, Typed, TypeOK, JobsInv, JobOK
<1>2. owner[j] = Host
  BY <1>1 DEF WatchOK
<1>3. \A c \in Callers : ~(Starting(c) /\ thread[c].job = j)
  <2> SUFFICES ASSUME NEW c \in Callers, Starting(c), thread[c].job = j
               PROVE  FALSE
    OBVIOUS
  <2>1. c \in Threads /\ BridgeOf(c) = Host
    BY <1>2, StarterFacts DEF Starter
  <2> QED
    BY <2>1, LockPhases DEF MutexFree, Starting
<1>4. Ours(j)
  <2>1. CASE thread[j].pc \in {"waiting", "readout", "finalize", "finalizing", "respawned", "forcefail"}
    <3>1. j \in Threads /\ thread[j].pc \notin StartPhases
      BY <1>1, <2>1 DEF Threads, StartPhases
    <3>2. thread[j].job = j
      BY <1>1, <2>1, <3>1, Busy DEF Inv
    <3> QED
      BY <3>1, <3>2, StandingJob DEF Ours
  <2>2. CASE \E c \in Callers : (Starting(c) \/ Withdrawing(c)) /\ thread[c].job = j
    BY <1>3, <2>2 DEF Ours, Aborted
  <2> QED
    BY <1>1, <2>1, <2>2 DEF WatchOK
<1> QED
  BY <1>1, <1>2, <1>4

LEMMA NobodyPublishes ==
  ASSUME MutexFree(Host), NEW j
  PROVE  ~Publishing(Host, j)
  BY LockPhases DEF MutexFree, Publishing

LEMMA ListKeeps ==
  ASSUME Inv, LifeTyped, WatchInv, RaisedInv, CleanupInv, List
  PROVE  CleanupInv'
<1> DEFINE c == [Top EXCEPT !.step = "cancel", !.todo = Served]
<1>1. /\ UNCHANGED <<disk, withdrawn, up, servers, thread, owner, raised>>
      /\ asked' = asked \cup Served
      /\ MutexFree(Host) /\ up[Host] /\ TopBecomes(c) /\ Stopping /\ Host \in Bridges
  BY TopFacts DEF List, vars
<1>2. c \in Cleanups /\ c.step = "cancel" /\ c.todo = Served
  <2>1. Top \in Cleanups /\ Served \subseteq Jobs
    BY <1>1, TopFacts DEF Served, Inv, Typed, TypeOK
  <2> QED
    BY <2>1 DEF Cleanups, Steps
<1> HIDE DEF c
<1>3. Top' = c /\ Stopping'
  BY <1>1, <1>2, TopStep
<1>4. \A j : /\ Over(j)' <=> Over(j)
             /\ Publishing(Host, j)' <=> Publishing(Host, j)
             /\ Aborted(j)' <=> Aborted(j)
  BY <1>1 DEF Over, EndedOnDisk, Publishing, BridgeOf, Aborted, Withdrawing
<1>5. AskedInv'
  <2>1. \A j \in Served : j \in servers[Host] /\ owner[j] = Host /\ (disk[j] # Absent \/ Aborted(j))
    BY <1>1, ServedPublic DEF Served, Ours
  <2> QED
    BY <1>1, <1>4, <2>1 DEF CleanupInv, AskedInv
<1>6. TodoInv'
  <2> SUFFICES ASSUME NEW j \in asked', j \notin raised, ~Over(j)
               PROVE  j \in Served
    BY <1>1, <1>2, <1>3, <1>4 DEF TodoInv
  <2>1. CASE j \in asked
    <3>1. j \in servers[Host] /\ j \in Jobs
      BY <1>1, <2>1, NobodyPublishes DEF CleanupInv, AskedInv, LifeTyped
    <3> QED
      BY <3>1, ClosingNoted DEF Served
  <2> QED
    BY <1>1, <2>1
<1>7. ServedJobsEnd'
  BY <1>1 DEF ServedJobsEnd
<1> QED
  BY <1>5, <1>6, <1>7 DEF CleanupInv

\* A job that a cleanup has found and that is not over is known to Host, and watched
\* unless its end is being published.
LEMMA AskedKnown ==
  ASSUME Inv, LifeTyped, WatchInv, RaisedInv, CleanupInv, up[Host],
         NEW j \in asked \ raised, ~Over(j)
  PROVE  /\ j \in Jobs /\ Current(Host, j) # Absent
         /\ ~Publishing(Host, j) => j \in watched[Host] /\ mem[Host][j].state = "running"
<1>1. /\ j \in Jobs /\ Host \in Bridges /\ owner[j] = Host /\ j \notin withdrawn
      /\ j \in servers[Host] \/ Publishing(Host, j)
  BY LifecycleAssumption DEF CleanupInv, AskedInv, LifeTyped, Over
<1>2. j \in servers[Host] => j \in watched[Host]
  BY <1>1, ClosingNoted DEF WatchInv
<1>3. j \in watched[Host] => mem[Host][j].state = "running"
  BY <1>1 DEF Inv, JobsInv, JobOK, WatchOK, Over
<1>4. Publishing(Host, j) => mem[Host][j].state \in Terminal
  BY DEF Publishing, Inv, PhaseInv, PhaseOK
<1>5. mem[Host][j] # Absent
  BY <1>1, <1>2, <1>3, <1>4, AbsentState DEF Terminal
<1>6. Current(Host, j) # Absent
  BY <1>1, <1>5 DEF Current, Cached
<1> QED
  BY <1>1, <1>2, <1>3, <1>6

\* cancel() gets hold of a job that it finds in the list.
LEMMA AskCancelTakes ==
  ASSUME Inv, LifeTyped, WatchInv, RaisedInv, CleanupInv, NEW j \in asked \ raised, ~Over(j),
         AskCancel(j)
  PROVE  thread'[Me].job = j /\ thread'[Me].pc = "cancel"
<1>1. /\ Me \in Threads /\ Home[Me] = Host /\ up[Host] /\ Host \in Bridges
  BY TopFacts DEF AskCancel
<1>2. Get(Me, "cancel", j)
  BY <1>1, AskedKnown DEF AskCancel
<1>3. MutexFree(Host)
  BY <1>1, <1>2 DEF Get
<1>4. j \in watched[Host] /\ mem[Host][j].state = "running"
  BY <1>1, <1>3, AskedKnown, NobodyPublishes
<1>5. Current(Host, j).state = "running"
  BY <1>4 DEF Current
<1>6. thread' = [thread EXCEPT ![Me] = Thread("cancel", "cancel", j, 0)]
  BY <1>1, <1>2, <1>4, <1>5 DEF Get, Proceed, Terminal
<1> QED
  BY <1>1, <1>6 DEF Thread, Inv, Typed, TypeOK

LEMMA AskCancelKeeps ==
  ASSUME Inv, LifeTyped, WatchInv, RaisedInv, CleanupInv, NEW i \in Jobs, AskCancel(i)
  PROVE  CleanupInv'
<1> DEFINE c == [Top EXCEPT !.todo = @ \ {i}]
<1>1. /\ TopBecomes(c) /\ Stopping /\ thread[Me].pc = "idle" /\ Me \in Threads
      /\ UNCHANGED <<raised, asked>>
  BY TopFacts DEF AskCancel
<1>2. c \in Cleanups /\ c.step = Top.step /\ c.todo = Top.todo \ {i}
  BY <1>1, TopFacts DEF Cleanups
<1> HIDE DEF c
<1>3. Top' = c /\ Stopping' /\ Me' = Me
  BY <1>1, <1>2, TopStep
<1>4. Unmoved
  BY <1>1 DEF AskCancel, Get, Proceed, vars, Inv, Typed, TypeOK, Unmoved
<1>5. AskedInv' /\ ServedJobsEnd' /\ \A j \in Jobs : Over(j)' <=> Over(j)
  BY <1>4, UnmovedKeeps
<1>6. TodoInv'
  <2> SUFFICES ASSUME Top.step # "list", NEW j \in asked \ raised, ~Over(j)
               PROVE  /\ Top.step = "cancel"
                      /\ \/ j \in Top.todo /\ j # i
                         \/ thread'[Me].job = j /\ thread'[Me].pc = "cancel"
    BY <1>1, <1>2, <1>3, <1>5 DEF TodoInv, LifeTyped
  <2>1. Top.step = "cancel" /\ j \in Top.todo
    BY <1>1 DEF CleanupInv, TodoInv
  <2> QED
    BY <2>1, AskCancelTakes
<1> QED
  BY <1>5, <1>6 DEF CleanupInv

\* cancel() does not come back before the job it has in hand has ended, or raises.
LEMMA CancellingKeeps ==
  ASSUME Inv, LifeTyped, WatchInv, RaisedInv, CleanupInv, Orderly, Cancelling, Noted
  PROVE  CleanupInv'
<1>1. /\ Stopping /\ UNCHANGED <<cleanups, asked>> /\ Failing \subseteq raised' /\ raised \subseteq raised'
      /\ Me \in Threads /\ Me \notin Jobs /\ Home[Me] = Host /\ BridgeOf(Me) = Host /\ Me \in Callers
      /\ up[Host] /\ Host \in Bridges
  BY TopFacts DEF Cancelling, Noted
<1>2. Top' = Top /\ Me' = Me /\ Stopping'
  BY <1>1 DEF Top, Me, Depth, Stopping
<1>3. up' = up
  BY DEF Cancelling, FinalizeStep, FinalizeGoesOn, ReadOutput, TakeFirst, FinalizeAdopts,
     FinalizeEnds, FinalizeRetries, RetryPersist, Publish, Signal, Notify, FinalizeReenters,
     Probe, CancelFindsEnded, CancelCommits, Commit, FinalizeFails
<1>4. AskedInv'
  BY <1>1, <1>3, AskedKept DEF CleanupInv
<1>5. ServedJobsEnd'
  BY <1>1, <1>3 DEF ServedJobsEnd
<1>6. TodoInv'
  <2> SUFFICES ASSUME Top.step # "list", NEW j \in asked \ raised', ~Over(j)'
               PROVE  /\ Top.step = "cancel"
                      /\ \/ j \in Top.todo
                         \/ /\ thread'[Me].job = j
                            /\ thread'[Me].pc \in {"cancel", "cancelling", "publish"}
    BY <1>1, <1>2 DEF TodoInv
  <2>1. j \in Jobs /\ j \in asked \ raised /\ j \notin Failing /\ ~Over(j)
    BY <1>1, OverKept DEF LifeTyped
  <2>2. /\ Top.step = "cancel"
        /\ \/ j \in Top.todo
           \/ /\ thread[Me].job = j
              /\ thread[Me].pc \in {"cancel", "cancelling", "publish"}
    <3>1. TodoInv /\ Stopping /\ Top.step # "list"
      BY <1>1 DEF CleanupInv
    <3> QED
      BY <2>1, <3>1 DEF TodoInv
  <2>3. ASSUME thread[Me].job = j, thread[Me].pc \in {"cancel", "cancelling", "publish"}
        PROVE  /\ thread'[Me].job = j
               /\ thread'[Me].pc \in {"cancel", "cancelling", "publish"}
    <3>0. thread[Me] \in ThreadStates /\ thread[Me].pc \in Phases
      BY <1>1 DEF Inv, Typed, TypeOK, ThreadStates
    <3>1. ~FinalizeFails(Me)
      BY <1>1, <2>1, <2>3, <3>0 DEF Failing, FailingIn
    <3>2. ~CancelFindsEnded(Me)
      <4> SUFFICES ASSUME CanLock(Me), mem[Host][j].state \in Terminal
                   PROVE  FALSE
        BY <1>1, <2>1, <2>3 DEF CancelFindsEnded, Over
      <4>1. MutexFree(Host)
        BY <1>1, LockPhases
      <4> QED
        BY <1>1, <2>1, <4>1, NobodyPublishes, AskedKnown DEF Terminal
    <3>3. ASSUME Publish(Me)
          PROVE  FALSE
      <4>1. EndedOnDisk(j)'
        BY <1>1, <2>1, <2>3, <3>3, PublishEffect DEF EndedOnDisk
      <4> QED
        BY <4>1 DEF Over
    <3>4. CancelCommits(Me) \/ TakeFirst(Me)
      BY <2>3, <3>1, <3>2, <3>3 DEF Cancelling, FinalizeStep, FinalizeGoesOn, ReadOutput,
         FinalizeAdopts, FinalizeEnds, FinalizeRetries, Finalizing, RetryPersist, Signal, Notify,
         FinalizeReenters, Probe
    <3>5. CASE CancelCommits(Me)
      <4>1. thread' = [thread EXCEPT ![Me] =
                        Thread("publish", thread[Me].op, j, PidToKill(Host, j))]
        BY <1>1, <2>3, <3>5 DEF CancelCommits, Commit
      <4> QED
        BY <1>1, <4>1 DEF Thread, Inv, Typed, TypeOK
    <3>6. CASE TakeFirst(Me)
      <4>1. thread' = [thread EXCEPT ![Me] = Phase(Me, "cancelling")]
        BY <2>3, <3>6 DEF TakeFirst
      <4>2. Phase(Me, "cancelling").pc = "cancelling" /\ Phase(Me, "cancelling").job = j
        BY <2>3, <3>0, PhaseTyped DEF Phases
      <4> QED
        BY <1>1, <4>1, <4>2 DEF Inv, Typed, TypeOK
    <3> QED
      BY <3>4, <3>5, <3>6
  <2> QED
    BY <2>2, <2>3
<1> QED
  BY <1>4, <1>5, <1>6 DEF CleanupInv

\* A cleanup that is done leaves no served job open.
LEMMA CleanedUpEnds ==
  ASSUME CleanupInv, Stopping, CleanedUp \/ Top.step = "exit", NEW j \in asked \ raised
  PROVE  Over(j)
  BY DEF CleanupInv, TodoInv, CleanedUp

LEMMA EndKeeps ==
  ASSUME Inv, LifeTyped, WatchInv, RaisedInv, CleanupInv, Orderly, Noted, DieBySignal \/ ProcessEnds
  PROVE  CleanupInv'
<1>1. /\ Stopping /\ (CleanedUp \/ Top.step = "exit")
      /\ cleanups' = <<>> /\ UNCHANGED <<asked, raised>> /\ Die(Host)
  BY DEF DieBySignal, ProcessEnds
<1>2. up[Host]
  BY <1>1 DEF Die
<1>3. AskedInv'
  BY <1>1, <1>2, AskedKept DEF CleanupInv
<1>4. TodoInv'
  BY <1>1 DEF TodoInv, Stopping
<1>5. ServedJobsEnd'
  <2>1. \A j \in asked \ raised : Over(j)
    BY <1>1, CleanedUpEnds
  <2>2. \A j \in asked \ raised : Over(j)'
    BY <2>1, OverKept DEF LifeTyped
  <2> QED
    BY <1>1, <2>2 DEF ServedJobsEnd
<1> QED
  BY <1>3, <1>4, <1>5 DEF CleanupInv

LEMMA ServeReturnsKeeps ==
  ASSUME LifeTyped, CleanupInv, ServeReturns
  PROVE  CleanupInv'
<1>1. Unmoved /\ Stopping /\ CleanedUp
  BY DEF ServeReturns, vars, Unmoved
<1>2. AskedInv' /\ ServedJobsEnd' /\ \A j \in Jobs : Over(j)' <=> Over(j)
  BY <1>1, UnmovedKeeps
<1>3. TodoInv'
  BY <1>1, <1>2, CleanedUpEnds DEF TodoInv, Unmoved, LifeTyped
<1> QED
  BY <1>2, <1>3 DEF CleanupInv

LEMMA MeanwhileKeeps ==
  ASSUME Inv, LifeTyped, WatchInv, RaisedInv, CleanupInv, Orderly, Noted, Meanwhile
  PROVE  CleanupInv'
<1>1. UNCHANGED <<cleanups, asked>> /\ up'[Host] = up[Host] /\ raised \subseteq raised'
      /\ \A m \in MainThreads : thread'[m] = thread[m]
  BY DEF Meanwhile, Noted
<1>2. Top' = Top /\ Me' = Me /\ Stopping' = Stopping
  BY <1>1 DEF Top, Me, Depth, Stopping
<1>3. AskedInv'
  BY <1>1, AskedKept DEF CleanupInv
<1>4. \A j \in asked : Over(j) => Over(j)'
  BY OverKept DEF LifeTyped
<1>5. TodoInv'
  <2>1. Stopping => thread'[Me] = thread[Me]
    BY <1>1, TopFacts
  <2> QED
    BY <1>1, <1>2, <1>4, <2>1 DEF CleanupInv, TodoInv
<1>6. ServedJobsEnd'
  BY <1>1, <1>4 DEF CleanupInv, ServedJobsEnd
<1> QED
  BY <1>3, <1>5, <1>6 DEF CleanupInv

LEMMA ReplacedKeeps ==
  ASSUME Replaced
  PROVE  CleanupInv'
  BY DEF Replaced, Forget, CleanupInv, AskedInv, TodoInv, ServedJobsEnd, Stopping

----------------------------------------------------------------------------
LEMMA LifeInitSafe == LifeInit => LifeInv
<1> SUFFICES ASSUME LifeInit
             PROVE  LifeInv
  OBVIOUS
<1>1. Init /\ cleanups = <<>> /\ asked = {} /\ raised = {} /\ unrecorded = {}
  BY DEF LifeInit
<1>2. Idle.pc = "idle" /\ \A t \in Threads : thread[t] = Idle
  BY <1>1, IdleTyped DEF Init
<1>3. Inv
  BY <1>1, InitSafe
<1>4. LifeTyped
  BY <1>1, EmptySeq, LenProperties, LifecycleAssumption DEF LifeTyped, Depth, Stopping
<1>5. WatchInv
  BY <1>1 DEF Init, WatchInv
<1>6. RaisedInv
  BY <1>2 DEF RaisedInv, Threads
<1>7. HeldInv
  BY <1>1 DEF Init, HeldInv
<1>8. CancelInv
  BY <1>2 DEF CancelInv, Concluding, Threads
<1>9. AskedInv /\ TodoInv /\ ServedJobsEnd
  BY <1>1 DEF AskedInv, TodoInv, ServedJobsEnd
<1>10. RecordedInv
  BY <1>1, RegistryAssumption DEF Init, RecordedInv
<1> QED
  BY <1>3, <1>4, <1>5, <1>6, <1>7, <1>8, <1>9, <1>10 DEF LifeInv

LEMMA LifeNextSafe ==
  ASSUME LifeInv, LifeNext
  PROVE  LifeInv'
<1>1. /\ Inv /\ LifeTyped /\ WatchInv /\ RaisedInv /\ HeldInv /\ RecordedInv /\ CancelInv
      /\ CleanupInv
  BY DEF LifeInv, CleanupInv
<1>2. LifeTyped' /\ Noted
  BY <1>1, LifeTypedKept, LifeNotes
<1>3. Inv' /\ Orderly /\ WatchInv' /\ RaisedInv' /\ HeldInv' /\ RecordedInv' /\ CancelInv'
  <2>1. CASE UNCHANGED vars
    <3>1. Orderly
      BY <1>1, <2>1, QuietOrderly DEF vars, Withdrawing
    <3> QED
      BY <1>1, <1>2, <2>1, <3>1, StutterSafe, NothingMoves
  <2>2. CASE RegistryStep
    <3>1. Inv' /\ Orderly
      BY <1>1, <2>2, RegistryStepSafe, RegistryOrderly
    <3>2. RecordedInv' /\ CancelInv'
      BY <1>1, <1>2, <2>2, RegistryRecords, RegistryCancels DEF Noted
    <3> QED
      BY <1>1, <1>2, <2>2, <3>1, <3>2, RaisedKept, WatchKept, HeldKept
  <2> QED
    BY <1>1, <2>1, <2>2, LifeRegistry
<1>4. CleanupInv'
  BY <1>1, <1>2, <1>3, EnterKeeps, ListKeeps, AskCancelKeeps, CancellingKeeps, EndKeeps,
     ServeReturnsKeeps, MeanwhileKeeps, ReplacedKeeps DEF LifeNext, Shutdown
<1> QED
  BY <1>2, <1>3, <1>4 DEF LifeInv, CleanupInv

LEMMA LifeStutter ==
  ASSUME LifeInv, UNCHANGED allVars
  PROVE  LifeInv'
<1>1. UNCHANGED <<vars, cleanups, asked, raised, unrecorded>>
  BY DEF allVars, lifeVars
<1>2. /\ Inv /\ LifeTyped /\ WatchInv /\ RaisedInv /\ HeldInv /\ RecordedInv /\ CancelInv
      /\ CleanupInv
  BY DEF LifeInv, CleanupInv
<1>3. Noted
  <2>1. thread' = thread
    BY <1>1 DEF vars
  <2> QED
    BY <1>1, <1>2, <2>1, NothingFails DEF Noted
<1>4. Inv' /\ WatchInv' /\ RaisedInv' /\ HeldInv' /\ RecordedInv' /\ CancelInv'
  BY <1>1, <1>2, <1>3, StutterSafe, NothingMoves
<1>5. /\ Unmoved /\ UNCHANGED <<up, cleanups, asked, raised, unrecorded, thread>>
      /\ Stopping' = Stopping /\ Depth' = Depth /\ Top' = Top /\ Me' = Me
  BY <1>1 DEF vars, Stopping, Depth, Top, Me, Unmoved
<1>6. LifeTyped'
  BY <1>2, <1>5 DEF LifeTyped
<1>7. AskedInv' /\ ServedJobsEnd' /\ \A j \in Jobs : Over(j)' <=> Over(j)
  BY <1>2, <1>5, UnmovedKeeps
<1>8. TodoInv'
  BY <1>2, <1>5, <1>7 DEF TodoInv, CleanupInv, LifeTyped
<1> QED
  BY <1>4, <1>6, <1>7, <1>8 DEF LifeInv

\* The invariant of the bridge's end, the registry's own included: a bridge that
\* goes down in the middle of anything leaves a state directory that the others
\* can work with (jobs.py:597-623, server.py:554-594).
THEOREM LifecycleSafe == LifeSpec => []LifeInv
<1>1. LifeInit => LifeInv
  BY LifeInitSafe
<1>2. LifeInv /\ [LifeNext]_allVars => LifeInv'
  BY LifeNextSafe, LifeStutter
<1> QED
  BY <1>1, <1>2, PTL DEF LifeSpec

\* The loopback server of a job is closed before its end is public in the bridge
\* that ends it, and a server that is open has a watcher that will close it; but for
\* the two paths that close it after they gave back _lock.
THEOREM ServersAreClosed == LifeSpec => []ServersClose
<1>1. LifeInv => ServersClose
  <2> SUFFICES ASSUME LifeInv, NEW b \in Bridges, NEW j \in servers[b], ~Closing(b, j)
               PROVE  /\ \A t \in Threads : BridgeOf(t) = b /\ thread[t].job = j
                             => thread[t].pc \notin {"publish", "signal", "notify"}
                      /\ EndedOnDisk(j) => owner[j] = b /\ thread[j].pc # "idle"
    BY DEF ServersClose
  <2>1. Inv /\ j \in watched[b] /\ j \in Jobs
    BY DEF LifeInv, WatchInv, Inv, Typed, TypeOK
  <2>2. \A t \in Threads : BridgeOf(t) = b /\ thread[t].job = j => ~Concluding(t)
    BY <2>1 DEF Inv, JobsInv, JobOK, WatchOK
  <2>3. EndedOnDisk(j) => disk[j] # Absent /\ ~Aborted(j)
    BY <2>1, AbsentState, AbortedFacts DEF EndedOnDisk, Terminal
  <2>4. EndedOnDisk(j) => owner[j] = b /\ thread[j].pc # "idle"
    BY <2>1, <2>3, WatchedFacts DEF WatchingPhases
  <2> QED
    BY <2>2, <2>4 DEF Concluding
<1> QED
  BY <1>1, LifecycleSafe, PTL

\* A cleanup that has run to its end leaves no served job open, whatever signals
\* interrupted it and whatever the threads of this and of other bridges did.
THEOREM ServedJobsEnded == LifeSpec => []ServedJobsEnd
<1>1. LifeInv => ServedJobsEnd
  BY DEF LifeInv
<1> QED
  BY <1>1, LifecycleSafe, PTL

\* A cancel in the bridge that started the job leaves no process of it, unless a
\* retry of the job could not be recorded.
THEOREM OwnCancelStops == LifeSpec => []OwnCancelStopsAgy
<1>1. LifeInv => OwnCancelStopsAgy
  <2> SUFFICES ASSUME LifeInv, NEW c \in Callers, thread[c].pc = "notify",
                      NEW j, j = thread[c].job, owner[j] = Home[c],
                      disk[j].state = "cancelled", j \notin unrecorded
               PROVE  Live(j) = {}
    BY DEF OwnCancelStopsAgy
  <2>1. Concluding(c) /\ Decided(c) = "cancelled"
    BY DEF Concluding, Decided
  <2> QED
    BY <2>1 DEF LifeInv, CancelInv
<1> QED
  BY <1>1, LifecycleSafe, PTL

----------------------------------------------------------------------------
\* What the registry promises by itself it also promises while a bridge is stopped.

\* Cleanups, signals and the end of the process report no job twice and none before
\* its end is public, start no process beside another, and leave no job watched by
\* nobody (jobs.py:597-623).
THEOREM StoppingKeepsRegistry ==
    LifeSpec => [](FinishedOnce /\ OneLiveProcess /\ WatchedIsServed)
<1>1. LifeInv => FinishedOnce /\ OneLiveProcess /\ WatchedIsServed
  BY InvReports, InvOneLive, InvServed DEF LifeInv
<1> QED
  BY <1>1, LifecycleSafe, PTL

LEMMA DieRefines ==
  ASSUME Undisturbed, NEW b \in Bridges, Die(b)
  PROVE  UNCHANGED Lifecycle!vars /\ Undisturbed'
<1>1. AgyKeeps /\ UNCHANGED <<disk, finishes, withdrawn>>
  BY DEF Die, AgyKeeps
<1>2. \A t \in Threads : thread'[t] = thread[t] \/ thread'[t] = Idle
  BY DEF Die
<1>3. UNCHANGED Lifecycle!vars
  BY <1>1, SameView DEF AgyKeeps
<1>4. Undisturbed'
  BY <1>1, <1>2, IdleTyped, QuietStep DEF FaultPhases
<1> QED
  BY <1>3, <1>4

LEMMA LifeRefines ==
  ASSUME "io" \notin Faults, LifeInv, Undisturbed, [LifeNext]_allVars
  PROVE  [Lifecycle!Next]_(Lifecycle!vars) /\ Undisturbed'
<1>1. Inv /\ LifeTyped
  BY DEF LifeInv
<1>2. [Next]_vars \/ \E b \in Bridges : Die(b)
  BY <1>1, LifeRegistry DEF RegistryStep, allVars
<1> QED
  BY <1>1, <1>2, StepRefines, DieRefines

\* A reader of the state directory cannot tell a bridge that is stopped from one
\* that runs: whatever the cleanups cancel, each job is announced, ends and is
\* reported as JobLifecycle says.
THEOREM StoppingImplementsLifecycle ==
  ASSUME "io" \notin Faults
  PROVE  LifeSpec => ImplementsLifecycle
<1>1. LifeInit => Init /\ LifeInv
  BY LifeInitSafe DEF LifeInit
<1>2. LifeInv /\ Undisturbed /\ [LifeNext]_allVars =>
         [Lifecycle!Next]_(Lifecycle!vars) /\ Undisturbed' /\ LifeInv'
  BY LifeRefines, LifeNextSafe, LifeStutter
<1> QED
  BY <1>1, <1>2, UndisturbedInit, InitRefines, PTL DEF LifeSpec, ImplementsLifecycle, Lifecycle!Spec
=============================================================================
