# Verification of claude-agy-bridge

TLA+ models of the bridge in `src/src/agy_bridge/`, the TLC runs that check them on small
instances, and TLAPS proofs for every instance. `jobs.py:123` means line 123 of
`src/src/agy_bridge/jobs.py`; `PROJECT.json` lists the components, the runs, a mutant per
property, the lines each definition models, the findings, the hazards and the theorems.

## 1. The system

Claude Code talks to a *bridge* process over MCP. The bridge has no model of its own: it
starts the `agy` command line as a detached subprocess, waits for it, and relays its answer.
A call that takes longer than `wait_seconds` returns a job handle, and the client polls.
Several bridge processes (several Claude sessions in one repository) share one state
directory: job records, the call ledger and the session map are files in it. Each bridge has
a thread per API call and a watcher thread per running job. Bridges die and are started
again; agy survives them.

### Inventory

| Component | State | Operations | What makes it correct |
|---|---|---|---|
| **Job registry** (`jobs.py`) | `j-N.json`, `.stdout`, `.stderr`, `.lock` on disk; `_records`, `_watched`, `_commands`, `_servers`, `_events` in memory | `start`, `_watch`, `_finalize` (with one retry), `_force_fail`, `get`, `wait`, `cancel`, `shutdown`, `list_jobs`, `prune` | A job ends once and for good, is reported at most once, runs at most one process at a time and at most `MAX_ATTEMPTS` in all, is never stuck while somebody watches it, and is recovered after its bridge died |
| **Consultation pipeline** (`server.py:268-393`, id claims in `jobs.py:180-240`) | the claimed, empty `j-N.json`; the day charged | check the budget, prepare files, claim an id, check and record, start, undo | An id is one call's; whatever fails, the claim and the charge are taken back |
| **Ledger** (`budget.py`) | `ledger.jsonl`, append only | `record_start/retry/spawn_failed/finish`, `calls_today`, `check_and_record_start`, `report` | A day counts what was started on it; no day exceeds the budget |
| **Session map** (`sessions.py`) | `sessions.json`, its `.tmp` and `.lock` | `resolve`, `record_use`, `close`, `list_sessions` | No lost update, no torn file |
| **agy runner** (`runner.py`) | none | build the command, judge the output | Silence is never a success; only a nonzero exit is retried |
| **Context server** (`serve.py`) | open/closed, snapshot of files | serve, `close` | Lives exactly as long as its job |
| **Context preparation** (`context.py`) | none | inline or serve each file | Budgets kept; nothing is dropped |
| **Bridge process** (`server.py:397-594`) | signal handlers | tools, `_cleanup`, signals | Jobs that read from the context server do not outlive it |
| **CLI, configuration, prompts, schema** | files of one user | `init`, `deinit`, `purge`, `doctor`; validation; text | sequential |

### Interaction

    tool call --> budget check --> claim id --> check+record start --> registry.start --> agy
                     ledger         j-N.json         ledger               j-N.json
    watcher / get / cancel --> _finalize --> on_retry (ledger) or end --> on_complete (ledger, sessions)

Shared between bridges: the files. Protection: `flock` per job, on the ledger and on the
session map, always before the thread lock of the process; `O_CREAT|O_EXCL` for job ids.
Callbacks: `on_retry` runs under the job's locks, `on_complete` after them.

### What is hard here

* Who ends a job: its watcher, a timeout, a `get` in another bridge that finds the process
  dead, a `cancel` in any bridge, or the safety net `_force_fail`; meanwhile the watcher may
  start a second process.
* Values read before the lock and used under it: the pid a `get` has probed, the stdout, the
  record in the memory of a bridge that does not watch the job.
* Crashes between a side effect and the file that tells of it.
* Undoing: a start that fails has to return its id and its charge, maybe after midnight, while
  another bridge already uses the id.
* The ledger is read from its end back to the first entry of another date.
* Sessions are rewritten as whole files through one temporary name.

## 2. Modules

| Module | What it is |
|---|---|
| `JobLifecycle` | Abstract: a job as a reader of the state directory and the ledger sees it |
| `JobRegistry` | `jobs.py`: several bridges, watchers, API threads, agy processes, crashes, failing files |
| `BridgeLifecycle` | the end of a bridge process on top of it: signals, `shutdown`, the end of `serve()` |
| `MCJobRegistry`, `MCBridgeLifecycle` | their instances |
| `JobRegistry_proofs`, `JobRegistrySafety_proofs` | the registry's theorems: types; safety and refinement |
| `BridgeLifecycle_proofs` | the theorems of a bridge's end |
| `Ledger` | how ledger lines are counted (`budget.py`) |
| `Claims` | Abstract: ids and who holds them |
| `Consult` | `_start_and_wait` with the ledger, the id files and `prune` |
| `MCConsult`, `Consult_proofs` | its instances, its theorems |
| `SessionMap` | Abstract: one atomic map |
| `Sessions` | `sessions.py` and the calls that use it |
| `MCSessions`, `Sessions_proofs` | its instances, its theorems |
| `PrepareContext` | `context.py` and the rounds of `server.py:309-326`: inline or serve |
| `ContextServer` | `serve.py` on top of it: opening, requests, closing |
| `MCContextServer`, `ContextServer_proofs` | their instance, the theorems of both |
| `Install` | `init` and `deinit` of `cli.py`; its instance needs no MC module |
| `Install_proofs` | its theorems |
| `Ranks` | lemmas about the rank of a number in a finite set, for `ContextServer_proofs` and `Install_proofs` |

### JobRegistry and the code

* `disk[j]` is `j-N.json`, `mem[b]` is `_records`, `watched[b]` is `_watched` together with
  `_commands` (they change at the same lines), `servers[b]` are the open servers of `_servers` and those that a
  thread has taken out and not closed yet (`Closing`). A record keeps `state`, `attempts` and `pid`; the pair of pid and start time
  is the number of the attempt, so a reused pid is never mistaken for ours (`jobs.py:700-712`).
* `agy[j][a]` is the process of attempt `a`: a process that has exited stays a zombie, which
  still answers `kill(pid, 0)`, until its parent reaps it or dies. `stdout[j]` is what the output
  file parses as; the next attempt truncates it.
* `thread[t]` is the program counter of a watcher (named by its job) or an API thread:
  `waiting` is `process.wait`, `probe` the check of `_is_our_process` outside the lock,
  `readout` the reading of stdout before the lock, `publish` and `respawned` the code inside the locks with memory changed and the record not yet
  written, `signal` the kill after a cancel, `notify` the call of `on_complete`, `forcefail` the handler in
  `_watch`, `closing` the `close()` of a server after the lock. Within the lock, memory is changed in one step and the disk in the next, so that
  a crash or an exception falls between them and unlocked readers of the disk see the old record.
* `_job_lock` takes two locks one after the other (`jobs.py:134-137`): in `finalize` and `cancel` a thread waits for the flock, in `finalizing` and
  `cancelling` (after `TakeFirst`) it holds the flock and waits for `_lock`. A hold-and-wait is therefore a state of the model, and `CallsReturn` fails if
  some thread takes them in the other order.
* A start that fails is four steps, as at `jobs.py:296-325`: `StartRaises` gives `_lock` back, `KillStarted` kills and reaps without a lock, `StartForgets`
  takes `_lock` again, forgets the job and removes its record, `CloseServer` closes its server. In between a `cancel` or the cleanup of `shutdown` may end the job, report the end and
  even publish it. `withdrawn` are the jobs whose start has taken its record away.
* `start` persists its record under the registry's lock alone; `_force_fail` has that lock and not
  the flock, publishes, and closes the server after the lock (`jobs.py:374-391`): both as in the code.
* `Faults` says what may raise: `spawn` (the retry hook or the second spawn, `jobs.py:459`), `io` (opening
  the lock file or writing a record). `Next` is `SoundStep`, in which file operations succeed, or a `FileFault`.
* `Crash` loses memory, threads, locks and servers (`Die`); agy goes on, and its zombies go to init.

Left out: the polling loop of `wait` (it repeats `get`), `list_jobs` (it only reads; it shows jobs of other
bridges as this bridge's memory has them, so possibly as running after they ended), the failure of
`Thread.start()` after the record was written, and the data of a record.

### BridgeLifecycle and the code

The main thread of `Host` cleans up in a signal handler and in the `finally` of `serve()` (`server.py:549-594`). A
handler interrupts whatever the main thread does, another cleanup included, so `cleanups` is a stack; each depth works as an
API thread of the registry (`Main[d]`), and only the top one takes steps. `Enter` is a signal or the end of stdio, `List` the snapshot of `_servers`,
`AskCancel` and `Cancelling` the `cancel()` of each job in it with its exceptions suppressed, `DieBySignal` the end at once,
`ServeReturns` and `ProcessEnds` the end of the interpreter, which waits for worker threads and not for watchers. `Meanwhile` is every other
step of the registry, `FileFault`s included; `Replaced` is a kill or a new start of the process.
Three sets serve the properties and are not in the code: `asked` (what a snapshot found), `raised` (jobs for which a file
operation failed) and `unrecorded` (those of them whose retry got a process and no record).

A cleanup that needs a lock which a lower frame of the main thread holds waits for ever, in the model as in the code: the process hangs until it is killed.
A signal inside the two short critical sections of the main thread that are one step here (`List`, `Get`) is taken after the step.

### Consult and the code

A call goes through the lines of `_start_and_wait` in order: `Begin` (the unlocked check),
`Scan` and `TryCreate` (`_next_job_id`: the directory is read, then numbers are tried with
`O_EXCL`), `CheckBudget` and `RecordStart` (one critical section of the ledger; the date
is taken again between them, `budget.py:175-176`), `Spawn` (the output files are opened and agy runs) and `Start` (the record is written), or one of the failures.
`PromptRefused` is an exception of `start` before it touches anything; `StartFails` is one of the spawn, with none, one or both of the
output files opened, or of the record, and `StartUndone` the removal of `j-N.json` that follows (`jobs.py:317`), between which other threads work.
`Correct`, `ReleaseStat` and `ReleaseUnlink` undo;
the look at the size and the removal are two steps because other bridges do not share the
lock. `Retry` and `End` are the hooks together with what the registry writes into the job's files. `Midnight` moves the date at any time.

`prune` runs in the constructor of a registry without any lock, so every bridge goes through all ids when it starts
and again after its crash: `PruneLook` reads a record, `PruneRecord` removes the file of that name, and three `PruneSide` remove the stdout, the stderr and the lock file of that
number (`jobs.py:215-222`). The number is free from `PruneRecord` on. The retention of 30 days is abstracted: a
midnight may be `long`, and what had ended before it is `expired` afterwards. A bridge takes calls once it is through.

`files[i]` is `j-N.json`, `sides[i]` the other three files. Who wrote a file, `held` (who believes to own an id) and `disturbed` are not in the code, they serve the properties:
`disturbed` are the ids under which a removal by name has hit a file that was somebody else's by then.

The ledger is the whole sequence of lines, and a list of entries the set of their positions; `EntriesToday` stops
at the first line of another date as `_entries_today` does. Not modelled: `report`, corrupt lines (a line is whole or not there), the
search for a start's date (the only caller passes it). The preparation of the prompt between
`Begin` and `Scan` is `PrepareContext`.

### Sessions and the code

Each call asks for its conversation (`Consult`, `Followup`), gets an answer (`Answer`, which names a conversation or
none, `runner.py:258`, and may be collected by another bridge), and records the use, or it closes a session. A save is four
steps: load and change in memory, truncate the temporary file, fill it, rename it. All writers
of all bridges use the same temporary name. `Crash` may fall between any two of them; `Outage`
kills everything and may leave `sessions.json` torn, because nothing is synced before the rename; a torn file is renamed away
by the next load (`sessions.py:48-57`). Left out: tokens, times, modes, `list_sessions`.

### PrepareContext, ContextServer and the code

A document is known by the sizes of its first n lines, in characters and in bytes: the budgets, the chunking and the
prompt's length depend on nothing else. `Render` reads one file spec after the other (ranges cut at the end of the document, a missing or
forbidden path refuses the call), and an edit may fall between two of them; `Inline` and `Serve` place one item each: after the first item that does not fit, all
are served. `IsChunking` says where `_chunk_into` cuts a block, `Copy` how `_unique_name` numbers colliding flat names. `Settle` and `Again` are the ends of a round
of `server.py:314-326`: the size of the list of URLs fits in what was reserved, or it is reserved and everything is prepared
again, at most three times. `Edit` changes a file between the rounds. `Open` fixes the port, one digit shorter than the
estimate or not; `Start` is `ensure_prompt_within_argv_limit`.

`ContextServer` adds the server: `OpenServer` takes the snapshot, `Request`, `CheckClosed`, `Lookup` and `Reply` are the
steps of a handler thread, `CloseMark`, `CloseClear` and `ClosePort` those of `close()`, which several threads may call.

Left out: the text of blocks and of the index, how a path is refused (one set of forbidden paths stands for the rules), `inline_files`
(nothing in `src/` calls it).

### Install and the code

`cmd.pc` is the next file operation of `init` or `deinit`; `.mcp.json` is a set of server entries, absent or broken, `CLAUDE.md` a sequence of
blocks: our section, the user's sections of the second level and chapters of the first. `Path.write_text` empties the file before it fills it, hence `Killed` inside `WriteMcp` and `WriteClaude`. `init` ends early on a broken
`.mcp.json` or a failed smoke test and leaves what it wrote; it makes its two directories in two steps (`InitDirs`). `deinit` collects what it will remove (`DeinitBegins`)
and then works step by step, the two `rmdir`s included (`DeinitInner`, `DeinitOuter`); if it finds nothing to remove it ends there and succeeds (the phase `nothing`, `cli.py:439-441`). It reads `CLAUDE.md` again when it cuts our section out, up to the next heading of the
second level. The user edits between commands and while `init` waits.

## 3. Runs

| Run | Instance | Shows |
|---|---|---|
| `registry_pair` | 2 bridges with an API thread each, 1 job, 2 attempts, 1 crash, retries may fail to spawn, fairness; 68,799 states | `TypeOK`; the inductive invariant `Inv`; `FinishedOnce`; `OneLiveProcess`; `ImplementsLifecycle`; liveness `WatchedJobEnds`, `CallsReturn` (no call waits for ever, so the two locks of `_job_lock` do not deadlock), `OrphanEnds` |
| `lifecycle` | a bridge with a starting client and two nested cleanups, a neighbour that cancels, 1 job, 2 attempts, failing spawns and files, no crash; 881 k states | the inductive invariant `LifeInv`. `ServedJobsEnd`: what a cleanup found served is ended when the bridge is down. `ServersClose`: an end is public after its server is closed, except by `_force_fail` and beside a start that is being undone. `OwnCancelStopsAgy`: a cancel in the owner's bridge leaves no process, unless the retry of this job got into no record. `WatchedIsServed`: no job is watched by nobody. `FinishedOnce` again, with failing files and starts |
| `registry_cancel` | 2 bridges, no crash, no fault | finding: `CancelStopsAgy` violated |
| `registry_recover` | 2 bridges, no crash, no fault | finding: `RecoveryAfterDeath` violated |
| `consult` | 2 calls in one bridge, 1 in another, both prune when they start, budget 1, 2 ids, 2 days, 1 crash, every fault; 4.0 M states | `TypeOK`; `FilesStay`: a job loses its files only to a removal by name that hit a file of somebody else; `ClaimsReturned`: no refused or failed call leaves a claim, also after an error of the ledger; `StartsWithinBudget`; `LedgerExact`; `ImplementsClaims` |
| `consult_midnight` | budget 1, 2 days | finding: `BudgetKept` violated |
| `consult_retry` | budget 2, 1 day, agy may fail | finding: `BudgetKept` violated |
| `consult_release` | a start may fail after its spawn | finding: `RecordKept` violated |
| `sessions` | 3 calls of 2 bridges, 2 sessions, 1 crash, 1 outage, failing agy and writes; 1.4 M states | `TypeOK`, `SavesWhole`, `ImplementsMap` |
| `context` | 8 lists of up to 4 file specs over 3 paths and 3 documents, 2 overheads, 1 edit, a handler and 2 closers; 564 k states | `TypeOK`; `InOrder`, `EverythingDelivered`: each file arrives once, whole and in order; `PartsBounded`; `PromptFits`; for the server `UrlsResolve` (a request for a URL of the prompt gets past the check and to its part while the job runs), `AnswersRight`, `NothingAfterClose` and the liveness `ServerEnds` |
| `install` | 1 other server, 2 sections, 1 chapter and 1 playbook of the user, 4 edits, 2 kills; 120 k states | `TypeOK`, `OneSection`, `Registered`, `Unregistered`, `OutsideKept` |
| `install_user` | the same | finding: `UserKept` violated |

### What the findings say

* **`registry_cancel`** (`jobs.py:642`). A bridge that does not watch a job reads its record, the
  owner retries, and `cancel` takes the pid from its own memory (`jobs.py:636`) though it has
  just read the new record from disk. The new process gets no signal and the job is public as cancelled
  without a pid: nobody can reach it any more, which the comment at `jobs.py:662-663` rules out.
* **`registry_recover`** (`jobs.py:555`). The pid that `get` probed may have been replaced by a retry
  when `_finalize` runs; the neighbour ends the job while its second process works.
* **`consult_midnight`** (`budget.py:91`). The correction of a start that failed after midnight
  carries yesterday's date and stands behind today's entries, which are then not counted.
* **`consult_retry`** (`server.py:155`). The retry hook records and does not check, although
  `jobs.py:452-455` relies on its refusal.
* **`consult_release`** (`jobs.py:238`). After `start` removed its record file the id is free; the
  following `release_claim` may remove the file that another bridge's call put there.
* **`install_user`** (`cli.py:460`, the same pattern at `cli.py:568`). A section of the first level that stands behind ours is cut out by `deinit` and
  by a second `init`, because the pattern of our section stops at headings of the second level only. The repository's `README.md:98` and `README.md:101` promise
  that nothing of the user's is deleted on any path and that the other sections of `CLAUDE.md` stay.

### Other things the modelling showed

* **Bridges that prune while others work** (`jobs.py:209-225`). Two bridges that start together both find an old record, one removes it, a call takes the id, and the other removes the
  new record by its name, although `jobs.py:203-204` says that jobs that have not ended are never
  touched. One pruner is enough for the other files: it removes the record, a call takes the id and starts agy, and the pruner goes on to remove the stdout, the stderr and the lock
  file of that number. `FilesStay` and `ImplementsClaims` therefore say what holds with any number of pruners, until such a removal happens (`disturbed`).
* **A failed start leaves files** (`jobs.py:317`). It removes the record and leaves stdout and stderr; the next call that takes the id truncates them.
* **A correction that cannot be written** (`server.py:381-382`) raises before the claim is released: the empty `j-N.json` stays for good, because `prune` and the scan both
  take it for somebody's. Besides the death of the bridge it is the one failure that `ClaimsReturned` excepts.
* **A cancel during a start that is being undone** (`jobs.py:299-317`). It may end the job and report the end, and `start` then removes the record; or it
  writes the record after `start` has removed it, and the caller that was told of a failed start finds a cancelled job. `FinishedOnce` holds all the same: an end is reported once and was public.
* **`_force_fail` publishes first** (`jobs.py:384-391`) and closes the server of the job after the lock: for a moment a reader sees a failed job whose server still answers.
* **A start behind the snapshot of `shutdown`** (`jobs.py:609`). A worker thread that is still inside `start` when the cleanup looks at `_servers`
  leaves a served job running whose server dies with the process. `ServedJobsEnd` therefore speaks of what was found.
* **A second signal within the five seconds of a kill** ends the process by the upper handler, and the SIGKILL that
  the interrupted `cancel` was about to send is not sent (`server.py:547-548`). The record is cancelled; agy had SIGTERM.
* **A retry whose record cannot be written** (`jobs.py:472`). The new agy runs, the exception takes the watcher to `_force_fail`, and if that cannot write either, the
  disk still says running with the old pid. `get` finds that process dead and ends the job, or `cancel` does, without a signal: the new agy is in no record and
  runs on. `OwnCancelStopsAgy` therefore leaves out these jobs, and only these (`unrecorded`).
* **No deadline after a restart** (`jobs.py:552`). A hung agy of a dead bridge runs on, and `get` says running.
* **Closed sessions come back** (`sessions.py:84`). A call that began before `close` records its use afterwards and creates the session anew.
* **A crash between the ended record and `on_complete`** (`server.py:142`) loses the finish entry and the session's conversation for good.
* **`purge --yes`** (`cli.py:532`) looks for running jobs and then removes the directory; a job started in between loses its
  files, and a claim without a record is not seen.
* **A kill inside `write_text`** of `.mcp.json` or `CLAUDE.md` (`cli.py:272`, `cli.py:450`) leaves it empty; `OutsideKept` excludes these kills.
  An empty `.mcp.json` is refused by both commands until it is repaired.
* **A `deinit` that is killed before its last step** (between `cli.py:470` and `cli.py:477`) leaves empty directories, and the next one finds nothing to
  remove and says so (`cli.py:439-441`). `Unregistered` promises no empty directory only of a `deinit` that removed something.
* **Text under our own heading** counts as ours: what the user writes there goes with the section.

### Bounds

* Two bridges are the owner of a job and a neighbour; a third would be another neighbour, whose steps
  the first one's cover. One job: jobs share only a bridge's lock, and whoever holds that lock goes on by itself, so that a second job
  delays steps of the first and changes none. Two attempts are `MAX_ATTEMPTS` in the code.
* `MaxCrashes` is 1 where crashes matter: one death and restart of the owner, or of the neighbour, at any step. `lifecycle` has none: its bridge ends by its own cleanup
  at any step, `registry_pair` has the crashes, and of crashes together with failing files the theorems speak.
* `MaxStops` 2: a signal into a cleanup, or a second start that is stopped again. `Asks` lets the host's client start and the neighbour cancel, with what
  these calls lead to; more operations there repeat `registry_pair`.
* Three calls, two of them in one bridge, show contention within a bridge and between bridges, with a budget that the first of them
  uses up. `MaxId` is 2 in `consult`: a call for which no number is left waits for a pruned one, so that numbers are taken again soon. It is 3 in the runs with findings, where it never
  binds: the scan yields one more than the highest file, and every file is one of three calls'. Two days hold one midnight, of either kind.
* Three calls and two sessions let two writers of one session meet a writer of the other.
* The sizes of `context` are scaled down together so that, over the requests, all is inlined, all is served, an item is served in one to four parts,
  a line is larger than a part, two paths share a flat name, a second and a third round settle, and the rounds run out.
* `MaxEdits` 4 and `MaxKills` 2 in `install`: an `init`, an interrupted one and a `deinit` with edits before, between and after.
* `consult` uses the symmetry of the two calls of one bridge: no definition tells them apart, and the run checks invariants and a refinement without fairness. The other
  runs use none: liveness does not allow it, and they are small enough.
* `CHECK_DEADLOCK FALSE` in all runs but `install` and `install_user`: the systems stop when their calls are through, their jobs have
  ended and their crashes are used up. A user can always run `init` again.

### Fairness

`FairSpec` of `JobRegistry` has weak fairness for the steps of live threads only. A watcher
returns from `process.wait(timeout=...)` at the latest at the deadline, which is why `WatchStep` (reap or
kill) is fair although agy's exit is not; a thread that waits for a lock gets it because each holder goes on.
(`flock` and `threading.Lock` promise no order. The models have no starvation under weak fairness because a job
leaves its locks for good after finitely many steps.) Liveness is stated over `SoundStep`: with a disk that fails again and again nothing ends.
Calls are the client's and are not fair. `OrphanEnds` assumes what it names, `PollsGoOn`: bridges are restarted
and somebody keeps asking. Without that an orphan remains running, and it also does when its process hangs,
so the property speaks of dead processes.

`ServerSpec` of `ContextServer` has weak fairness for `Close` only: whoever ends the job calls `close()` in the same function
(`jobs.py:483-490`, `server.py:384`), and the lock inside is held for one assignment. When agy asks and when it ends is its own.
The runs of `Consult`, `Sessions`, `BridgeLifecycle` and `Install` check safety only and have no fairness.

## 4. Proofs

All hold for any finite or infinite sets of bridges, jobs, callers, calls, files and edits, and any bounds, under the `ASSUME` of the module alone
unless said otherwise.

* **`TypeCorrect`** (`JobRegistry_proofs`): `Spec => []TypeOK`, whatever `Faults` is. `TypeOK` alone is
  not inductive: that `BridgeOf(t)` is a bridge and not `NoBridge` needs `ThreadsInv` (which phases a watcher or a caller
  goes through), and that a starter's job is still in its bridge's memory. The proof carries
  `Typed` with the part on starters.
* **`RegistrySafe`** (`JobRegistrySafety_proofs`): `Spec => []Inv`, whatever `Faults` is. `Inv` says: each
  lock has one holder (`LocksInv`, which counts a flock that is held while its holder waits for `_lock`); a public job had a process (`PublicInv`); a job that is not public is known to its
  starter, and to who cancels it meanwhile, only (`MemoryInv`, `StarterInv`); what a thread inside the locks of a job holds is what its phase calls for
  (`PhaseInv`); the end of a job is reported by one thread and after it was public (`ReportInv`); the job of a start that is being undone has no process
  once that is killed, and only a cancel of its own bridge may end it meanwhile, once (`AbortInv`). Job by job (`JobsInv`), as long as
  the job is watched and has not ended on disk: the next attempt is a fresh one (`FreshOK`); one process at most runs, the one in
  the record, and a watcher that would retry has seen it die (`LiveOK`); its starter or its watcher works for it and no thread of
  its bridge has ended it (`WatchOK`). The clauses speak of jobs that are watched and open because a file error breaks
  everything else: memory may say ended while the disk says running, and `_force_fail` writes behind the back of whoever
  holds the file lock.
* **`ReportedOnce`**, **`OneLive`**, **`WatchedServed`**: consequences of `Inv`, for any faults, those in the middle of a start included. One process at most is `LiveOK` for a
  job that is watched; for the others it holds because only a watcher of a watched job spawns.
* **`RegistryImplementsLifecycle`**: if `"io" \notin Faults` the registry
  implements `JobLifecycle`, mapping `state` to the records on disk, `spawned` to the attempts that have a process,
  `reported` to the jobs with a finish entry. `Publish` is `Conclude` because nobody ended the job meanwhile (`Undisturbed`, an invariant
  under this assumption), `FinalizeRetries` is `Spawn` because of `FreshOK`, `Notify` is `Report` because of `ReportInv`.
  The assumption is needed: after a failed write `_force_fail` replaces the cancelled record of a neighbour (`jobs.py:378`).
* **`EndsAreFinal`**: what follows from it for the state directory, by an invariant of `JobLifecycle` (an announced job has had a process): nothing
  reopens a job that has ended, changes its outcome or starts a process for it, and only such an end is reported.
* **`LifecycleSafe`** (`BridgeLifecycle_proofs`): `LifeSpec => []LifeInv`, for any nesting of cleanups, any number of stops, threads and
  neighbours, and any faults and crashes. A step of `LifeSpec` is for the registry a step of `Next`, the end of the bridge or nothing, so `Inv` holds. On top of it: a server is open
  only for a watched job or is about to be closed (`WatchInv`); a job without a file error of its own is watched by its bridge until a thread of it is about to end
  it (`HeldInv`); unless a retry could not be recorded, the process of a job is the one in its record (`RecordedInv`), and a cancel in the job's bridge has noted it (`CancelInv`); a job that a cleanup has found is open only
  while its server is (`AskedInv`) and the running cleanup has it before it or in hand (`TodoInv`). `Orderly` says what every registry step may do
  to a job's watch, server and end; each invariant follows from it, with one step per action for the cleanups. `TodoInv` speaks of the upper
  cleanup alone: a lower one is resumed only if the upper returns, and a cleanup that was entered by a signal never does, it kills the process.
* **`ServersAreClosed`**, **`ServedJobsEnded`**, **`OwnCancelStops`** follow from `LifeInv`. The first has the two exceptions that the code makes (a server that a thread
  has taken out and is about to close), the last the one of a retry that is in no record.
* **`StoppingKeepsRegistry`**, **`StoppingImplementsLifecycle`**: what the registry promises by itself it promises while a bridge is stopped, interrupted and
  started again: `FinishedOnce`, `OneLiveProcess` and `WatchedIsServed` whatever fails, `JobLifecycle` if `"io" \notin Faults`. The end of a bridge
  changes nothing that a reader of the directory sees.
* **`ConsultTypes`**: `Spec => []TypeOK` for `Consult`, whatever `Faults` is.
* **`RecordsSafe`**, **`ClaimsGoBack`**, **`ConsultImplementsClaims`**: whatever `Faults` is and however many bridges prune and die. `ClaimsInv` is made of four parts: under an id that is not
  `disturbed`, a call that holds it owns its file, of the kind its phase calls for (`HolderInv`), and a job that runs or has ended owns its output files (`OutputInv`); every empty file belongs to a call that has not
  given it back (`OwnerInv`); a record that a pruner has found old is of a job that has expired (`DoomedInv`). Only the three removals by name (`ReleaseUnlink`, `StartUndone`, and those of `prune`)
  can take a file that is not the remover's, and they note it.
* **`LedgerIsExact`**: whatever `Faults` is and however many calls, bridges and days there are, the starts of a day less its failed starts are the calls charged
  to it. `ExactInv` counts positions of the ledger: each line that is added changes the count of one day and one event, and with it
  goes the change of one call's charge, from no day to this one or back; a call that has not reached its charge or has given it back has none (`UnchargedInv`).
* **`BudgetIsKept`**: no day starts more than its budget and its failed starts, as long as the ledger is in the order of its dates. `BudgetInv` adds to the types
  that no line and no charge is of a later day than today, and `CheckedOK`: whoever has passed the check and not yet recorded is alone in
  the ledger, and today's starts are still below the budget and today's failures, after a midnight in between because the new day has no entry. The condition on the
  order is the one `consult_midnight` shows to be needed.
* **`SessionTypes`**, **`FileStaysWhole`**, **`SessionsImplementMap`**: whatever `Faults` is. `SaveInv` says that one call at a time is
  between load and save, that what it will write is one use or one close away from the file, and that the
  temporary file, once filled, is its own. `Replace` is then `Use` or `Close` of the map, `Outage` is `Lose`.
* **`ContextTypes`**, **`SettledPromptFits`**, **`DeliveredInOrder`** (`ContextServer_proofs`): for any documents, limits, requests and edits. `Ordered` says
  that inlined and served items are together a prefix of the rendered ones. `Budgeted` says that what is inlined is within the budget of its round, which has the
  reserve taken off, and that a settled list is within the reserve; the two sum up to the limit, and the headroom pays for the separators. A settled call can still be refused when the rest of
  its prompt and the list of URLs leave no room for any file: then nothing is inlined, and `PromptFits` says just this.
* **`ServedWhole`**, **`PartsAreBounded`**: the parts of a served file are all its lines without a gap or an overlap, each one line or within the chunk limit, and no
  two files share a name. `Delivery` says this of what is served so far. A part is numbered by the rank of its last line among the cuts of its block, so
  part p + 1 begins where part p ends (`Ranks`); names are new because some number up to one more than those in use is free (`_unique_name` ends), which a count shows.
* **`ServerPrepares`**: a behaviour of `ContextServer` is one of `PrepareContext`, so that all of the above holds while the files are served.
* **`UrlsAreServed`**, **`AnswersAreRight`**, **`ClosedGivesNothing`**: for any number of handlers and closing threads. `UrlsAreServed` is about the steps of a request: with a name that the
  prompt lists it passes the check for a closed server and finds the part of that name, as long as nobody closes. In `ServerInv`, `Quiet` says that nobody asks
  or closes before agy runs, `SnapshotOK` that an open server has all files of the prompt and never another, `CloseOK` that one thread clears the files before any
  `close()` is through, `AnswerOK` what a request has been given at each of its steps.
* **`InitRegisters`** (`Install_proofs`): for any edits and kills. `SetUp` says what each step of `init` has set up so far, which no edit of the
  user takes away; a kill goes back to a phase that promises nothing.
* **`InstallTypes`**, **`OneSectionOnly`**, **`DeinitUnregisters`**, **`OutsideIsKept`**: from `FilesInv`, which says besides the types that the template is written into a
  directory that exists (`Made`), that `CLAUDE.md` holds our section once (`OnceInv`), and what each step of `deinit` has taken out (`Undoing`). `CLAUDE.md` without our section
  is a selection of its blocks; the user's sections keep their order because selecting them from a selection is selecting them from the whole text (`SelectTwice`), and a chapter that is
  not right behind our section is in no cut because it stands before our section or a section of the second level stands between.
  `InstallAssumption` says that no text equals the value for "no file", which is a constant of the model and not of the program.

The inductive invariants were model-checked before they were proved: `Inv` and `LifeInv` are in the runs, `Budgeted`, `Delivery` and `ServerInv` hold in the
564 k states of the instance of `context`, `FilesInv` in the 120 k states of `install`, `ClaimsInv` in those of `consult`.

**Only model-checked:** the liveness properties `WatchedJobEnds`, `CallsReturn`, `OrphanEnds` and `ServerEnds`, because liveness under fairness and `ENABLED` are outside
the prover, and the findings, which are counterexamples. Every other property of a run has a theorem. What the theorems assume beyond the `ASSUME`s of the
modules is said above: `"io" \notin Faults` for the refinement of `JobLifecycle`, and nothing else.

## 5. Not modelled

* **Configuration, prompts and playbooks, the verdict schema**: functions of their input that run in one thread and keep no state.
* **`parse_agy_output`**: the registry sees its verdict (`stdout[j]`: a result, an error worth a retry, another error). How JSON, plain text and
  empty output lead to it is a decision over strings without state.
* **`doctor`, `update`, `budget`, `agy_usage`, `list_jobs`, `list_sessions`**: they read, or run another program.
* **`purge`**: one look and one removal without a lock, described above.
* **`inline_files`**: nothing calls it.

Assumptions that the models make and the code does not enforce: a ledger line is whole or not there (a line cut short by
a full disk has no newline, and the next entry is glued to it, `budget.py:51`); a process that holds a `flock` goes on or dies (one that is stopped inside the ledger stops every
retry and, through the job's lock and the registry's, every operation of the bridge that waits for it, `jobs.py:457`); the user does not edit a file between a read and
the write that follows it.

What could be added: the reuse of pruned ids together with the registry's own recovery, in one module.
