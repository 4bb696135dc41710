------------------------------ MODULE Consult -------------------------------
(***************************************************************************)
(* A consultation from its budget check to its agy process                 *)
(* (_start_and_wait in src/src/agy_bridge/server.py): it claims a job id,  *)
(* charges the ledger, starts the job and, when one of these fails, takes  *)
(* back what it did.  Calls of several bridges share the jobs directory    *)
(* and the ledger.  What the job does after its start is JobRegistry's;    *)
(* here it may be retried once, which the ledger is told, and it ends.     *)
(* A bridge that starts removes the files of jobs that are past their      *)
(* retention, so that ids come into use again (prune in                    *)
(* src/src/agy_bridge/jobs.py).                                            *)
(***************************************************************************)
EXTENDS Ledger

CONSTANTS
    Calls,          \* consultations
    Bridges,        \* bridge processes
    Home,           \* [Calls -> Bridges]
    Limit,          \* daily_call_budget
    MaxId,          \* bound: job ids (as many as calls are enough: none is skipped)
    MaxDay,         \* bound: days in a behaviour
    MaxCrashes,     \* bound: bridge crashes
    Faults,         \* what may fail: "prompt" (before the spawn), "spawn", "exit" (agy),
                    \* "io" (writing the ledger)
    NoCall

ASSUME ConsultAssumption ==
    /\ Home \in [Calls -> Bridges]
    /\ MaxId \in Nat \ {0}
    /\ Limit \in Nat \ {0}
    /\ MaxDay \in Nat \ {0}
    /\ MaxCrashes \in Nat
    /\ Faults \subseteq {"prompt", "spawn", "exit", "io"}
    /\ NoCall \notin Calls

VARIABLES
    files,      \* [Ids -> Files]: j-N.json in the jobs directory
    sides,      \* [Ids -> [Sides -> Calls \cup {NoCall}]]: j-N.stdout and so on, by whom
    ledger,     \* Seq of entries: ledger.jsonl
    today,      \* 1..MaxDay: the local date
    calls,      \* [Calls -> CallStates]
    crashes,    \* Nat
    prune,      \* [Bridges -> Prunings]: where the constructor of its registry is
    disturbed   \* SUBSET Ids, history: a removal took a file of somebody else there

vars == <<files, sides, ledger, today, calls, crashes, prune, disturbed>>

Ids == 1..MaxId
Days == 1..MaxDay
Entries == [event : Events, date : Days, job : Ids]

\* `by' is who wrote the file: the claim or the record in it.
Files == [kind : {"none", "empty", "record"}, by : Calls \cup {NoCall}]
NoFile == [kind |-> "none", by |-> NoCall]

\* The files of a job beside its record: what agy writes to, and the flock's.
Sides == {"stdout", "stderr", "lock"}
NoSides == [p \in Sides |-> NoCall]

Phases == {"idle", "begun", "scanned", "claimed", "checked", "charged", "spawned",
           "failing", "failed", "uncorrected", "refused", "releasing", "raised",
           "running", "final", "ended", "expired", "dead"}
CallStates ==
    [pc : Phases,
     id : 0..MaxId,                 \* the candidate, then the job id
     date : 0..MaxDay,              \* start_date: the day charged, 0 if none is
     held : 0..MaxId]               \* the id whose file is its own, 0 once given back

\* The order in which prune removes the files of a job.
Removals == <<"record", "stdout", "stderr", "lock">>

\* The number it looks at, the job whose record it has found old there, and which of
\* the removals comes next.
Prunings == [at : 1..(MaxId + 1), doomed : Calls \cup {NoCall}, next : 1..Len(Removals)]
Pruning(at, doomed, next) == [at |-> at, doomed |-> doomed, next |-> next]
Starting == Pruning(1, NoCall, 1)

Call(pc, id, date, held) == [pc |-> pc, id |-> id, date |-> date, held |-> held]

\* What call c becomes; Go keeps everything but the phase.
Becomes(c, pc, id, date, held) == calls' = [calls EXCEPT ![c] = Call(pc, id, date, held)]
Go(c, pc) == Becomes(c, pc, calls[c].id, calls[c].date, calls[c].held)

\* The registry's _lock and the ledger's lock.
MutexFree(b) == \A c \in Calls :
    Home[c] = b => calls[c].pc \notin {"scanned", "spawned", "releasing"}

\* Mutant: no lock.
LedgerFreeAlways == TRUE

LedgerFree == \A c \in Calls : calls[c].pc # "checked"

\* Call c removes the record file of its id, whoever's it is by now.
Unlink(c) ==
    LET i == calls[c].id IN
    /\ files' = [files EXCEPT ![i] = NoFile]
    /\ disturbed' = disturbed \cup (IF files[i].by \in {c, NoCall} THEN {} ELSE {i})

----------------------------------------------------------------------------
Init ==
    /\ files = [i \in Ids |-> NoFile]
    /\ sides = [i \in Ids |-> NoSides]
    /\ ledger = <<>>
    /\ today = 1
    /\ calls = [c \in Calls |-> Call("idle", 0, 0, 0)]
    /\ crashes = 0
    /\ prune = [b \in Bridges |-> Starting]
    /\ disturbed = {}

\* The cheap check of check_budget, without the lock, in a bridge that is up.
Begin(c) ==
    /\ calls[c].pc = "idle" /\ prune[Home[c]].at > MaxId
    /\ Go(c, IF CallsToday(ledger, today) < Limit THEN "begun" ELSE "raised")
    /\ UNCHANGED <<files, sides, ledger, today, crashes, prune, disturbed>>

\* The id to try first: one more than the highest number in the directory.
Candidate ==
    LET used == {i \in Ids : files[i].kind # "none"}
    IN  CHOOSE n \in 1..MaxId + 1 : (\A i \in used : i < n) /\ (n = 1 \/ n - 1 \in used)

\* Mutant: the highest number itself.
ScanHighest(c) ==
    /\ calls[c].pc = "begun" /\ MutexFree(Home[c])
    /\ Becomes(c, "scanned", Candidate - 1, 0, 0)
    /\ UNCHANGED <<files, sides, ledger, today, crashes, prune, disturbed>>

Scan(c) ==
    /\ calls[c].pc = "begun" /\ MutexFree(Home[c]) /\ Candidate \in Ids
    /\ Becomes(c, "scanned", Candidate, 0, 0)
    /\ UNCHANGED <<files, sides, ledger, today, crashes, prune, disturbed>>

\* Mutant: an existing file is opened.
TryCreateShared(c) ==
    LET i == calls[c].id IN
    /\ calls[c].pc = "scanned"
    /\ files' = [files EXCEPT ![i] = [kind |-> "empty", by |-> c]]
    /\ Becomes(c, "claimed", i, 0, i)
    /\ UNCHANGED <<sides, ledger, today, crashes, prune, disturbed>>

\* O_CREAT | O_EXCL: the file is created, or the next number is tried.
TryCreate(c) ==
    LET i == calls[c].id IN
    /\ calls[c].pc = "scanned"
    /\ \/ /\ files[i].kind = "none"
          /\ files' = [files EXCEPT ![i] = [kind |-> "empty", by |-> c]]
          /\ Becomes(c, "claimed", i, 0, i)
       \/ /\ files[i].kind # "none" /\ i < MaxId
          /\ Becomes(c, "scanned", i + 1, 0, 0)
          /\ files' = files
    /\ UNCHANGED <<sides, ledger, today, crashes, prune, disturbed>>

\* Mutant: a refused call keeps its claim.
CheckBudgetKeeping(c) ==
    /\ calls[c].pc = "claimed" /\ LedgerFree
    /\ Go(c, IF CallsToday(ledger, today) < Limit THEN "checked" ELSE "raised")
    /\ UNCHANGED <<files, sides, ledger, today, crashes, prune, disturbed>>

\* check_and_record_start, in two steps: midnight may fall between them.
CheckBudget(c) ==
    /\ calls[c].pc = "claimed" /\ LedgerFree
    /\ Go(c, IF CallsToday(ledger, today) < Limit THEN "checked" ELSE "refused")
    /\ UNCHANGED <<files, sides, ledger, today, crashes, prune, disturbed>>

RecordStart(c) ==
    /\ calls[c].pc = "checked"
    /\ ledger' = Append(ledger, Entry("start", today, calls[c].id))
    /\ Becomes(c, "charged", calls[c].id, today, calls[c].held)
    /\ UNCHANGED <<files, sides, today, crashes, prune, disturbed>>

\* The ledger cannot be written: the claim is given back.
RecordFails(c) ==
    /\ "io" \in Faults
    /\ calls[c].pc = "checked"
    /\ Go(c, "refused")
    /\ UNCHANGED <<files, sides, ledger, today, crashes, prune, disturbed>>

----------------------------------------------------------------------------
\* The files that a spawn or its failed attempt has opened: both or, after an error
\* before, the first or none.
Opened(c, made) ==
    sides' = [sides EXCEPT ![calls[c].id] = [p \in Sides |-> IF p \in made THEN c ELSE @[p]]]

\* The record of c's job is put in the place of what has its name.
Persist(c) == files' = [files EXCEPT ![calls[c].id] = [kind |-> "record", by |-> c]]

\* registry.start takes the mutex, opens the output files and spawns agy ...
Spawn(c) ==
    /\ calls[c].pc = "charged" /\ MutexFree(Home[c])
    /\ Opened(c, {"stdout", "stderr"})
    /\ Go(c, "spawned")
    /\ UNCHANGED <<files, ledger, today, crashes, prune, disturbed>>

\* ... and writes the record into the claimed file.
Start(c) ==
    /\ calls[c].pc = "spawned"
    /\ Persist(c)
    /\ Go(c, "running")
    /\ UNCHANGED <<sides, ledger, today, crashes, prune, disturbed>>

\* The prompt is too long or the command cannot be built: nothing was touched.
PromptRefused(c) ==
    /\ "prompt" \in Faults
    /\ calls[c].pc = "charged"
    /\ Go(c, "failed")
    /\ UNCHANGED <<files, sides, ledger, today, crashes, prune, disturbed>>

\* The spawn raises, or the record cannot be written; the mutex is let go ...
StartFails(c) ==
    /\ "spawn" \in Faults
    /\ \/ /\ calls[c].pc = "charged" /\ MutexFree(Home[c])
          /\ \E made \in {{}, {"stdout"}, {"stdout", "stderr"}} : Opened(c, made)
       \/ calls[c].pc = "spawned" /\ sides' = sides
    /\ Go(c, "failing")
    /\ UNCHANGED <<files, ledger, today, crashes, prune, disturbed>>

\* ... and after the kill start removes the record file itself.
StartUndone(c) ==
    /\ calls[c].pc = "failing" /\ MutexFree(Home[c])
    /\ Unlink(c)
    /\ Becomes(c, "failed", calls[c].id, calls[c].date, 0)
    /\ UNCHANGED <<sides, ledger, today, crashes, prune>>

\* Mutant: the correction goes to the day of the failure.
CorrectToday(c) ==
    /\ calls[c].pc = "failed" /\ LedgerFree
    /\ ledger' = Append(ledger, Entry("spawn_failed", today, calls[c].id))
    /\ Becomes(c, "refused", calls[c].id, 0, calls[c].held)
    /\ UNCHANGED <<files, sides, today, crashes, prune, disturbed>>

\* record_spawn_failed, with the date of the start it cancels out.
Correct(c) ==
    /\ calls[c].pc = "failed" /\ LedgerFree
    /\ ledger' = Append(ledger, Entry("spawn_failed", calls[c].date, calls[c].id))
    /\ Becomes(c, "refused", calls[c].id, 0, calls[c].held)
    /\ UNCHANGED <<files, sides, today, crashes, prune, disturbed>>

\* The correction cannot be written: the exception leaves the claim behind as well.
CorrectFails(c) ==
    /\ "io" \in Faults
    /\ calls[c].pc = "failed" /\ LedgerFree
    /\ Go(c, "uncorrected")
    /\ UNCHANGED <<files, sides, ledger, today, crashes, prune, disturbed>>

\* release_claim looks at the file's size ...
ReleaseStat(c) ==
    /\ calls[c].pc = "refused" /\ MutexFree(Home[c])
    /\ \/ files[calls[c].id].kind = "empty" /\ Go(c, "releasing")
       \/ files[calls[c].id].kind # "empty" /\ Becomes(c, "raised", calls[c].id, calls[c].date, 0)
    /\ UNCHANGED <<files, sides, ledger, today, crashes, prune, disturbed>>

\* ... and then removes the file of that name, whoever's it is by now.
ReleaseUnlink(c) ==
    /\ calls[c].pc = "releasing"
    /\ Unlink(c)
    /\ Becomes(c, "raised", calls[c].id, calls[c].date, 0)
    /\ UNCHANGED <<sides, ledger, today, crashes, prune>>

----------------------------------------------------------------------------
\* The job, whose turns are decided under its lock file and written into its record,
\* whatever is there by then: a retry is entered in the ledger before its spawn;
\* nothing is checked.
Retry(c) ==
    /\ "exit" \in Faults
    /\ calls[c].pc = "running" /\ LedgerFree
    /\ ledger' = Append(ledger, Entry("retry", today, calls[c].id))
    /\ Opened(c, Sides) /\ Persist(c)
    /\ Go(c, "final")
    /\ UNCHANGED <<today, crashes, prune, disturbed>>

End(c) ==
    /\ calls[c].pc \in {"running", "final"} /\ LedgerFree
    /\ ledger' = Append(ledger, Entry("finish", today, calls[c].id))
    /\ Opened(c, {"lock"}) /\ Persist(c)
    /\ Go(c, "ended")
    /\ UNCHANGED <<today, crashes, prune, disturbed>>

\* The next day on which something happens.  The days left out may be as many as
\* RETENTION_DAYS, which matters where somebody looks at the age of records.
Midnight(long) ==
    /\ today < MaxDay
    /\ today' = today + 1
    /\ calls' = [c \in Calls |-> IF long /\ calls[c].pc = "ended"
                                THEN [calls[c] EXCEPT !.pc = "expired"] ELSE calls[c]]
    /\ UNCHANGED <<files, sides, ledger, crashes, prune, disturbed>>

\* Mutant: the state of the record is not looked at.
OldAnyState(i) == files[i].kind = "record"

\* A terminal record whose end is before the cutoff; an empty file is none.
Old(i) == files[i].kind = "record" /\ calls[files[i].by].pc = "expired"

\* prune reads a record of its list without any lock ...
PruneLook(b) ==
    LET i == prune[b].at IN
    /\ i <= MaxId /\ prune[b].doomed = NoCall
    /\ prune' = [prune EXCEPT ![b] =
                    IF Old(i) THEN Pruning(i, files[i].by, 1) ELSE Pruning(i + 1, NoCall, 1)]
    /\ UNCHANGED <<files, sides, ledger, today, calls, crashes, disturbed>>

\* The next file of the list, and the next number after the last.
Pruned(b) ==
    LET r == prune[b] IN
    prune' = [prune EXCEPT ![b] = IF r.next < Len(Removals)
                                  THEN Pruning(r.at, r.doomed, r.next + 1)
                                  ELSE Pruning(r.at + 1, NoCall, 1)]

\* ... and then removes the four files of that name one after another, whoever's they
\* are by then: the record, whose number is free from here on ...
PruneRecord(b) ==
    LET i == prune[b].at
        c == prune[b].doomed
    IN
    /\ c # NoCall /\ prune[b].next = 1
    /\ files' = [files EXCEPT ![i] = NoFile]
    /\ disturbed' = disturbed \cup (IF files[i].by \in {c, NoCall} THEN {} ELSE {i})
    /\ Becomes(c, calls[c].pc, calls[c].id, calls[c].date, 0)
    /\ Pruned(b)
    /\ UNCHANGED <<sides, ledger, today, crashes>>

\* ... and the others.
PruneSide(b) ==
    LET i == prune[b].at
        p == Removals[prune[b].next]
    IN
    /\ prune[b].doomed # NoCall /\ prune[b].next > 1
    /\ sides' = [sides EXCEPT ![i][p] = NoCall]
    /\ disturbed' = disturbed \cup
          (IF sides[i][p] \in {prune[b].doomed, NoCall} THEN {} ELSE {i})
    /\ Pruned(b)
    /\ UNCHANGED <<files, ledger, today, calls, crashes>>

\* A bridge dies, its calls with it, and is started again; a job that runs is ended by
\* another bridge, without a retry.
Crash(b) ==
    /\ crashes < MaxCrashes
    /\ crashes' = crashes + 1
    /\ calls' = [c \in Calls |->
          CASE Home[c] # b \/ calls[c].pc \in {"idle", "raised", "uncorrected", "final",
                                                  "ended", "expired"} -> calls[c]
            [] Home[c] = b /\ calls[c].pc = "running" -> [calls[c] EXCEPT !.pc = "final"]
            [] OTHER -> [calls[c] EXCEPT !.pc = "dead"]]
    /\ prune' = [prune EXCEPT ![b] = Starting]
    /\ UNCHANGED <<files, sides, ledger, today, disturbed>>

----------------------------------------------------------------------------
Next ==
    \/ \E c \in Calls :
          \/ Begin(c) \/ Scan(c) \/ TryCreate(c) \/ CheckBudget(c) \/ RecordStart(c)
          \/ RecordFails(c) \/ Spawn(c) \/ Start(c) \/ PromptRefused(c)
          \/ StartFails(c) \/ StartUndone(c) \/ Correct(c) \/ CorrectFails(c)
          \/ ReleaseStat(c) \/ ReleaseUnlink(c) \/ Retry(c) \/ End(c)
    \/ \E long \in BOOLEAN : Midnight(long)
    \/ \E b \in Bridges : PruneLook(b) \/ PruneRecord(b) \/ PruneSide(b) \/ Crash(b)

Spec == Init /\ [][Next]_vars

----------------------------------------------------------------------------
\* The state the program can be in: an id is one of Ids from the scan on, and a
\* day is charged before the start.
TypeOK ==
    /\ files \in [Ids -> Files]
    /\ sides \in [Ids -> [Sides -> Calls \cup {NoCall}]]
    /\ ledger \in Seq(Entries)
    /\ today \in Days
    /\ calls \in [Calls -> CallStates]
    /\ crashes \in 0..MaxCrashes
    /\ prune \in [Bridges -> Prunings]
    /\ disturbed \subseteq Ids
    /\ \A b \in Bridges : prune[b].doomed # NoCall => prune[b].at \in Ids
    /\ \A c \in Calls :
          /\ calls[c].pc \notin {"idle", "begun", "raised", "dead"} => calls[c].id \in Ids
          /\ calls[c].pc \in {"charged", "spawned", "failing", "failed", "running", "final",
                                "ended", "expired"} => calls[c].date \in Days

\* The calls that the ledger charges to day d.
Charged(d) == {c \in Calls : calls[c].date = d}

\* No day starts more consultations than the budget, however calls of several
\* bridges, failures and midnight interleave, as long as the ledger is in the
\* order of its dates (budget.py:172: "초과 스폰이 원천 차단된다").
StartsWithinBudget == Chronological(ledger) => \A d \in Days :
    Number(ledger, EntriesOf(ledger, d), {"start"})
        <= Limit + Number(ledger, EntriesOf(ledger, d), {"spawn_failed"})

\* The starts of a day less its failed ones are the calls charged to it: a failure
\* is taken from the day of its start, also after midnight (budget.py:117-119), and
\* what is left over are starts whose call still works or died with its bridge.
LedgerExact == \A d \in Days :
    Number(ledger, EntriesOf(ledger, d), {"start"})
        = Cardinality(Charged(d)) + Number(ledger, EntriesOf(ledger, d), {"spawn_failed"})

\* Retries too: a day counts no more processes than the budget (jobs.py:452-455
\* "훅이 예산을 확인하고", README: "오늘 시작한 호출이 daily_call_budget 도달").
BudgetKept == \A d \in Days : Net(ledger, EntriesOf(ledger, d)) <= Limit

\* A started job keeps its record file until it is past its retention: nobody else's
\* release, claim or record takes its place, and a bridge that starts does not remove
\* it (jobs.py:232-233: "실제 레코드는 건드리지 않는다", jobs.py:203-204: "절대 건드리지
\* 않는다").
Kept(c) == files[calls[c].id] = [kind |-> "record", by |-> c]
RecordKept == \A c \in Calls : calls[c].pc \in {"running", "final", "ended"} => Kept(c)

\* What is left of it in the code: a started job keeps its record and both its output
\* files until it is past its retention, unless under its id a release, a failed start
\* or a prune has removed a file by its name after it became somebody else's.  The
\* scan, the exclusive creation, the record and the order in which prune removes
\* files (the record first, which frees the number) take none.
FilesStay == \A c \in Calls :
    calls[c].pc \in {"running", "final", "ended"} /\ calls[c].id \notin disturbed =>
        Kept(c) /\ \A p \in {"stdout", "stderr"} : sides[calls[c].id][p] = c

\* An empty record file belongs to a call that still works on it, whose bridge died
\* or whose correction could not be written: a call that is refused or failed, by an
\* error of the ledger too, leaves none (server.py:357-358), whatever takes files away.
ClaimsReturned == \A i \in Ids : files[i].kind = "empty" =>
    /\ calls[files[i].by].id = i
    /\ calls[files[i].by].pc \notin {"raised", "running", "final", "ended", "expired"}

\* Job ids are held as Claims says, each until a file is taken there from somebody
\* else: the detail is the scan, the exclusive creation, the release that looks before
\* it removes, and the bridges that prune.
IdClaims == INSTANCE Claims WITH
    holders <- [i \in Ids |-> {c \in Calls : calls[c].held = i /\ i \notin disturbed}]
ImplementsClaims == IdClaims!Spec
=============================================================================
