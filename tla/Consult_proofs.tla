--------------------------- MODULE Consult_proofs ---------------------------
(***************************************************************************)
(* For any number of calls, bridges, crashes and days, and whatever fails: *)
(* job ids are held as Claims says and a started job keeps its files,      *)
(* until under its id a removal takes a file of somebody else; what is     *)
(* refused or failed gives its claim back; the ledger is exact and its     *)
(* budget kept.                                                            *)
(***************************************************************************)
EXTENDS Consult, TLAPS, FiniteSetTheorems, SequenceTheorems

\* The phases before the claim and after the end of it, those of a job, and those in
\* which the record file of a call can be empty.
Early == {"idle", "begun", "scanned"}
Without == Early \cup {"raised"}
Started == {"running", "final", "ended"}
Recorded == Started \cup {"expired"}
Working == {"claimed", "checked", "charged", "spawned", "failing", "failed", "uncorrected",
            "refused", "releasing", "dead"}
\* The phases in which a call cannot be without its claim.
Holding == {"claimed", "checked", "charged", "spawned", "failing"} \cup Started

\* A call that holds an id works under it and owns its file, which is the one its
\* phase calls for, unless the id is disturbed.
HolderOK(c) ==
    /\ calls[c].held # 0 =>
          /\ calls[c].held = calls[c].id
          /\ calls[c].pc \notin Without
          /\ calls[c].held \notin disturbed =>
                /\ files[calls[c].held].by = c
                /\ files[calls[c].held].kind = IF calls[c].pc \in Recorded THEN "record"
                                               ELSE "empty"
    /\ calls[c].held = 0 => calls[c].pc \notin Holding
HolderInv == \A c \in Calls : HolderOK(c)

\* A file is of the call that works, or worked, under its number, in a phase in which
\* it is not yet, or already, its record.
OwnerOK(i) ==
    /\ files[i].kind = "none" => files[i].by = NoCall
    /\ files[i].kind # "none" =>
          /\ files[i].by \in Calls
          /\ calls[files[i].by].id = i
          /\ files[i].kind = "empty" => calls[files[i].by].pc \in Working
          /\ files[i].kind = "record" => calls[files[i].by].pc \in Recorded
OwnerInv == \A i \in Ids : OwnerOK(i)

\* A job whose files a bridge is about to remove has been past its retention.
DoomedOK(b) == prune[b].doomed # NoCall =>
    /\ calls[prune[b].doomed].pc = "expired"
    /\ calls[prune[b].doomed].id = prune[b].at
DoomedInv == \A b \in Bridges : DoomedOK(b)

\* The output files of a job are its own, unless the id is disturbed.
OutputOK(c) ==
    calls[c].pc \in {"spawned"} \cup Started /\ calls[c].id \notin disturbed =>
        \A p \in {"stdout", "stderr"} : sides[calls[c].id][p] = c
OutputInv == \A c \in Calls : OutputOK(c)

ClaimsInv == TypeOK /\ HolderInv /\ OwnerInv /\ DoomedInv /\ OutputInv

\* What holds of the calls alone.
CallOK(c) ==
    /\ calls[c].pc \notin {"idle", "begun", "raised", "dead"} => calls[c].id \in Ids
    /\ calls[c].pc \in {"charged", "spawned", "failing", "failed", "running", "final",
                         "ended", "expired"} => calls[c].date \in Days

----------------------------------------------------------------------------
\* A step of call c changes c's state and nobody else's.
LEMMA BecomesOne ==
    ASSUME TypeOK, NEW c \in Calls,
           NEW pc \in Phases, NEW id \in 0..MaxId, NEW date \in 0..MaxDay,
           NEW held \in 0..MaxId,
           Becomes(c, pc, id, date, held)
    PROVE  /\ calls' \in [Calls -> CallStates]
           /\ calls'[c].pc = pc /\ calls'[c].id = id
           /\ calls'[c].date = date /\ calls'[c].held = held
           /\ \A d \in Calls : d # c => calls'[d] = calls[d]
<1> DEFINE rec == Call(pc, id, date, held)
<1>1. rec \in CallStates
  BY DEF Call, CallStates
<1>2. calls \in [Calls -> CallStates]
  BY DEF TypeOK
<1>3. calls' = [calls EXCEPT ![c] = rec]
  BY DEF Becomes
<1>4. rec.pc = pc /\ rec.id = id /\ rec.date = date /\ rec.held = held
  BY DEF Call
<1> HIDE DEF rec
<1> QED BY <1>1, <1>2, <1>3, <1>4

\* A call that only goes on keeps the rest of its state.
LEMMA GoOne ==
    ASSUME TypeOK, NEW c \in Calls, NEW pc \in Phases, Go(c, pc)
    PROVE  /\ calls' \in [Calls -> CallStates]
           /\ calls'[c].pc = pc /\ calls'[c].id = calls[c].id
           /\ calls'[c].date = calls[c].date /\ calls'[c].held = calls[c].held
           /\ \A d \in Calls : d # c => calls'[d] = calls[d]
<1>1. calls[c] \in CallStates
  BY DEF TypeOK
<1>2. /\ calls[c].id \in 0..MaxId /\ calls[c].date \in 0..MaxDay
      /\ calls[c].held \in 0..MaxId
  BY <1>1 DEF CallStates
<1>3. Becomes(c, pc, calls[c].id, calls[c].date, calls[c].held)
  BY DEF Go
<1> QED BY <1>2, <1>3, BecomesOne

LEMMA AppendEntry ==
    ASSUME TypeOK, NEW event \in Events, NEW date \in Days, NEW job \in Ids,
           ledger' = Append(ledger, Entry(event, date, job))
    PROVE  ledger' \in Seq(Entries)
<1>1. Entry(event, date, job) \in Entries
  BY DEF Entry, Entries
<1>2. ledger \in Seq(Entries)
  BY DEF TypeOK
<1> QED BY <1>1, <1>2

SidesTyped(new) == new \in [Ids -> [Sides -> Calls \cup {NoCall}]]

\* The types are kept by a step that is well typed where it changes something.
LEMMA TypeStep ==
    ASSUME TypeOK, NEW c \in Calls,
           calls' \in [Calls -> CallStates],
           \A d \in Calls : d # c => calls'[d] = calls[d],
           CallOK(c)',
           files' \in [Ids -> Files], SidesTyped(sides'), ledger' \in Seq(Entries),
           disturbed' \subseteq Ids,
           UNCHANGED <<today, crashes, prune>>
    PROVE  TypeOK'
<1>1. \A d \in Calls : d # c => CallOK(d)'
  BY DEF TypeOK, CallOK
<1>2. today' \in Days /\ crashes' \in 0..MaxCrashes /\ prune' \in [Bridges -> Prunings]
  BY DEF TypeOK
<1>3. \A b \in Bridges : prune'[b].doomed # NoCall => prune'[b].at \in Ids
  BY DEF TypeOK
<1> QED BY <1>1, <1>2, <1>3 DEF TypeOK, CallOK, SidesTyped

\* What a step writes into the jobs directory has its type.
LEMMA TypeFiles ==
    ASSUME TypeOK, NEW c \in Calls, calls[c].id \in Ids
    PROVE  /\ [files EXCEPT ![calls[c].id] = [kind |-> "empty", by |-> c]] \in [Ids -> Files]
           /\ Persist(c) => files' \in [Ids -> Files]
           /\ Unlink(c) => files' \in [Ids -> Files] /\ disturbed' \subseteq Ids
           /\ \A made \in SUBSET Sides : Opened(c, made) => SidesTyped(sides')
<1> DEFINE i == calls[c].id
<1>1. /\ NoFile \in Files /\ [kind |-> "empty", by |-> c] \in Files
      /\ [kind |-> "record", by |-> c] \in Files
  BY DEF NoFile, Files
<1>2. files \in [Ids -> Files] /\ disturbed \subseteq Ids
  BY DEF TypeOK
<1>3. Unlink(c) => files' \in [Ids -> Files] /\ disturbed' \subseteq Ids
  BY <1>1, <1>2 DEF Unlink
<1>4. ASSUME NEW made \in SUBSET Sides, Opened(c, made) PROVE SidesTyped(sides')
  <2> DEFINE new == [p \in Sides |-> IF p \in made THEN c ELSE sides[i][p]]
  <2>1. sides \in [Ids -> [Sides -> Calls \cup {NoCall}]]
    BY DEF TypeOK
  <2>2. sides' = [sides EXCEPT ![i] = new]
    BY <1>4, <2>1 DEF Opened
  <2>3. new \in [Sides -> Calls \cup {NoCall}]
    BY <2>1
  <2> HIDE DEF new
  <2> QED BY <2>1, <2>2, <2>3 DEF SidesTyped
<1> QED BY <1>1, <1>2, <1>3, <1>4 DEF Persist

LEMMA CallTypes ==
    ASSUME TypeOK, NEW c \in Calls
    PROVE  /\ calls[c].id \in 0..MaxId /\ calls[c].date \in 0..MaxDay
           /\ calls[c].held \in 0..MaxId /\ calls[c].pc \in Phases
           /\ CallOK(c)
           /\ Ids \subseteq 0..MaxId /\ 0 \in 0..MaxId
           /\ Days \subseteq 0..MaxDay /\ 0 \in 0..MaxDay
           /\ files \in [Ids -> Files] /\ ledger \in Seq(Entries) /\ today \in Days
           /\ SidesTyped(sides) /\ disturbed \subseteq Ids
<1>1. calls[c] \in CallStates
  BY DEF TypeOK
<1>2. /\ Ids \subseteq 0..MaxId /\ 0 \in 0..MaxId
      /\ Days \subseteq 0..MaxDay /\ 0 \in 0..MaxDay
  BY ConsultAssumption DEF Ids, Days
<1> QED BY <1>1, <1>2 DEF CallStates, CallOK, TypeOK, SidesTyped

----------------------------------------------------------------------------
LEMMA StartingType == Starting \in Prunings /\ Starting.doomed = NoCall
<1>1. Len(Removals) = 4
  BY DEF Removals
<1> QED BY <1>1, ConsultAssumption DEF Starting, Pruning, Prunings

LEMMA TypeInit == Init => TypeOK
<1> SUFFICES ASSUME Init PROVE TypeOK
  OBVIOUS
<1>1. NoFile \in Files
  BY DEF NoFile, Files
<1>2. Call("idle", 0, 0, 0) \in CallStates
  BY ConsultAssumption DEF Call, CallStates, Phases
<1>3. Call("idle", 0, 0, 0).pc = "idle"
  BY DEF Call
<1>4. 1 \in Days
  BY ConsultAssumption DEF Days
<1>5. crashes \in 0..MaxCrashes
  BY ConsultAssumption DEF Init
<1>6. prune \in [Bridges -> Prunings] /\ \A b \in Bridges : prune[b].doomed = NoCall
  BY StartingType DEF Init
<1>7. sides \in [Ids -> [Sides -> Calls \cup {NoCall}]] /\ disturbed \subseteq Ids
  BY DEF Init, NoSides
<1> QED BY <1>1, <1>2, <1>3, <1>4, <1>5, <1>6, <1>7 DEF Init, TypeOK

\* A step of one call.
CallStep(c) ==
    \/ Begin(c) \/ Scan(c) \/ TryCreate(c) \/ CheckBudget(c) \/ RecordStart(c)
    \/ RecordFails(c) \/ Spawn(c) \/ Start(c) \/ PromptRefused(c)
    \/ StartFails(c) \/ StartUndone(c) \/ Correct(c) \/ CorrectFails(c)
    \/ ReleaseStat(c) \/ ReleaseUnlink(c) \/ Retry(c) \/ End(c)

LEMMA TypeCall ==
    ASSUME TypeOK, NEW c \in Calls, CallStep(c)
    PROVE  TypeOK'
<1> USE CallTypes DEF CallOK
<1>1. CASE Begin(c)
  <2>1. \E pc \in {"begun", "raised"} : Go(c, pc)
    BY <1>1 DEF Begin
  <2>2. PICK pc \in {"begun", "raised"} : Go(c, pc)
    BY <2>1
  <2> QED BY <1>1, <2>2, GoOne, TypeStep DEF Begin, Phases
<1>2. CASE Scan(c)
  <2>1. Becomes(c, "scanned", Candidate, 0, 0) /\ Candidate \in Ids
    BY <1>2 DEF Scan
  <2> QED BY <1>2, <2>1, BecomesOne, TypeStep DEF Scan, Phases
<1>3. CASE TryCreate(c)
  <2> DEFINE i == calls[c].id
  <2>0. i \in Ids
    BY <1>3 DEF TryCreate
  <2>1. CASE Becomes(c, "claimed", i, 0, i)
             /\ files' = [files EXCEPT ![i] = [kind |-> "empty", by |-> c]]
    <3>1. /\ calls' \in [Calls -> CallStates]
          /\ calls'[c].pc = "claimed" /\ calls'[c].id = i
          /\ \A d \in Calls : d # c => calls'[d] = calls[d]
      BY <2>0, <2>1, BecomesOne DEF Phases
    <3>2. files' \in [Ids -> Files]
      BY <2>0, <2>1, TypeFiles
    <3> QED BY <1>3, <2>0, <3>1, <3>2, TypeStep DEF TryCreate
  <2>2. CASE Becomes(c, "scanned", i + 1, 0, 0) /\ i < MaxId /\ files' = files
    <3>1. i + 1 \in Ids
      BY <2>0, <2>2, ConsultAssumption DEF Ids
    <3> QED BY <1>3, <2>2, <3>1, BecomesOne, TypeStep DEF TryCreate, Phases
  <2> QED BY <1>3, <2>1, <2>2 DEF TryCreate
<1>4. CASE CheckBudget(c)
  <2>1. PICK pc \in {"checked", "refused"} : Go(c, pc)
    BY <1>4 DEF CheckBudget
  <2> QED BY <1>4, <2>1, GoOne, TypeStep DEF CheckBudget, Phases
<1>5. CASE RecordStart(c)
  <2>1. ledger' \in Seq(Entries)
    BY <1>5, AppendEntry DEF RecordStart, Events
  <2>2. /\ calls' \in [Calls -> CallStates]
        /\ calls'[c].pc = "charged" /\ calls'[c].id = calls[c].id /\ calls'[c].date = today
        /\ \A d \in Calls : d # c => calls'[d] = calls[d]
    BY <1>5, BecomesOne DEF RecordStart, Phases
  <2>3. calls[c].id \in Ids /\ today \in Days
    BY <1>5 DEF RecordStart
  <2>4. CallOK(c)'
    BY <2>2, <2>3 DEF CallOK
  <2> QED BY <1>5, <2>1, <2>2, <2>4, TypeStep DEF RecordStart
<1>6. CASE Start(c)
  BY <1>6, GoOne, TypeStep, TypeFiles DEF Start, Phases
<1>16. CASE Spawn(c)
  <2>1. calls[c].id \in Ids /\ calls[c].date \in Days /\ {"stdout", "stderr"} \in SUBSET Sides
    BY <1>16 DEF Spawn, Sides
  <2>2. SidesTyped(sides')
    BY <1>16, <2>1, TypeFiles DEF Spawn
  <2> QED BY <1>16, <2>1, <2>2, GoOne, TypeStep DEF Spawn, Phases
<1>7. CASE PromptRefused(c)
  BY <1>7, GoOne, TypeStep DEF PromptRefused, Phases
<1>8. CASE StartFails(c)
  <2>1. calls[c].id \in Ids /\ calls[c].date \in Days
    BY <1>8 DEF StartFails
  <2>2. SidesTyped(sides')
    <3>1. {} \in SUBSET Sides /\ {"stdout"} \in SUBSET Sides
          /\ {"stdout", "stderr"} \in SUBSET Sides
      BY DEF Sides
    <3> QED BY <1>8, <2>1, <3>1, TypeFiles DEF StartFails
  <2>3. Go(c, "failing") /\ UNCHANGED <<files, ledger, today, crashes, prune, disturbed>>
    BY <1>8 DEF StartFails
  <2> QED BY <2>1, <2>2, <2>3, GoOne, TypeStep DEF Phases
<1>17. CASE StartUndone(c)
  <2>1. /\ calls' \in [Calls -> CallStates]
        /\ calls'[c].pc = "failed" /\ calls'[c].id = calls[c].id
        /\ calls'[c].date = calls[c].date
        /\ \A d \in Calls : d # c => calls'[d] = calls[d]
    BY <1>17, BecomesOne DEF StartUndone, Phases
  <2>2. calls[c].id \in Ids /\ calls[c].date \in Days
    BY <1>17 DEF StartUndone
  <2>3. files' \in [Ids -> Files] /\ disturbed' \subseteq Ids
    BY <1>17, <2>2, TypeFiles DEF StartUndone
  <2> QED BY <1>17, <2>1, <2>2, <2>3, TypeStep DEF StartUndone
<1>9. CASE Correct(c)
  <2>1. ledger' \in Seq(Entries)
    BY <1>9, AppendEntry DEF Correct, Events
  <2>2. /\ calls' \in [Calls -> CallStates]
        /\ calls'[c].pc = "refused" /\ calls'[c].id = calls[c].id
        /\ \A d \in Calls : d # c => calls'[d] = calls[d]
    BY <1>9, BecomesOne DEF Correct, Phases
  <2> QED BY <1>9, <2>1, <2>2, TypeStep DEF Correct
<1>10. CASE ReleaseStat(c)
  <2>1. CASE Go(c, "releasing")
    BY <1>10, <2>1, GoOne, TypeStep DEF ReleaseStat, Phases
  <2>2. CASE Becomes(c, "raised", calls[c].id, calls[c].date, 0)
    BY <1>10, <2>2, BecomesOne, TypeStep DEF ReleaseStat, Phases
  <2> QED BY <1>10, <2>1, <2>2 DEF ReleaseStat
<1>11. CASE ReleaseUnlink(c)
  <2>1. /\ calls' \in [Calls -> CallStates] /\ calls'[c].pc = "raised"
        /\ \A d \in Calls : d # c => calls'[d] = calls[d]
    BY <1>11, BecomesOne DEF ReleaseUnlink, Phases
  <2>2. files' \in [Ids -> Files] /\ disturbed' \subseteq Ids
    BY <1>11, TypeFiles DEF ReleaseUnlink
  <2>3. CallOK(c)'
    BY <1>11, <2>1, BecomesOne DEF ReleaseUnlink, CallOK, Phases
  <2> QED BY <1>11, <2>1, <2>2, <2>3, TypeStep DEF ReleaseUnlink
<1>12. CASE Retry(c)
  <2>1. ledger' \in Seq(Entries) /\ calls[c].id \in Ids
    BY <1>12, AppendEntry DEF Retry, Events
  <2>2. files' \in [Ids -> Files] /\ SidesTyped(sides')
    <3>1. Sides \in SUBSET Sides /\ {"lock"} \in SUBSET Sides
      BY DEF Sides
    <3> QED BY <1>12, <2>1, <3>1, TypeFiles DEF Retry
  <2> QED BY <1>12, <2>1, <2>2, GoOne, TypeStep DEF Retry, Phases
<1>13. CASE End(c)
  <2>1. ledger' \in Seq(Entries) /\ calls[c].id \in Ids
    BY <1>13, AppendEntry DEF End, Events
  <2>2. files' \in [Ids -> Files] /\ SidesTyped(sides')
    <3>1. Sides \in SUBSET Sides /\ {"lock"} \in SUBSET Sides
      BY DEF Sides
    <3> QED BY <1>13, <2>1, <3>1, TypeFiles DEF End
  <2> QED BY <1>13, <2>1, <2>2, GoOne, TypeStep DEF End, Phases
<1>14. CASE RecordFails(c)
  BY <1>14, GoOne, TypeStep DEF RecordFails, Phases
<1>15. CASE CorrectFails(c)
  BY <1>15, GoOne, TypeStep DEF CorrectFails, Phases
<1> QED BY <1>1, <1>2, <1>3, <1>4, <1>5, <1>6, <1>7, <1>8, <1>9, <1>10, <1>11, <1>12, <1>13,
           <1>14, <1>15, <1>16, <1>17
        DEF CallStep

\* What a crash does to a call: nothing, or it loses a phase, never an id.
LEMMA CrashCalls ==
    ASSUME TypeOK, NEW b \in Bridges, Crash(b), NEW c \in Calls
    PROVE  /\ calls' \in [Calls -> CallStates]
           /\ calls'[c].id = calls[c].id /\ calls'[c].date = calls[c].date
           /\ calls'[c].held = calls[c].held
           /\ \/ calls'[c].pc = calls[c].pc
              \/ calls[c].pc = "running" /\ calls'[c].pc = "final"
              \/ /\ calls[c].pc \notin {"idle", "raised", "uncorrected"} \cup Recorded
                 /\ calls'[c].pc = "dead"
<1> DEFINE After(d) == calls'[d]
<1>1. \A d \in Calls : calls[d] \in CallStates
  BY DEF TypeOK
<1>2. \A d \in Calls :
         \/ calls'[d] = calls[d]
         \/ calls[d].pc = "running" /\ calls'[d] = [calls[d] EXCEPT !.pc = "final"]
         \/ /\ calls[d].pc \notin {"idle", "raised", "uncorrected"} \cup Recorded
            /\ calls'[d] = [calls[d] EXCEPT !.pc = "dead"]
  <2> SUFFICES ASSUME NEW d \in Calls
               PROVE \/ calls'[d] = calls[d]
                     \/ calls[d].pc = "running" /\ calls'[d] = [calls[d] EXCEPT !.pc = "final"]
                     \/ /\ calls[d].pc \notin {"idle", "raised", "uncorrected"} \cup Recorded
                        /\ calls'[d] = [calls[d] EXCEPT !.pc = "dead"]
    OBVIOUS
  <2>1. calls'[d] =
          CASE Home[d] # b \/ calls[d].pc \in {"idle", "raised", "uncorrected", "final",
                                                  "ended", "expired"} -> calls[d]
            [] Home[d] = b /\ calls[d].pc = "running" -> [calls[d] EXCEPT !.pc = "final"]
            [] OTHER -> [calls[d] EXCEPT !.pc = "dead"]
    BY DEF Crash
  <2>2. CASE Home[d] # b \/ calls[d].pc \in {"idle", "raised", "uncorrected", "final", "ended",
                                                "expired"}
    BY <2>1, <2>2
  <2>3. CASE Home[d] = b /\ calls[d].pc = "running"
    BY <2>1, <2>3
  <2>4. CASE /\ Home[d] = b
             /\ calls[d].pc \notin {"idle", "raised", "uncorrected", "running", "final",
                                     "ended", "expired"}
    BY <2>1, <2>4 DEF Started, Recorded
  <2> QED BY <2>2, <2>3, <2>4
<1>3. \A d \in Calls : calls'[d] \in CallStates
  <2> SUFFICES ASSUME NEW d \in Calls PROVE calls'[d] \in CallStates
    OBVIOUS
  <2>1. \A r \in CallStates : \A pc \in Phases : [r EXCEPT !.pc = pc] \in CallStates
    BY DEF CallStates
  <2>2. "final" \in Phases /\ "dead" \in Phases
    BY DEF Phases
  <2>3. CASE calls'[d] = calls[d]
    BY <1>1, <2>3
  <2>4. CASE calls'[d] = [calls[d] EXCEPT !.pc = "final"]
    BY <1>1, <2>1, <2>2, <2>4
  <2>5. CASE calls'[d] = [calls[d] EXCEPT !.pc = "dead"]
    BY <1>1, <2>1, <2>2, <2>5
  <2> QED BY <1>2, <2>3, <2>4, <2>5
<1>4. calls' = [d \in Calls |-> calls'[d]]
  BY DEF Crash
<1> QED BY <1>1, <1>2, <1>3, <1>4 DEF CallStates

\* What a midnight does to a call: it is past its retention or stays as it is.
LEMMA MidnightCalls ==
    ASSUME TypeOK, NEW long \in BOOLEAN, Midnight(long)
    PROVE  /\ calls' \in [Calls -> CallStates]
           /\ \A c \in Calls :
                 /\ calls'[c].id = calls[c].id /\ calls'[c].date = calls[c].date
                 /\ calls'[c].held = calls[c].held
                 /\ \/ calls'[c].pc = calls[c].pc
                    \/ calls[c].pc = "ended" /\ calls'[c].pc = "expired"
                 /\ CallOK(c)'
<1>1. \A c \in Calls : calls[c] \in CallStates /\ CallOK(c)
  BY CallTypes DEF TypeOK
<1>2. calls' = [c \in Calls |-> IF long /\ calls[c].pc = "ended"
                                 THEN [calls[c] EXCEPT !.pc = "expired"] ELSE calls[c]]
  BY DEF Midnight
<1>3. \A r \in CallStates :
         LET e == [r EXCEPT !.pc = "expired"] IN
         e \in CallStates /\ e.pc = "expired" /\ e.id = r.id /\ e.date = r.date
         /\ e.held = r.held
  BY DEF CallStates, Phases
<1>4. \A c \in Calls :
         \/ calls'[c] = calls[c]
         \/ calls[c].pc = "ended" /\ calls'[c] = [calls[c] EXCEPT !.pc = "expired"]
  BY <1>2
<1>5. \A c \in Calls :
         /\ calls'[c] \in CallStates
         /\ calls'[c].id = calls[c].id /\ calls'[c].date = calls[c].date
         /\ calls'[c].held = calls[c].held
         /\ \/ calls'[c].pc = calls[c].pc
            \/ calls[c].pc = "ended" /\ calls'[c].pc = "expired"
  <2> SUFFICES ASSUME NEW c \in Calls
               PROVE  /\ calls'[c] \in CallStates
                      /\ calls'[c].id = calls[c].id /\ calls'[c].date = calls[c].date
                      /\ calls'[c].held = calls[c].held
                      /\ \/ calls'[c].pc = calls[c].pc
                         \/ calls[c].pc = "ended" /\ calls'[c].pc = "expired"
    OBVIOUS
  <2>1. CASE calls'[c] = calls[c]
    BY <1>1, <2>1
  <2>2. CASE calls[c].pc = "ended" /\ calls'[c] = [calls[c] EXCEPT !.pc = "expired"]
    BY <1>1, <1>3, <2>2
  <2> QED BY <1>4, <2>1, <2>2
<1>6. \A c \in Calls : CallOK(c)'
  BY <1>1, <1>5 DEF CallOK
<1>7. calls' \in [Calls -> CallStates]
  BY <1>2, <1>5
<1> QED BY <1>5, <1>6, <1>7

LEMMA LookType ==
    ASSUME TypeOK, NEW b \in Bridges, PruneLook(b)
    PROVE  TypeOK'
<1> DEFINE i == prune[b].at
<1>1. i \in Ids /\ i + 1 \in 1..(MaxId + 1) /\ prune \in [Bridges -> Prunings]
      /\ prune[b].at \in 1..(MaxId + 1) /\ 1 \in 1..Len(Removals)
  BY ConsultAssumption DEF PruneLook, TypeOK, Prunings, Ids, Removals
<1>2. files[i].by \in Calls \cup {NoCall}
  BY <1>1 DEF TypeOK, Files
<1>3. PICK new \in Prunings : /\ prune' = [prune EXCEPT ![b] = new]
                              /\ new.doomed # NoCall => new.at = i
  <2>1. Pruning(i, files[i].by, 1) \in Prunings /\ Pruning(i, files[i].by, 1).at = i
    BY <1>1, <1>2 DEF Pruning, Prunings
  <2>2. Pruning(i + 1, NoCall, 1) \in Prunings /\ Pruning(i + 1, NoCall, 1).doomed = NoCall
    BY <1>1 DEF Pruning, Prunings
  <2> QED BY <2>1, <2>2 DEF PruneLook
<1>4. prune' \in [Bridges -> Prunings]
      /\ \A p \in Bridges : prune'[p].doomed # NoCall => prune'[p].at \in Ids
  BY <1>1, <1>3 DEF TypeOK
<1> QED BY <1>4 DEF PruneLook, TypeOK

\* The next removal is of the same job, or there is none.
LEMMA PrunedFacts ==
    ASSUME TypeOK, NEW b \in Bridges, prune[b].doomed # NoCall, Pruned(b)
    PROVE  /\ prune[b].doomed \in Calls /\ prune[b].at \in Ids /\ prune[b].next \in 1..4
           /\ prune' \in [Bridges -> Prunings]
           /\ \/ prune'[b].doomed = NoCall
              \/ prune'[b].doomed = prune[b].doomed /\ prune'[b].at = prune[b].at
           /\ \A p \in Bridges : p # b => prune'[p] = prune[p]
           /\ \A p \in Bridges : prune'[p].doomed # NoCall => prune'[p].at \in Ids
<1> DEFINE r == prune[b]
           more == Pruning(r.at, r.doomed, r.next + 1)
           over == Pruning(r.at + 1, NoCall, 1)
<1>0. Len(Removals) = 4
  BY DEF Removals
<1>1. /\ prune \in [Bridges -> Prunings] /\ r \in Prunings
      /\ r.doomed \in Calls /\ r.at \in Ids /\ r.next \in 1..4
  BY <1>0 DEF TypeOK, Prunings
<1>2. r.next < 4 => more \in Prunings /\ more.doomed = r.doomed /\ more.at = r.at
  BY <1>0, <1>1, ConsultAssumption DEF Pruning, Prunings, Ids
<1>3. over \in Prunings /\ over.doomed = NoCall
  BY <1>0, <1>1, ConsultAssumption DEF Pruning, Prunings, Ids
<1>4. prune' = [prune EXCEPT ![b] = IF r.next < 4 THEN more ELSE over]
  BY <1>0 DEF Pruned
<1>5. \A p \in Bridges : prune[p].doomed # NoCall => prune[p].at \in Ids
  BY DEF TypeOK
<1> HIDE DEF r, more, over
<1>6. PICK new \in Prunings : /\ prune' = [prune EXCEPT ![b] = new]
                              /\ new.doomed = NoCall \/ (new.doomed = r.doomed /\ new.at = r.at)
  BY <1>2, <1>3, <1>4
<1> QED BY <1>1, <1>5, <1>6 DEF r

LEMMA UnlinkFacts ==
    ASSUME TypeOK, NEW b \in Bridges, PruneRecord(b)
    PROVE  /\ calls' \in [Calls -> CallStates]
           /\ \A c \in Calls :
                 /\ calls'[c].pc = calls[c].pc /\ calls'[c].id = calls[c].id
                 /\ calls'[c].date = calls[c].date
           /\ calls'[prune[b].doomed].held = 0
           /\ \A c \in Calls : c # prune[b].doomed => calls'[c] = calls[c]
<1> DEFINE c == prune[b].doomed
<1>1. c \in Calls
  BY PrunedFacts DEF PruneRecord
<1>2. Becomes(c, calls[c].pc, calls[c].id, calls[c].date, 0)
  BY DEF PruneRecord
<1>3. /\ calls[c].pc \in Phases /\ calls[c].id \in 0..MaxId /\ calls[c].date \in 0..MaxDay
      /\ 0 \in 0..MaxId
  BY <1>1, CallTypes
<1>4. /\ calls' \in [Calls -> CallStates]
      /\ calls'[c].pc = calls[c].pc /\ calls'[c].id = calls[c].id
      /\ calls'[c].date = calls[c].date /\ calls'[c].held = 0
      /\ \A d \in Calls : d # c => calls'[d] = calls[d]
  BY <1>1, <1>2, <1>3, BecomesOne
<1> QED BY <1>1, <1>4

LEMMA UnlinkType ==
    ASSUME TypeOK, NEW b \in Bridges, PruneRecord(b)
    PROVE  TypeOK'
<1>1. files' \in [Ids -> Files] /\ disturbed' \subseteq Ids
  BY PrunedFacts DEF PruneRecord, TypeOK, NoFile, Files
<1>2. \A c \in Calls : CallOK(c)'
  BY UnlinkFacts, CallTypes DEF CallOK
<1>3. /\ prune' \in [Bridges -> Prunings]
      /\ \A p \in Bridges : prune'[p].doomed # NoCall => prune'[p].at \in Ids
  BY PrunedFacts DEF PruneRecord
<1> QED BY <1>1, <1>2, <1>3, UnlinkFacts DEF PruneRecord, TypeOK, CallOK

LEMMA SideType ==
    ASSUME TypeOK, NEW b \in Bridges, PruneSide(b)
    PROVE  TypeOK' /\ Removals[prune[b].next] \in Sides
<1> DEFINE i == prune[b].at
           p == Removals[prune[b].next]
<1>1. /\ i \in Ids /\ prune[b].next \in 2..4
      /\ prune' \in [Bridges -> Prunings]
      /\ \A q \in Bridges : prune'[q].doomed # NoCall => prune'[q].at \in Ids
  BY PrunedFacts DEF PruneSide
<1>2. p \in Sides
  <2>1. prune[b].next = 2 \/ prune[b].next = 3 \/ prune[b].next = 4
    BY <1>1
  <2> QED BY <2>1 DEF Removals, Sides
<1>3. sides \in [Ids -> [Sides -> Calls \cup {NoCall}]] /\ disturbed \subseteq Ids
  BY DEF TypeOK
<1> HIDE DEF p
<1>4. sides' = [sides EXCEPT ![i][p] = NoCall]
  BY DEF PruneSide, p
<1>5. sides' \in [Ids -> [Sides -> Calls \cup {NoCall}]]
  BY <1>1, <1>2, <1>3, <1>4
<1>6. disturbed' \subseteq Ids
  BY <1>1, <1>3 DEF PruneSide
<1> QED BY <1>1, <1>2, <1>5, <1>6 DEF PruneSide, TypeOK, p

LEMMA TypeNext == TypeOK /\ [Next]_vars => TypeOK'
<1> SUFFICES ASSUME TypeOK, [Next]_vars PROVE TypeOK'
  OBVIOUS
<1>1. CASE \E c \in Calls : CallStep(c)
  BY <1>1, TypeCall
<1>2. CASE \E long \in BOOLEAN : Midnight(long)
  <2>1. PICK long \in BOOLEAN : Midnight(long)
    BY <1>2
  <2>2. today' \in Days
    BY <2>1, ConsultAssumption DEF Midnight, TypeOK, Days
  <2>3. calls' \in [Calls -> CallStates] /\ \A c \in Calls : CallOK(c)'
    BY <2>1, MidnightCalls
  <2>4. UNCHANGED <<files, sides, ledger, crashes, prune, disturbed>>
    BY <2>1 DEF Midnight
  <2> QED BY <2>2, <2>3, <2>4 DEF TypeOK, CallOK
<1>5. CASE \E b \in Bridges : PruneLook(b)
  BY <1>5, LookType
<1>6. CASE \E b \in Bridges : PruneRecord(b) \/ PruneSide(b)
  BY <1>6, UnlinkType, SideType
<1>3. CASE \E b \in Bridges : Crash(b)
  <2>1. PICK b \in Bridges : Crash(b)
    BY <1>3
  <2>2. \A c \in Calls : CallOK(c)'
    BY <2>1, CrashCalls, CallTypes DEF CallOK, Started
  <2>3. calls' \in [Calls -> CallStates]
    <3>1. CASE Calls = {}
      BY <2>1, <3>1 DEF Crash, TypeOK
    <3>2. CASE Calls # {}
      BY <2>1, <3>2, CrashCalls
    <3> QED BY <3>1, <3>2
  <2>4. crashes' \in 0..MaxCrashes
    BY <2>1, ConsultAssumption DEF Crash, TypeOK
  <2>5. UNCHANGED <<files, sides, ledger, today, disturbed>>
    BY <2>1 DEF Crash
  <2>6. /\ prune' \in [Bridges -> Prunings]
        /\ \A p \in Bridges : prune'[p].doomed # NoCall => prune'[p].at \in Ids
    BY <2>1, StartingType DEF Crash, TypeOK
  <2> QED BY <2>2, <2>3, <2>4, <2>5, <2>6 DEF TypeOK, CallOK
<1>4. CASE UNCHANGED vars
  BY <1>4 DEF vars, TypeOK
<1> QED BY <1>1, <1>2, <1>3, <1>4, <1>5, <1>6 DEF Next, CallStep

\* A consultation keeps to its types, whatever fails: from its scan to its end it has
\* an id, and it starts agy only on a day that was charged (server.py:351-368).
THEOREM ConsultTypes == Spec => []TypeOK
<1>1. Init => TypeOK
  BY TypeInit
<1>2. TypeOK /\ [Next]_vars => TypeOK'
  BY TypeNext
<1> QED BY <1>1, <1>2, PTL DEF Spec

----------------------------------------------------------------------------
\* The claims.

\* What the invariant says of a call in each phase.
LEMMA HolderFacts ==
    ASSUME ClaimsInv, NEW c \in Calls
    PROVE  /\ calls[c].held = 0 \/ calls[c].held = calls[c].id
           /\ calls[c].pc \in Without => calls[c].held = 0
           /\ calls[c].pc \in Holding => calls[c].held = calls[c].id /\ calls[c].held # 0
           /\ calls[c].held # 0 /\ calls[c].held \notin disturbed =>
                 /\ files[calls[c].held].by = c
                 /\ files[calls[c].held].kind = IF calls[c].pc \in Recorded THEN "record"
                                                ELSE "empty"
  BY DEF ClaimsInv, HolderInv, HolderOK

\* A step of call c changes no other call, no pruning, and c is not past its retention.
LEMMA Others ==
    ASSUME TypeOK, NEW c \in Calls, CallStep(c)
    PROVE  /\ \A d \in Calls : d # c => calls'[d] = calls[d]
           /\ prune' = prune /\ calls[c].pc # "expired"
<1>1. calls[c].pc # "expired" /\ prune' = prune
  BY DEF CallStep, Begin, Scan, TryCreate, CheckBudget, RecordStart, RecordFails, Spawn, Start,
         PromptRefused, StartFails, StartUndone, Correct, CorrectFails, ReleaseStat,
         ReleaseUnlink, Retry, End
<1>2. \E rec : calls' = [calls EXCEPT ![c] = rec]
  BY DEF CallStep, Begin, Scan, TryCreate, CheckBudget, RecordStart, RecordFails, Spawn, Start,
         PromptRefused, StartFails, StartUndone, Correct, CorrectFails, ReleaseStat,
         ReleaseUnlink, Retry, End, Go, Becomes
<1>3. calls \in [Calls -> CallStates]
  BY DEF TypeOK
<1> QED BY <1>1, <1>2, <1>3

\* A step of call c that leaves the record files and the id it holds alone: what it
\* owns it still may own after it.
LEMMA SameFiles ==
    ASSUME ClaimsInv, NEW c \in Calls,
           \A d \in Calls : d # c => calls'[d] = calls[d],
           calls'[c].held = calls[c].held, files' = files, disturbed' = disturbed,
           HolderOK(c)',
           calls[c].pc \notin Without =>
               /\ calls'[c].id = calls[c].id
               /\ calls[c].pc \in Working => calls'[c].pc \in Working
               /\ calls[c].pc \in Recorded => calls'[c].pc \in Recorded
    PROVE  HolderInv' /\ OwnerInv'
<1>2. \A d \in Calls : d # c => HolderOK(d)'
  BY DEF ClaimsInv, HolderInv, HolderOK
<1>3. ASSUME NEW i \in Ids PROVE OwnerOK(i)'
  <2>1. OwnerOK(i)
    BY DEF ClaimsInv, OwnerInv
  <2>2. CASE files[i].kind = "none" \/ files[i].by # c
    BY <2>1, <2>2 DEF OwnerOK
  <2>3. CASE files[i].kind # "none" /\ files[i].by = c
    <3>1. /\ calls[c].id = i
          /\ files[i].kind = "empty" => calls[c].pc \in Working
          /\ files[i].kind = "record" => calls[c].pc \in Recorded
          /\ files[i].kind \in {"empty", "record"}
      BY <2>1, <2>3 DEF OwnerOK, ClaimsInv, TypeOK, Files
    <3>2. calls[c].pc \notin Without
      BY <3>1 DEF Working, Recorded, Started, Without, Early
    <3> QED BY <2>3, <3>1, <3>2 DEF OwnerOK
  <2> QED BY <2>2, <2>3
<1> QED BY <1>2, <1>3 DEF HolderInv, OwnerInv

\* A step that puts f in the place of the file of c's id, which is free or c's own
\* unless the id is disturbed.
LEMMA OneFile ==
    ASSUME ClaimsInv, NEW c \in Calls, NEW i \in Ids, NEW f \in Files,
           calls[c].id = i,
           \A d \in Calls : d # c => calls'[d] = calls[d],
           disturbed \subseteq disturbed',
           i \notin disturbed' => files[i].kind = "none" \/ files[i].by = c,
           files' = [files EXCEPT ![i] = f],
           HolderOK(c)',
           f.kind = "none" => f.by = NoCall,
           f.kind # "none" => /\ f.by = c /\ calls'[c].id = i
                              /\ f.kind = "empty" => calls'[c].pc \in Working
                              /\ f.kind = "record" => calls'[c].pc \in Recorded
    PROVE  HolderInv' /\ OwnerInv'
<1>1. files \in [Ids -> Files] /\ 0 \notin Ids
  BY DEF ClaimsInv, TypeOK, Ids
<1>2. files'[i] = f /\ \A k \in Ids : k # i => files'[k] = files[k]
  BY <1>1
<1>3. \A d \in Calls : d # c => HolderOK(d)'
  <2> SUFFICES ASSUME NEW d \in Calls, d # c PROVE HolderOK(d)'
    OBVIOUS
  <2>1. HolderOK(d) /\ calls'[d] = calls[d]
    BY DEF ClaimsInv, HolderInv
  <2>2. calls[d].held = i => i \in disturbed'
    <3> SUFFICES ASSUME calls[d].held = i, i \notin disturbed' PROVE FALSE
      OBVIOUS
    <3>1. files[i].by = d /\ files[i].kind # "none"
      BY <1>1, <2>1 DEF HolderOK
    <3> QED BY <3>1
  <2>3. calls[d].held # 0 => calls[d].held \in Ids
    <3>1. calls[d] \in CallStates
      BY DEF ClaimsInv, TypeOK
    <3> QED BY <3>1, ConsultAssumption DEF CallStates, Ids
  <2> QED BY <1>2, <2>1, <2>2, <2>3 DEF HolderOK
<1>4. ASSUME NEW k \in Ids PROVE OwnerOK(k)'
  <2>1. CASE k = i
    BY <1>2, <2>1 DEF OwnerOK
  <2>2. CASE k # i
    <3>1. OwnerOK(k) /\ files'[k] = files[k]
      BY <1>2, <2>2 DEF ClaimsInv, OwnerInv
    <3>2. files[k].kind # "none" => files[k].by # c
      BY <2>2, <3>1 DEF OwnerOK
    <3> QED BY <3>1, <3>2 DEF OwnerOK
  <2> QED BY <2>1, <2>2
<1> QED BY <1>3, <1>4 DEF HolderInv, OwnerInv

\* A removal disturbs the id whose file is of neither call c nor nobody.
LEMMA RemovalOK ==
    ASSUME ClaimsInv, NEW c \in Calls, NEW i \in Ids,
           disturbed' = disturbed \cup (IF files[i].by \in {c, NoCall} THEN {} ELSE {i})
    PROVE  /\ disturbed \subseteq disturbed' /\ disturbed' \subseteq disturbed \cup {i}
           /\ i \notin disturbed' => files[i].kind = "none" \/ files[i].by = c
           /\ NoFile \in Files /\ NoFile.kind = "none" /\ NoFile.by = NoCall
<1>1. OwnerOK(i) /\ NoCall \notin Calls
  BY ConsultAssumption DEF ClaimsInv, OwnerInv
<1>2. NoFile \in Files /\ NoFile.kind = "none" /\ NoFile.by = NoCall
  BY DEF NoFile, Files
<1> QED BY <1>1, <1>2 DEF OwnerOK

LEMMA UnlinkKeeps ==
    ASSUME ClaimsInv, NEW c \in Calls, calls[c].id \in Ids, Unlink(c),
           \A d \in Calls : d # c => calls'[d] = calls[d],
           calls'[c].held = 0, calls'[c].pc \notin Holding
    PROVE  HolderInv' /\ OwnerInv'
<1> DEFINE i == calls[c].id
<1>1. /\ disturbed \subseteq disturbed'
      /\ i \notin disturbed' => files[i].kind = "none" \/ files[i].by = c
      /\ NoFile \in Files /\ NoFile.kind = "none" /\ NoFile.by = NoCall
  BY RemovalOK DEF Unlink
<1>2. files' = [files EXCEPT ![i] = NoFile]
  BY DEF Unlink
<1>3. HolderOK(c)'
  BY DEF HolderOK
<1> QED BY <1>1, <1>2, <1>3, OneFile

LEMMA PersistKeeps ==
    ASSUME ClaimsInv, NEW c \in Calls, calls[c].id \in Ids, calls[c].pc \in Holding, Persist(c),
           \A d \in Calls : d # c => calls'[d] = calls[d],
           calls'[c].id = calls[c].id, calls'[c].held = calls[c].held,
           calls'[c].pc \in Started, disturbed' = disturbed
    PROVE  HolderInv' /\ OwnerInv'
<1> DEFINE i == calls[c].id
           f == [kind |-> "record", by |-> c]
<1>1. /\ calls[c].held = i /\ i # 0
      /\ i \notin disturbed => files[i].by = c
  BY HolderFacts
<1>2. f \in Files /\ f.kind = "record" /\ f.by = c
  BY DEF Files
<1>3. files' = [files EXCEPT ![i] = f] /\ files'[i] = f
  BY DEF Persist, ClaimsInv, TypeOK
<1>4. calls'[c].pc \in Recorded /\ calls'[c].pc \notin Without
  BY DEF Recorded, Started, Without, Early
<1> HIDE DEF f
<1>5. HolderOK(c)'
  BY <1>1, <1>2, <1>3, <1>4 DEF HolderOK
<1> QED BY <1>1, <1>2, <1>3, <1>4, <1>5, OneFile

LEMMA ClaimsInit == Init => ClaimsInv
<1> SUFFICES ASSUME Init PROVE ClaimsInv
  OBVIOUS
<1>1. TypeOK
  BY TypeInit
<1>2. HolderInv
  BY DEF Init, Call, HolderInv, HolderOK, Holding, Started
<1>3. OwnerInv
  BY DEF Init, NoFile, OwnerInv, OwnerOK
<1>4. DoomedInv
  BY StartingType DEF Init, DoomedInv, DoomedOK
<1>5. OutputInv
  BY DEF Init, Call, OutputInv, OutputOK, Started
<1> QED BY <1>1, <1>2, <1>3, <1>4, <1>5 DEF ClaimsInv

----------------------------------------------------------------------------
LEMMA ClaimsCall ==
    ASSUME ClaimsInv, NEW c \in Calls, CallStep(c)
    PROVE  HolderInv' /\ OwnerInv'
<1>0. TypeOK /\ \A d \in Calls : d # c => calls'[d] = calls[d]
  BY Others DEF ClaimsInv
<1>h. HolderOK(c)
  BY DEF ClaimsInv, HolderInv
<1> USE <1>0, HolderFacts
\* The steps that leave the files alone.
<1>1. CASE Begin(c)
  <2>1. PICK pc \in {"begun", "raised"} : Go(c, pc)
    BY <1>1 DEF Begin
  <2> QED BY <1>1, <2>1, GoOne, SameFiles
          DEF Begin, HolderOK, Phases, Without, Early, Holding, Started
<1>2. CASE Scan(c)
  <2>1. Candidate \in 0..MaxId /\ 0 \in 0..MaxId /\ 0 \in 0..MaxDay
    BY <1>2, CallTypes DEF Scan
  <2> QED BY <1>2, <2>1, BecomesOne, SameFiles
          DEF Scan, HolderOK, Phases, Without, Early, Holding, Started
<1>3. CASE \E old, new \in Phases :
              /\ calls[c].pc = old /\ Go(c, new) /\ files' = files /\ disturbed' = disturbed
              /\ old \in Working /\ new \in Working
              /\ new \in Holding => old \in Holding
  <2>1. PICK old, new \in Phases :
              /\ calls[c].pc = old /\ Go(c, new) /\ files' = files /\ disturbed' = disturbed
              /\ old \in Working /\ new \in Working
              /\ new \in Holding => old \in Holding
    BY <1>3
  <2>2. /\ calls'[c].pc = new /\ calls'[c].id = calls[c].id /\ calls'[c].held = calls[c].held
    BY <2>1, GoOne
  <2>3. /\ old \notin Recorded /\ new \notin Recorded /\ old \notin Without /\ new \notin Without
    BY <2>1 DEF Working, Recorded, Started, Without, Early
  <2>4. HolderOK(c)'
    BY <1>h, <2>1, <2>2, <2>3 DEF HolderOK
  <2> QED BY <2>1, <2>2, <2>3, <2>4, SameFiles
<1>4. CASE CheckBudget(c)
  <2>1. PICK new \in {"checked", "refused"} : Go(c, new)
    BY <1>4 DEF CheckBudget
  <2> QED BY <1>3, <1>4, <2>1 DEF CheckBudget, Phases, Working, Holding, Started
<1>5. CASE RecordFails(c) \/ Spawn(c) \/ PromptRefused(c) \/ CorrectFails(c)
  BY <1>3, <1>5
  DEF RecordFails, Spawn, PromptRefused, CorrectFails, Phases, Working, Holding, Started
<1>6. CASE StartFails(c)
  BY <1>3, <1>6 DEF StartFails, Phases, Working, Holding, Started
<1>7. CASE RecordStart(c) \/ Correct(c)
  <2>1. /\ calls[c].id \in 0..MaxId /\ calls[c].held \in 0..MaxId /\ today \in 0..MaxDay
        /\ 0 \in 0..MaxDay
    BY CallTypes DEF TypeOK, Days
  <2>2. PICK new \in {"charged", "refused"} :
           /\ calls'[c].pc = new /\ calls'[c].id = calls[c].id
           /\ calls'[c].held = calls[c].held
           /\ calls[c].pc \in Working
           /\ new = "charged" => calls[c].pc = "checked"
    BY <1>7, <2>1, BecomesOne DEF RecordStart, Correct, Phases, Working
  <2>3. HolderOK(c)'
    BY <1>7, <1>h, <2>2
    DEF RecordStart, Correct, HolderOK, Without, Early, Working, Recorded, Started, Holding
  <2>4. new \in Working /\ calls[c].pc \notin Recorded
    BY <2>2 DEF Working, Recorded, Started
  <2> QED BY <1>7, <2>2, <2>3, <2>4, SameFiles DEF RecordStart, Correct
\* The claim, the record and the removals.
<1>8. CASE TryCreate(c)
  <2> DEFINE i == calls[c].id
             f == [kind |-> "empty", by |-> c]
  <2>1. i \in Ids /\ 0 \in 0..MaxDay /\ i \in 0..MaxId /\ calls[c].held = 0 /\ i # 0
    BY <1>8, CallTypes DEF TryCreate, CallOK, Without, Early, Ids
  <2>2. CASE Becomes(c, "claimed", i, 0, i) /\ files[i].kind = "none"
             /\ files' = [files EXCEPT ![i] = f] /\ disturbed' = disturbed
    <3>1. calls'[c].pc = "claimed" /\ calls'[c].id = i /\ calls'[c].held = i
      BY <2>1, <2>2, BecomesOne DEF Phases
    <3>2. f \in Files /\ f.kind = "empty" /\ f.by = c
      BY DEF Files
    <3>3. files'[i] = f
      BY <2>1, <2>2, CallTypes
    <3>4. HolderOK(c)'
      BY <2>1, <3>1, <3>2, <3>3 DEF HolderOK, Without, Early, Recorded, Started, Holding
    <3> HIDE DEF f
    <3> QED BY <2>1, <2>2, <3>1, <3>2, <3>4, OneFile DEF Working
  <2>3. CASE Becomes(c, "scanned", i + 1, 0, 0) /\ i < MaxId /\ files' = files
             /\ disturbed' = disturbed
    <3>1. i + 1 \in 0..MaxId /\ 0 \in 0..MaxId
      BY <2>1, <2>3, ConsultAssumption DEF Ids
    <3>2. calls'[c].pc = "scanned" /\ calls'[c].held = 0
      BY <2>1, <2>3, <3>1, BecomesOne DEF Phases
    <3>3. HolderOK(c)' /\ calls[c].pc \in Without
      BY <1>8, <3>2 DEF TryCreate, HolderOK, Holding, Started, Without, Early
    <3> QED BY <2>1, <2>3, <3>2, <3>3, SameFiles
  <2> QED BY <1>8, <2>2, <2>3 DEF TryCreate
<1>9. CASE Start(c) \/ Retry(c) \/ End(c)
  <2>1. PICK new \in Started : Go(c, new)
    BY <1>9 DEF Start, Retry, End, Started
  <2>2. new \in Phases
    BY DEF Started, Phases
  <2>3. /\ calls'[c].pc = new /\ calls'[c].id = calls[c].id /\ calls'[c].held = calls[c].held
    BY <2>1, <2>2, GoOne
  <2>4. calls[c].pc \in Holding /\ calls[c].id \in Ids /\ Persist(c) /\ disturbed' = disturbed
    BY <1>9, CallTypes DEF Start, Retry, End, Holding, Started, CallOK
  <2> QED BY <2>1, <2>3, <2>4, PersistKeeps
<1>10. CASE ReleaseStat(c)
  <2>1. CASE Go(c, "releasing") /\ files[calls[c].id].kind = "empty"
    BY <1>3, <1>10, <2>1 DEF ReleaseStat, Phases, Working, Holding, Started
  <2>2. CASE Becomes(c, "raised", calls[c].id, calls[c].date, 0)
             /\ files[calls[c].id].kind # "empty"
    <3>1. /\ calls'[c].pc = "raised" /\ calls'[c].id = calls[c].id /\ calls'[c].held = 0
      BY <2>2, CallTypes, BecomesOne DEF Phases
    <3>2. HolderOK(c)' /\ files' = files /\ disturbed' = disturbed /\ calls[c].pc = "refused"
          /\ calls[c].id \in Ids
      BY <1>10, <3>1, CallTypes DEF ReleaseStat, HolderOK, Holding, Started, CallOK
    \* What it had there is gone: its file would be empty.
    <3>3. \A i \in Ids : files[i].kind # "none" => files[i].by # c
      <4> SUFFICES ASSUME NEW i \in Ids, files[i].kind # "none", files[i].by = c PROVE FALSE
        OBVIOUS
      <4>1. OwnerOK(i) /\ files[i].kind \in {"empty", "record"}
        BY DEF ClaimsInv, OwnerInv, TypeOK, Files
      <4>2. calls[c].id = i /\ files[i].kind = "empty"
        BY <3>2, <4>1 DEF OwnerOK, Recorded, Started
      <4> QED BY <2>2, <4>2
    <3>4. \A i \in Ids : OwnerOK(i)'
      BY <3>2, <3>3 DEF ClaimsInv, OwnerInv, OwnerOK
    <3>5. \A d \in Calls : HolderOK(d)'
      BY <3>2 DEF ClaimsInv, HolderInv, HolderOK
    <3> QED BY <3>4, <3>5 DEF HolderInv, OwnerInv
  <2> QED BY <1>10, <2>1, <2>2 DEF ReleaseStat
<1>11. CASE ReleaseUnlink(c) \/ StartUndone(c)
  <2>1. PICK new \in {"raised", "failed"} : Becomes(c, new, calls[c].id, calls[c].date, 0)
    BY <1>11 DEF ReleaseUnlink, StartUndone
  <2>2. calls'[c].pc = new /\ calls'[c].held = 0 /\ new \notin Holding
    BY <2>1, CallTypes, BecomesOne DEF Phases, Holding, Started
  <2>3. calls[c].id \in Ids /\ Unlink(c)
    BY <1>11, CallTypes DEF ReleaseUnlink, StartUndone, CallOK
  <2> QED BY <2>2, <2>3, UnlinkKeeps
<1> QED BY <1>1, <1>2, <1>4, <1>5, <1>6, <1>7, <1>8, <1>9, <1>10, <1>11 DEF CallStep

\* Two calls whose jobs are not over do not work under one id, or it is disturbed.
LEMMA ApartOK ==
    ASSUME ClaimsInv, NEW c \in Calls, NEW d \in Calls, d # c,
           calls[c].pc \in Holding, calls[d].pc \in Holding,
           calls[c].id \notin disturbed
    PROVE  calls[d].id # calls[c].id
<1>1. files[calls[c].id].by = c
  BY HolderFacts
<1>2. calls[d].id \notin disturbed => files[calls[d].id].by = d
  BY HolderFacts
<1> QED BY <1>1, <1>2

\* What a step of a call does to the output files, if anything: it opens some of its
\* own; and no id is disturbed less than before.
LEMMA SidesCall ==
    ASSUME TypeOK, NEW c \in Calls, CallStep(c)
    PROVE  /\ disturbed \subseteq disturbed'
           /\ \/ sides' = sides
              \/ /\ calls[c].pc \in Holding /\ calls[c].id \in Ids
                 /\ \E made \in SUBSET Sides : Opened(c, made)
<1>1. calls[c].pc \in Holding => calls[c].id \in Ids
  BY CallTypes DEF CallOK, Holding, Started
<1>2. CASE Unlink(c) /\ sides' = sides
  BY <1>2 DEF Unlink
<1>3. {} \in SUBSET Sides /\ {"stdout"} \in SUBSET Sides /\ {"lock"} \in SUBSET Sides
      /\ {"stdout", "stderr"} \in SUBSET Sides /\ Sides \in SUBSET Sides
  BY DEF Sides
<1>4. CASE StartFails(c)
  BY <1>1, <1>3, <1>4 DEF StartFails, Holding, Started
<1>5. CASE Spawn(c) \/ Retry(c) \/ End(c)
  BY <1>1, <1>3, <1>5 DEF Spawn, Retry, End, Holding, Started
<1>6. CASE Begin(c) \/ Scan(c) \/ TryCreate(c) \/ CheckBudget(c) \/ RecordStart(c)
           \/ RecordFails(c) \/ Start(c) \/ PromptRefused(c) \/ Correct(c) \/ CorrectFails(c)
           \/ ReleaseStat(c)
  BY <1>6 DEF Begin, Scan, TryCreate, CheckBudget, RecordStart, RecordFails, Start,
              PromptRefused, Correct, CorrectFails, ReleaseStat
<1>7. CASE StartUndone(c) \/ ReleaseUnlink(c)
  BY <1>2, <1>7 DEF StartUndone, ReleaseUnlink
<1> QED BY <1>4, <1>5, <1>6, <1>7 DEF CallStep

LEMMA OutputCall ==
    ASSUME ClaimsInv, NEW c \in Calls, CallStep(c)
    PROVE  OutputInv'
<1>0. TypeOK /\ \A d \in Calls : d # c => calls'[d] = calls[d]
  BY Others DEF ClaimsInv
<1>1. sides \in [Ids -> [Sides -> Calls \cup {NoCall}]]
  BY <1>0 DEF TypeOK
<1>o. {"stdout", "stderr"} \subseteq Sides
  BY DEF Sides
<1>2. \A made \in SUBSET Sides : Opened(c, made) /\ calls[c].id \in Ids =>
         /\ \A p \in Sides : sides'[calls[c].id][p] = IF p \in made THEN c
                                                       ELSE sides[calls[c].id][p]
         /\ \A k \in Ids : k # calls[c].id => sides'[k] = sides[k]
  BY <1>1 DEF Opened
<1>3. ASSUME NEW d \in Calls, d # c PROVE OutputOK(d)'
  <2> SUFFICES ASSUME calls[d].pc \in {"spawned"} \cup Started, calls[d].id \notin disturbed'
               PROVE  \A p \in {"stdout", "stderr"} : sides'[calls[d].id][p] = d
    BY <1>0, <1>3 DEF OutputOK
  <2>1. calls[d].id \notin disturbed /\ calls[d].pc \in Holding
    BY <1>0, SidesCall DEF Holding, Started
  <2>2. \A p \in {"stdout", "stderr"} : sides[calls[d].id][p] = d
    BY <2>1 DEF ClaimsInv, OutputInv, OutputOK
  <2>3. calls[d].id \in Ids
    BY <1>0, <2>1, CallTypes DEF CallOK, Holding, Started
  <2>4. CASE sides' = sides
    BY <2>2, <2>4
  <2>5. CASE sides' # sides
    <3>1. calls[c].pc \in Holding /\ calls[c].id \in Ids
          /\ \E made \in SUBSET Sides : Opened(c, made)
      BY <1>0, <2>5, SidesCall
    <3>2. calls[c].id # calls[d].id
      BY <1>3, <2>1, <3>1, ApartOK
    <3> QED BY <1>2, <2>2, <2>3, <3>1, <3>2
  <2> QED BY <2>4, <2>5
<1>4. OutputOK(c)'
  <2> SUFFICES ASSUME calls'[c].pc \in {"spawned"} \cup Started, calls'[c].id \notin disturbed'
               PROVE  \A p \in {"stdout", "stderr"} : sides'[calls'[c].id][p] = c
    BY DEF OutputOK
  <2>1. CASE Spawn(c)
    <3>1. calls'[c].id = calls[c].id /\ calls[c].id \in Ids
      BY <1>0, <2>1, GoOne, CallTypes DEF Spawn, Phases, CallOK
    <3> QED BY <1>2, <1>o, <2>1, <3>1 DEF Spawn
  <2>2. CASE Retry(c)
    <3>1. calls'[c].id = calls[c].id /\ calls[c].id \in Ids
      BY <1>0, <2>2, GoOne, CallTypes DEF Retry, Phases, CallOK
    <3> QED BY <1>2, <1>o, <2>2, <3>1 DEF Retry
  <2>3. CASE Start(c) \/ End(c)
    <3>1. calls[c].pc \in {"spawned"} \cup Started /\ disturbed' = disturbed
          /\ calls[c].id \in Ids
      BY <1>0, <2>3, CallTypes DEF Start, End, Started, CallOK
    <3>2. calls'[c].id = calls[c].id
      BY <1>0, <2>3, GoOne DEF Start, End, Phases
    <3>3. \A p \in {"stdout", "stderr"} : sides[calls[c].id][p] = c
      BY <3>1, <3>2 DEF ClaimsInv, OutputInv, OutputOK
    <3>4. sides' = sides \/ Opened(c, {"lock"})
      BY <2>3 DEF Start, End
    <3>5. {"lock"} \in SUBSET Sides
      BY DEF Sides
    <3> QED BY <1>2, <1>o, <3>1, <3>2, <3>3, <3>4, <3>5
  <2>4. CASE Begin(c) \/ CheckBudget(c) \/ RecordFails(c) \/ PromptRefused(c)
             \/ StartFails(c) \/ CorrectFails(c)
    <3>1. PICK new \in {"begun", "raised", "checked", "refused", "failed", "failing",
                        "uncorrected"} : Go(c, new)
      BY <2>4 DEF Begin, CheckBudget, RecordFails, PromptRefused, StartFails, CorrectFails
    <3> QED BY <1>0, <3>1, GoOne DEF Phases, Started
  <2>5. CASE Scan(c) \/ TryCreate(c)
    <3>1. PICK new \in {"scanned", "claimed"}, id \in 0..MaxId, held \in 0..MaxId :
             Becomes(c, new, id, 0, held)
      <4>1. calls[c].pc = "scanned" /\ calls[c].id < MaxId => calls[c].id + 1 \in 0..MaxId
        BY <1>0, CallTypes, ConsultAssumption DEF CallOK, Ids
      <4> QED BY <1>0, <2>5, <4>1, CallTypes DEF Scan, TryCreate
    <3> QED BY <1>0, <3>1, BecomesOne, CallTypes DEF Phases, Started
  <2>6. CASE RecordStart(c) \/ Correct(c) \/ StartUndone(c) \/ ReleaseUnlink(c)
    <3>1. PICK new \in {"charged", "refused", "failed", "raised"}, date \in 0..MaxDay,
               held \in 0..MaxId : Becomes(c, new, calls[c].id, date, held)
      BY <1>0, <2>6, CallTypes DEF RecordStart, Correct, StartUndone, ReleaseUnlink
    <3> QED BY <1>0, <3>1, BecomesOne, CallTypes DEF Phases, Started
  <2>7. CASE ReleaseStat(c)
    <3>1. calls'[c].pc \in {"releasing", "raised"}
      BY <1>0, <2>7, GoOne, BecomesOne, CallTypes DEF ReleaseStat, Phases
    <3> QED BY <3>1 DEF Started
  <2> QED BY <2>1, <2>2, <2>3, <2>4, <2>5, <2>6, <2>7 DEF CallStep
<1> QED BY <1>3, <1>4 DEF OutputInv

----------------------------------------------------------------------------
LEMMA ClaimsMidnight ==
    ASSUME ClaimsInv, NEW long \in BOOLEAN, Midnight(long)
    PROVE  HolderInv' /\ OwnerInv' /\ DoomedInv' /\ OutputInv'
<1>1. TypeOK
  BY DEF ClaimsInv
<1>2. UNCHANGED <<files, sides, prune, disturbed>>
  BY DEF Midnight
<1>3. HolderInv'
  <2> SUFFICES ASSUME NEW c \in Calls PROVE HolderOK(c)'
    BY DEF HolderInv
  <2>1. HolderOK(c)
    BY DEF ClaimsInv, HolderInv
  <2> QED BY <1>1, <1>2, <2>1, MidnightCalls
          DEF HolderOK, Without, Early, Started, Recorded, Holding
<1>4. OwnerInv'
  <2> SUFFICES ASSUME NEW i \in Ids PROVE OwnerOK(i)'
    BY DEF OwnerInv
  <2>1. OwnerOK(i)
    BY DEF ClaimsInv, OwnerInv
  <2> QED BY <1>1, <1>2, <2>1, MidnightCalls DEF OwnerOK, Recorded, Started, Working
<1>5. \A b \in Bridges : prune[b].doomed # NoCall => prune[b].doomed \in Calls
  BY <1>1 DEF TypeOK, Prunings
<1>6. DoomedInv'
  BY <1>1, <1>2, <1>5, MidnightCalls DEF ClaimsInv, DoomedInv, DoomedOK
<1>7. OutputInv'
  BY <1>1, <1>2, MidnightCalls DEF ClaimsInv, OutputInv, OutputOK, Started
<1> QED BY <1>3, <1>4, <1>6, <1>7

LEMMA ClaimsLook ==
    ASSUME ClaimsInv, NEW b \in Bridges, PruneLook(b)
    PROVE  HolderInv' /\ OwnerInv' /\ DoomedInv' /\ OutputInv'
<1> DEFINE i == prune[b].at
<1>1. UNCHANGED <<files, sides, calls, disturbed>>
  BY DEF PruneLook
<1>2. i \in Ids /\ i <= MaxId /\ prune \in [Bridges -> Prunings]
  BY ConsultAssumption DEF PruneLook, ClaimsInv, TypeOK, Prunings, Ids
<1>3. Old(i) => calls[files[i].by].pc = "expired" /\ calls[files[i].by].id = i
  BY <1>2 DEF Old, ClaimsInv, OwnerInv, OwnerOK
<1>4. prune'[b] = IF Old(i) THEN Pruning(i, files[i].by, 1) ELSE Pruning(i + 1, NoCall, 1)
  BY <1>2 DEF PruneLook
<1>5. \A p \in Bridges : p # b => prune'[p] = prune[p]
  BY <1>2 DEF PruneLook
<1>6. prune'[b].doomed # NoCall =>
         Old(i) /\ prune'[b].doomed = files[i].by /\ prune'[b].at = i
  BY <1>4 DEF Pruning
<1>7. DoomedOK(b)'
  BY <1>1, <1>3, <1>6 DEF DoomedOK
<1>8. \A p \in Bridges : p # b => DoomedOK(p)'
  BY <1>1, <1>5 DEF ClaimsInv, DoomedInv, DoomedOK
<1>9. HolderInv'
  BY <1>1 DEF ClaimsInv, HolderInv, HolderOK
<1>10. OwnerInv'
  BY <1>1 DEF ClaimsInv, OwnerInv, OwnerOK
<1>11. OutputInv'
  BY <1>1 DEF ClaimsInv, OutputInv, OutputOK
<1> QED BY <1>7, <1>8, <1>9, <1>10, <1>11 DEF DoomedInv

\* After a removal the pruning goes on with the same job or has none.
LEMMA DoomedNext ==
    ASSUME ClaimsInv, NEW b \in Bridges, prune[b].doomed # NoCall, Pruned(b),
           \A c \in Calls : calls'[c].pc = calls[c].pc /\ calls'[c].id = calls[c].id
    PROVE  DoomedInv'
<1> SUFFICES ASSUME NEW p \in Bridges PROVE DoomedOK(p)'
  BY DEF DoomedInv
<1>1. TypeOK /\ DoomedOK(p)
  BY DEF ClaimsInv, DoomedInv
<1>2. prune[p].doomed # NoCall => prune[p].doomed \in Calls
  BY <1>1 DEF TypeOK, Prunings
<1>3. \/ prune'[p].doomed = NoCall
      \/ prune'[p].doomed = prune[p].doomed /\ prune'[p].at = prune[p].at
  BY <1>1, PrunedFacts
<1> QED BY <1>1, <1>2, <1>3 DEF DoomedOK

\* A bridge that prunes removes the record of its old job, or disturbs the id.
LEMMA ClaimsUnlink ==
    ASSUME ClaimsInv, NEW b \in Bridges, PruneRecord(b)
    PROVE  HolderInv' /\ OwnerInv' /\ DoomedInv' /\ OutputInv'
<1>1. TypeOK /\ prune[b].doomed # NoCall /\ Pruned(b)
  BY DEF ClaimsInv, PruneRecord
<1>2. PICK c \in Calls, i \in Ids : c = prune[b].doomed /\ i = prune[b].at
  BY <1>1, PrunedFacts
<1>3. calls[c].pc = "expired" /\ calls[c].id = i
  BY <1>1, <1>2 DEF ClaimsInv, DoomedInv, DoomedOK
<1>4. /\ \A d \in Calls : d # c => calls'[d] = calls[d]
      /\ \A d \in Calls : calls'[d].pc = calls[d].pc /\ calls'[d].id = calls[d].id
      /\ calls'[c].pc = "expired" /\ calls'[c].held = 0
  BY <1>1, <1>2, <1>3, UnlinkFacts
<1>5. /\ disturbed \subseteq disturbed'
      /\ i \notin disturbed' => files[i].kind = "none" \/ files[i].by = c
      /\ NoFile \in Files /\ NoFile.kind = "none" /\ NoFile.by = NoCall
  BY <1>2, RemovalOK DEF PruneRecord
<1>6. files' = [files EXCEPT ![i] = NoFile] /\ sides' = sides
  BY <1>2 DEF PruneRecord
<1>7. HolderOK(c)'
  BY <1>4 DEF HolderOK, Holding, Started
<1>8. HolderInv' /\ OwnerInv'
  BY <1>3, <1>4, <1>5, <1>6, <1>7, OneFile
<1>9. DoomedInv'
  BY <1>1, <1>4, DoomedNext
<1>10. OutputInv'
  BY <1>4, <1>5, <1>6 DEF ClaimsInv, OutputInv, OutputOK
<1> QED BY <1>8, <1>9, <1>10

LEMMA ClaimsSide ==
    ASSUME ClaimsInv, NEW b \in Bridges, PruneSide(b)
    PROVE  HolderInv' /\ OwnerInv' /\ DoomedInv' /\ OutputInv'
<1> DEFINE i == prune[b].at
           p == Removals[prune[b].next]
<1>1. TypeOK /\ prune[b].doomed # NoCall /\ Pruned(b) /\ UNCHANGED <<files, calls>>
  BY DEF ClaimsInv, PruneSide
<1>2. prune[b].doomed \in Calls /\ i \in Ids /\ p \in Sides
  BY <1>1, PrunedFacts, SideType
<1>3. calls[prune[b].doomed].pc = "expired"
  BY <1>1, <1>2 DEF ClaimsInv, DoomedInv, DoomedOK
<1> HIDE DEF p
<1>4. /\ disturbed' = disturbed \cup (IF sides[i][p] \in {prune[b].doomed, NoCall}
                                      THEN {} ELSE {i})
      /\ sides' = [sides EXCEPT ![i][p] = NoCall]
  BY DEF PruneSide, p
<1>5. sides \in [Ids -> [Sides -> Calls \cup {NoCall}]] /\ NoCall \notin Calls
  BY <1>1, ConsultAssumption DEF TypeOK
<1>6. HolderInv' /\ OwnerInv'
  BY <1>1, <1>4 DEF ClaimsInv, HolderInv, HolderOK, OwnerInv, OwnerOK
<1>7. DoomedInv'
  BY <1>1, DoomedNext
<1>8. OutputInv'
  <2> SUFFICES ASSUME NEW c \in Calls, calls[c].pc \in {"spawned"} \cup Started,
                      calls[c].id \notin disturbed', NEW q \in {"stdout", "stderr"}
               PROVE  sides'[calls[c].id][q] = c
    BY <1>1 DEF OutputInv, OutputOK
  <2>1. sides[calls[c].id][q] = c /\ c # prune[b].doomed /\ c # NoCall
    BY <1>3, <1>4, <1>5 DEF ClaimsInv, OutputInv, OutputOK, Started
  <2>2. calls[c].id \in Ids /\ q \in Sides
    BY <1>1, CallTypes DEF CallOK, Started, Sides
  <2>3. ~(calls[c].id = i /\ q = p)
    BY <1>4, <2>1
  <2> QED BY <1>2, <1>4, <1>5, <2>1, <2>2, <2>3
<1> QED BY <1>6, <1>7, <1>8

LEMMA ClaimsCrash ==
    ASSUME ClaimsInv, NEW b \in Bridges, Crash(b)
    PROVE  HolderInv' /\ OwnerInv' /\ DoomedInv' /\ OutputInv'
<1>1. TypeOK /\ UNCHANGED <<files, sides, disturbed>>
  BY DEF ClaimsInv, Crash
<1>2. HolderInv'
  <2> SUFFICES ASSUME NEW c \in Calls PROVE HolderOK(c)'
    BY DEF HolderInv
  <2>1. HolderOK(c)
    BY DEF ClaimsInv, HolderInv
  <2> QED BY <1>1, <2>1, CrashCalls DEF HolderOK, Without, Early, Started, Recorded, Holding
<1>3. OwnerInv'
  <2> SUFFICES ASSUME NEW i \in Ids PROVE OwnerOK(i)'
    BY DEF OwnerInv
  <2>1. OwnerOK(i)
    BY DEF ClaimsInv, OwnerInv
  <2>2. CASE files[i].kind = "none"
    BY <1>1, <2>1, <2>2 DEF OwnerOK
  <2>3. CASE files[i].kind # "none"
    <3>1. PICK c \in Calls : c = files[i].by
      BY <2>1, <2>3 DEF OwnerOK
    <3>2. calls[c].pc \in Working => calls'[c].pc \in Working
      BY <1>1, CrashCalls DEF Working
    <3>3. calls[c].pc \in Recorded => calls'[c].pc \in Recorded
      BY <1>1, CrashCalls DEF Recorded, Started
    <3>4. calls'[c].id = calls[c].id
      BY <1>1, CrashCalls
    <3> QED BY <1>1, <2>1, <2>3, <3>1, <3>2, <3>3, <3>4 DEF OwnerOK
  <2> QED BY <2>2, <2>3
<1>4. DoomedInv'
  <2>1. prune \in [Bridges -> Prunings] /\ prune' = [prune EXCEPT ![b] = Starting]
    BY <1>1 DEF Crash, TypeOK
  <2>2. \A p \in Bridges : p # b => prune'[p] = prune[p]
    BY <2>1
  <2>3. prune'[b].doomed = NoCall
    BY <2>1, StartingType
  <2>4. \A c \in Calls : calls[c].pc = "expired" =>
           calls'[c].pc = "expired" /\ calls'[c].id = calls[c].id
    BY <1>1, CrashCalls DEF Started, Recorded
  <2>5. \A p \in Bridges : prune[p].doomed # NoCall => prune[p].doomed \in Calls
    BY <2>1 DEF Prunings
  <2> QED BY <2>2, <2>3, <2>4, <2>5 DEF ClaimsInv, DoomedInv, DoomedOK
<1>5. OutputInv'
  <2> SUFFICES ASSUME NEW c \in Calls PROVE OutputOK(c)'
    BY DEF OutputInv
  <2>1. OutputOK(c)
    BY DEF ClaimsInv, OutputInv
  <2> QED BY <1>1, <2>1, CrashCalls DEF OutputOK, Started, Recorded
<1> QED BY <1>2, <1>3, <1>4, <1>5

LEMMA ClaimsNext == ClaimsInv /\ [Next]_vars => ClaimsInv'
<1> SUFFICES ASSUME ClaimsInv, [Next]_vars PROVE ClaimsInv'
  OBVIOUS
<1>0. TypeOK /\ TypeOK'
  BY TypeNext DEF ClaimsInv
<1>1. CASE \E c \in Calls : CallStep(c)
  <2>1. PICK c \in Calls : CallStep(c)
    BY <1>1
  \* A job that is past its retention is in no step of its call.
  <2>2. DoomedInv'
    <3>1. \A b \in Bridges : prune[b].doomed # NoCall => prune[b].doomed \in Calls
      BY <1>0 DEF TypeOK, Prunings
    <3> QED BY <1>0, <2>1, <3>1, Others DEF ClaimsInv, DoomedInv, DoomedOK
  <2> QED BY <1>0, <2>1, <2>2, ClaimsCall, OutputCall DEF ClaimsInv
<1>2. CASE \E long \in BOOLEAN : Midnight(long)
  BY <1>0, <1>2, ClaimsMidnight DEF ClaimsInv
<1>3. CASE \E b \in Bridges : PruneLook(b) \/ PruneRecord(b) \/ PruneSide(b) \/ Crash(b)
  BY <1>0, <1>3, ClaimsLook, ClaimsUnlink, ClaimsSide, ClaimsCrash DEF ClaimsInv
<1>4. CASE UNCHANGED vars
  BY <1>0, <1>4 DEF vars, ClaimsInv, HolderInv, HolderOK, OwnerInv, OwnerOK, DoomedInv, DoomedOK,
                    OutputInv, OutputOK
<1> QED BY <1>1, <1>2, <1>3, <1>4 DEF Next, CallStep

\* A started job keeps its record and its output files until it is past its retention,
\* whatever fails and however many bridges prune, unless under its id a file has been
\* removed by its name after it became somebody else's: no scan, claim, record or end
\* of another call takes its place (jobs.py:203-204, 232-233).
THEOREM RecordsSafe == Spec => []FilesStay
<1>1. Init => ClaimsInv
  BY ClaimsInit
<1>2. ClaimsInv /\ [Next]_vars => ClaimsInv'
  BY ClaimsNext
<1>3. ClaimsInv => FilesStay
  <2> SUFFICES ASSUME ClaimsInv, NEW c \in Calls, calls[c].pc \in Started,
                      calls[c].id \notin disturbed
               PROVE  Kept(c) /\ \A p \in {"stdout", "stderr"} : sides[calls[c].id][p] = c
    BY DEF FilesStay, Started
  <2>1. TypeOK
    BY DEF ClaimsInv
  <2>2. calls[c].id \in Ids /\ files \in [Ids -> Files]
    BY <2>1, CallTypes DEF CallOK, Started
  <2>3. files[calls[c].id].by = c /\ files[calls[c].id].kind = "record"
    BY HolderFacts DEF Holding, Started, Recorded
  <2>4. \A p \in {"stdout", "stderr"} : sides[calls[c].id][p] = c
    BY DEF ClaimsInv, OutputInv, OutputOK
  <2> QED BY <2>2, <2>3, <2>4 DEF Files, Kept
<1> QED BY <1>1, <1>2, <1>3, PTL DEF Spec

\* An empty record file belongs to a call that still works on it, whose bridge died or
\* whose correction could not be written: what is refused, or fails before or at its
\* spawn, leaves none behind, whatever fails (server.py:357-358).
THEOREM ClaimsGoBack == Spec => []ClaimsReturned
<1>1. Init => ClaimsInv
  BY ClaimsInit
<1>2. ClaimsInv /\ [Next]_vars => ClaimsInv'
  BY ClaimsNext
<1>3. ClaimsInv => ClaimsReturned
  <2> SUFFICES ASSUME ClaimsInv, NEW i \in Ids, files[i].kind = "empty"
               PROVE  /\ calls[files[i].by].id = i
                      /\ calls[files[i].by].pc
                            \notin {"raised", "running", "final", "ended", "expired"}
    BY DEF ClaimsReturned
  <2>1. OwnerOK(i)
    BY DEF ClaimsInv, OwnerInv
  <2> QED BY <2>1 DEF OwnerOK, Working
<1> QED BY <1>1, <1>2, <1>3, PTL DEF Spec

----------------------------------------------------------------------------
\* The refinement: only the creation of a file and its removal change who holds an id.

HoldersNow == [i \in Ids |-> {c \in Calls : calls[c].held = i /\ i \notin disturbed}]

LEMMA SameHolders ==
    ASSUME \A c \in Calls : calls'[c].held = calls[c].held, disturbed' = disturbed
    PROVE  HoldersNow' = HoldersNow
  BY DEF HoldersNow

\* An id loses its holder, if it had one, to its release or to a removal that disturbs it.
LEMMA LoseStep ==
    ASSUME ClaimsInv, NEW c \in Calls, NEW i \in Ids, calls[c].held \in {0, i},
           calls'[c].held \in {0, calls[c].held},
           \A d \in Calls : d # c => calls'[d].held = calls[d].held,
           disturbed \subseteq disturbed', disturbed' \subseteq disturbed \cup {i}
    PROVE  [IdClaims!Next]_HoldersNow
<1>0. 0 \notin Ids
  BY DEF Ids
<1>1. ASSUME NEW k \in Ids, k # i PROVE HoldersNow[k]' = HoldersNow[k]
  <2>1. \A d \in Calls : calls'[d].held = k <=> calls[d].held = k
    BY <1>0, <1>1
  <2>2. k \in disturbed' <=> k \in disturbed
    BY <1>1
  <2> QED BY <2>1, <2>2 DEF HoldersNow
<1>2. HoldersNow[i]' \subseteq HoldersNow[i]
  <2>1. \A d \in Calls : calls'[d].held = i => calls[d].held = i
    BY <1>0
  <2> QED BY <2>1 DEF HoldersNow
<1>3. \A d, e \in HoldersNow[i] : d = e
  BY <1>0, HolderFacts DEF HoldersNow
<1>4. CASE HoldersNow[i]' = HoldersNow[i]
  <2>1. HoldersNow' = HoldersNow
    BY <1>1, <1>4 DEF HoldersNow
  <2> QED BY <2>1
<1>5. CASE HoldersNow[i]' # HoldersNow[i]
  <2>1. PICK d \in HoldersNow[i] : HoldersNow[i]' = HoldersNow[i] \ {d}
    BY <1>2, <1>3, <1>5
  <2>2. HoldersNow' = [HoldersNow EXCEPT ![i] = @ \ {d}]
    BY <1>1, <2>1 DEF HoldersNow
  <2>3. d \in Calls
    BY DEF HoldersNow
  <2>4. IdClaims!GiveBack(i, d)
    BY <2>1, <2>2 DEF IdClaims!GiveBack, HoldersNow
  <2>5. \E k \in Ids, e \in Calls : IdClaims!Claim(k, e) \/ IdClaims!GiveBack(k, e)
    BY <2>3, <2>4
  <2> QED BY <2>5 DEF IdClaims!Next
<1> QED BY <1>4, <1>5

LEMMA ClaimStep ==
    ASSUME ClaimsInv, NEW c \in Calls, CallStep(c)
    PROVE  [IdClaims!Next]_HoldersNow
<1>0. TypeOK /\ \A d \in Calls : d # c => calls'[d] = calls[d]
  BY Others DEF ClaimsInv
<1> USE <1>0, HolderFacts
<1>1. CASE TryCreate(c) /\ files[calls[c].id].kind = "none"
  <2>0. PICK i \in Ids : i = calls[c].id
    BY <1>1, CallTypes DEF TryCreate, CallOK
  <2>1. i # 0 /\ 0 \in 0..MaxDay /\ i \in 0..MaxId /\ calls[c].held = 0 /\ disturbed' = disturbed
    BY <1>1, CallTypes DEF TryCreate, Without, Early, Ids
  <2>2. calls'[c].held = i
    BY <1>1, <2>0, <2>1, BecomesOne DEF TryCreate, Phases
  <2>3. i \notin disturbed => \A d \in Calls : calls[d].held # i
    <3> SUFFICES ASSUME NEW d \in Calls, calls[d].held = i, i \notin disturbed PROVE FALSE
      OBVIOUS
    <3> QED BY <1>1, <2>0, <2>1
  <2>4. ASSUME NEW k \in Ids, k # i PROVE HoldersNow[k]' = HoldersNow[k]
    <3>1. \A d \in Calls : calls'[d].held = k <=> calls[d].held = k
      BY <2>1, <2>2, <2>4 DEF Ids
    <3> QED BY <2>1, <3>1 DEF HoldersNow
  <2>5. CASE i \in disturbed
    <3>1. HoldersNow[i]' = HoldersNow[i]
      BY <2>1, <2>5 DEF HoldersNow
    <3>2. HoldersNow' = HoldersNow
      BY <2>4, <3>1 DEF HoldersNow
    <3> QED BY <3>2
  <2>6. CASE i \notin disturbed
    <3>1. HoldersNow[i] = {} /\ \A k \in Ids : c \notin HoldersNow[k]
      BY <2>1, <2>3, <2>6 DEF HoldersNow, Ids
    <3>2. HoldersNow[i]' = {c}
      BY <2>1, <2>2, <2>3, <2>6 DEF HoldersNow
    <3>3. HoldersNow' = [HoldersNow EXCEPT ![i] = {c}]
      BY <2>4, <3>2 DEF HoldersNow
    <3>4. IdClaims!Claim(i, c)
      BY <3>1, <3>3 DEF IdClaims!Claim, HoldersNow
    <3>5. \E k \in Ids, d \in Calls : IdClaims!Claim(k, d) \/ IdClaims!GiveBack(k, d)
      BY <3>4
    <3> QED BY <3>5 DEF IdClaims!Next
  <2> QED BY <2>5, <2>6
<1>2. CASE ReleaseUnlink(c) \/ StartUndone(c)
  <2>0. PICK i \in Ids : i = calls[c].id
    BY <1>2, CallTypes DEF ReleaseUnlink, StartUndone, CallOK
  <2>1. disturbed' = disturbed \cup (IF files[i].by \in {c, NoCall} THEN {} ELSE {i})
    BY <1>2, <2>0 DEF ReleaseUnlink, StartUndone, Unlink
  <2>2. calls'[c].held = 0
    BY <1>2, CallTypes, BecomesOne DEF ReleaseUnlink, StartUndone, Phases
  <2>3. calls[c].held \in {0, i} /\ \A d \in Calls : d # c => calls'[d].held = calls[d].held
    BY <2>0
  <2> QED BY <2>1, <2>2, <2>3, LoseStep
<1>3. CASE ReleaseStat(c)
  <2>0. PICK i \in Ids : i = calls[c].id
    BY <1>3, CallTypes DEF ReleaseStat, CallOK
  <2>1. disturbed' = disturbed
    BY <1>3 DEF ReleaseStat
  <2>2. calls'[c].held \in {0, calls[c].held}
    BY <1>3, CallTypes, BecomesOne, GoOne DEF ReleaseStat, Phases
  <2>3. calls[c].held \in {0, i} /\ \A d \in Calls : d # c => calls'[d].held = calls[d].held
    BY <2>0
  <2> QED BY <2>1, <2>2, <2>3, LoseStep
<1>4. CASE \E pc \in Phases : Go(c, pc) /\ disturbed' = disturbed
  BY <1>4, GoOne, SameHolders
<1>5. CASE Begin(c) \/ CheckBudget(c) \/ RecordFails(c) \/ Spawn(c) \/ Start(c)
           \/ PromptRefused(c) \/ StartFails(c) \/ CorrectFails(c) \/ Retry(c) \/ End(c)
  BY <1>4, <1>5 DEF Begin, CheckBudget, RecordFails, Spawn, Start, PromptRefused, StartFails,
                    CorrectFails, Retry, End, Phases
<1>6. CASE Scan(c)
  <2>1. Candidate \in 0..MaxId /\ 0 \in 0..MaxId /\ 0 \in 0..MaxDay /\ disturbed' = disturbed
        /\ calls[c].held = 0
    BY <1>6, CallTypes DEF Scan, Without, Early
  <2>2. calls'[c].held = 0
    BY <1>6, <2>1, BecomesOne DEF Scan, Phases
  <2> QED BY <2>1, <2>2, SameHolders
<1>7. CASE TryCreate(c) /\ files[calls[c].id].kind # "none"
  <2>1. /\ Becomes(c, "scanned", calls[c].id + 1, 0, 0) /\ disturbed' = disturbed
        /\ calls[c].id + 1 \in 0..MaxId /\ 0 \in 0..MaxId /\ 0 \in 0..MaxDay
        /\ calls[c].held = 0
    BY <1>7, CallTypes, ConsultAssumption DEF TryCreate, CallOK, Ids, Without, Early
  <2>2. calls'[c].held = 0
    BY <2>1, BecomesOne DEF Phases
  <2> QED BY <2>1, <2>2, SameHolders
<1>8. CASE RecordStart(c) \/ Correct(c)
  <2>1. calls'[c].held = calls[c].held
    BY <1>8, CallTypes, BecomesOne DEF RecordStart, Correct, Phases
  <2>2. disturbed' = disturbed
    BY <1>8 DEF RecordStart, Correct
  <2> QED BY <2>1, <2>2, SameHolders
<1> QED BY <1>1, <1>2, <1>3, <1>5, <1>6, <1>7, <1>8 DEF CallStep

\* The claim of an id by a scan and an exclusive creation, its release by a look and a
\* removal, and the removal of old jobs by every bridge that starts give each id to one
\* call at a time (jobs.py:181-185), until under that id a file is removed by its name
\* after it became somebody else's; for any number of calls, bridges and crashes and
\* whatever fails.
THEOREM ConsultImplementsClaims == Spec => ImplementsClaims
<1>1. Init => IdClaims!Init
  BY DEF Init, Call, IdClaims!Init, Ids
<1>2. Init => ClaimsInv
  BY ClaimsInit
<1>3. ClaimsInv /\ [Next]_vars => ClaimsInv'
  BY ClaimsNext
<1>4. ClaimsInv /\ [Next]_vars => [IdClaims!Next]_HoldersNow
  <2> SUFFICES ASSUME ClaimsInv, [Next]_vars PROVE [IdClaims!Next]_HoldersNow
    OBVIOUS
  <2>0. TypeOK
    BY DEF ClaimsInv
  <2>1. CASE \E c \in Calls : CallStep(c)
    BY <2>1, ClaimStep
  <2>2. CASE UNCHANGED vars
    BY <2>2, SameHolders DEF vars
  <2>3. CASE \E long \in BOOLEAN : Midnight(long)
    BY <2>0, <2>3, MidnightCalls, SameHolders DEF Midnight
  <2>4. CASE \E b \in Bridges : PruneLook(b)
    BY <2>4, SameHolders DEF PruneLook
  <2>5. CASE \E b \in Bridges : PruneRecord(b) \/ PruneSide(b)
    <3>1. PICK b \in Bridges : PruneRecord(b) \/ PruneSide(b)
      BY <2>5
    <3>2. prune[b].doomed # NoCall /\ Pruned(b)
      BY <3>1 DEF PruneRecord, PruneSide
    <3>3. PICK c \in Calls, i \in Ids : c = prune[b].doomed /\ i = prune[b].at
      BY <2>0, <3>2, PrunedFacts
    <3>4. calls[c].held \in {0, i}
      BY <3>2, <3>3, HolderFacts DEF ClaimsInv, DoomedInv, DoomedOK
    <3>5. /\ calls'[c].held \in {0, calls[c].held}
          /\ \A d \in Calls : d # c => calls'[d].held = calls[d].held
      BY <2>0, <3>1, <3>3, UnlinkFacts DEF PruneSide
    <3>6. disturbed \subseteq disturbed' /\ disturbed' \subseteq disturbed \cup {i}
      BY <3>1, <3>3 DEF PruneRecord, PruneSide
    <3> QED BY <3>4, <3>5, <3>6, LoseStep
  <2>6. CASE \E b \in Bridges : Crash(b)
    BY <2>0, <2>6, CrashCalls, SameHolders DEF Crash
  <2> QED BY <2>1, <2>2, <2>3, <2>4, <2>5, <2>6 DEF Next, CallStep
<1>5. Spec => [][IdClaims!Next]_HoldersNow
  BY <1>2, <1>3, <1>4, PTL DEF Spec
<1> QED BY <1>1, <1>5, PTL DEF Spec, ImplementsClaims, IdClaims!Spec, HoldersNow

----------------------------------------------------------------------------
\* The ledger: what an entry adds to a count, and when the count of the day is right.

Count(lines, d, E) == Number(lines, EntriesOf(lines, d), E)

\* The positions whose entries a count counts.
Counted(lines, d, E) == {i \in EntriesOf(lines, d) : lines[i].event \in E}

LEMMA CountType ==
    ASSUME NEW lines \in Seq(Entries), NEW d, NEW E
    PROVE  /\ IsFiniteSet(Counted(lines, d, E))
           /\ Count(lines, d, E) = Cardinality(Counted(lines, d, E))
           /\ Count(lines, d, E) \in Nat
<1>1. DOMAIN lines = 1..Len(lines) /\ Len(lines) \in Nat
  BY LenProperties
<1>2. IsFiniteSet(1..Len(lines))
  BY <1>1, FS_Interval
<1>3. Counted(lines, d, E) \in SUBSET (1..Len(lines))
  BY <1>1 DEF Counted, EntriesOf
<1>4. IsFiniteSet(Counted(lines, d, E))
  BY <1>2, <1>3, FS_Subset
<1>5. Count(lines, d, E) = Cardinality(Counted(lines, d, E))
  BY DEF Count, Counted, Number
<1> QED BY <1>4, <1>5, FS_CardinalityType

\* An entry at the end of the file counts once, for its date and its event.
LEMMA CountAppend ==
    ASSUME NEW lines \in Seq(Entries), NEW e \in Entries, NEW d, NEW E
    PROVE  Count(Append(lines, e), d, E) =
              Count(lines, d, E) + (IF e.date = d /\ e.event \in E THEN 1 ELSE 0)
<1> DEFINE n == Len(lines) + 1
           more == Append(lines, e)
<1>1. /\ more \in Seq(Entries) /\ n \in Nat
      /\ DOMAIN lines = 1..Len(lines) /\ DOMAIN more = 1..n
      /\ \A i \in 1..Len(lines) : more[i] = lines[i]
      /\ more[n] = e
      /\ n \notin 1..Len(lines) /\ 1..n = (1..Len(lines)) \cup {n}
  BY AppendProperties, LenProperties
<1>2. IsFiniteSet(Counted(lines, d, E))
  BY CountType
<1>5. n \notin Counted(lines, d, E)
  BY <1>1 DEF Counted, EntriesOf
<1>6. /\ Count(lines, d, E) = Cardinality(Counted(lines, d, E))
      /\ Count(lines, d, E) \in Nat
      /\ Count(more, d, E) = Cardinality(Counted(more, d, E))
  BY <1>1, CountType
<1> HIDE DEF n, more
<1>3. CASE e.date = d /\ e.event \in E
  <2>1. Counted(more, d, E) = Counted(lines, d, E) \cup {n}
    BY <1>1, <1>3 DEF Counted, EntriesOf
  <2>2. Cardinality(Counted(more, d, E)) = Cardinality(Counted(lines, d, E)) + 1
    BY <1>2, <1>5, <2>1, FS_AddElement
  <2> QED BY <1>3, <1>6, <2>2 DEF more
<1>4. CASE ~(e.date = d /\ e.event \in E)
  <2>1. Counted(more, d, E) = Counted(lines, d, E)
    BY <1>1, <1>4 DEF Counted, EntriesOf
  <2> QED BY <1>4, <1>6, <2>1 DEF more
<1> QED BY <1>3, <1>4

\* A file in the order of its dates, with no date after today, ends in today's
\* entries: reading it from its end misses none.
LEMMA TodayEntries ==
    ASSUME NEW lines \in Seq(Entries), NEW now \in Days, Chronological(lines),
           \A i \in DOMAIN lines : lines[i].date <= now
    PROVE  EntriesToday(lines, now) = EntriesOf(lines, now)
<1>1. \A i \in DOMAIN lines : lines[i].date \in Nat /\ i \in Nat
  <2>1. DOMAIN lines = 1..Len(lines)
    BY LenProperties
  <2>2. \A i \in 1..Len(lines) : lines[i] \in Entries
    BY ElementOfSeq
  <2> QED BY <2>1, <2>2 DEF Entries, Days
<1>2. now \in Nat
  BY DEF Days
<1>3. ASSUME NEW i \in DOMAIN lines, lines[i].date = now, NEW k \in DOMAIN lines, k >= i
      PROVE  lines[k].date = now
  <2>1. CASE k = i
    BY <1>3, <2>1
  <2>2. CASE i < k
    BY <1>1, <1>2, <1>3, <2>2 DEF Chronological
  <2> QED BY <1>1, <1>3, <2>1, <2>2
<1>4. ASSUME NEW i \in DOMAIN lines PROVE i >= i
  BY <1>1
<1> QED BY <1>3, <1>4 DEF EntriesToday, EntriesOf

\* When the count leaves room below the limit, so do the first starts alone.
LEMMA RoomLeft ==
    ASSUME NEW lines \in Seq(Entries), NEW d, Net(lines, EntriesOf(lines, d)) < Limit
    PROVE  Count(lines, d, {"start"}) < Limit + Count(lines, d, {"spawn_failed"})
<1>1. Counted(lines, d, {"start"}) \in SUBSET Counted(lines, d, {"start", "retry"})
  BY DEF Counted
<1>2. Count(lines, d, {"start"}) <= Count(lines, d, {"start", "retry"})
  BY <1>1, CountType, FS_Subset
<1>3. /\ Count(lines, d, {"start"}) \in Nat /\ Count(lines, d, {"start", "retry"}) \in Nat
      /\ Count(lines, d, {"spawn_failed"}) \in Nat
  BY CountType
<1>4. Net(lines, EntriesOf(lines, d)) =
         IF Count(lines, d, {"start", "retry"}) > Count(lines, d, {"spawn_failed"})
         THEN Count(lines, d, {"start", "retry"}) - Count(lines, d, {"spawn_failed"}) ELSE 0
  BY DEF Net, Count
<1> QED BY <1>2, <1>3, <1>4, ConsultAssumption

----------------------------------------------------------------------------
\* The phases before the start entry: no day is charged.
Uncharged == {"idle", "begun", "scanned", "claimed", "checked"}

UnchargedInv == \A c \in Calls : calls[c].pc \in Uncharged => calls[c].date = 0

\* The starts and the failed starts of a day.
Starts(d) == Count(ledger, d, {"start"})
Failures(d) == Count(ledger, d, {"spawn_failed"})

ExactInv ==
    /\ TypeOK
    /\ UnchargedInv
    /\ \A d \in Days : /\ IsFiniteSet(Charged(d))
                       /\ Starts(d) = Cardinality(Charged(d)) + Failures(d)

\* A day that is not over has no entry of a later one.
NoLater == \A i \in DOMAIN ledger : ledger[i].date <= today

\* Between the check and the entry no other call has the ledger, and what was seen
\* is still so: the entries are those of the day of the check, or the day is new.
CheckedOK(c) == calls[c].pc = "checked" =>
    /\ \A d \in Calls : calls[d].pc = "checked" => d = c
    /\ Chronological(ledger) => Starts(today) < Limit + Failures(today)

BudgetInv ==
    /\ TypeOK
    /\ UnchargedInv
    /\ NoLater
    /\ \A c \in Calls : calls[c].date <= today
    /\ StartsWithinBudget
    /\ \A c \in Calls : CheckedOK(c)

\* What a step of a call is for the ledger: it leaves the count and its day alone,
\* enters its start, or takes it back.
NoCharge(c) ==
    /\ \/ ledger' = ledger
       \/ /\ LedgerFree
          /\ \E event \in {"retry", "finish"} :
                ledger' = Append(ledger, Entry(event, today, calls[c].id))
    /\ calls'[c].date = calls[c].date
    /\ calls'[c].pc \in Uncharged => calls[c].pc \in Uncharged
    /\ calls'[c].pc = "checked" =>
          LedgerFree /\ CallsToday(ledger, today) < Limit /\ ledger' = ledger
Charge(c) ==
    /\ calls[c].pc = "checked"
    /\ ledger' = Append(ledger, Entry("start", today, calls[c].id))
    /\ calls'[c].pc = "charged" /\ calls'[c].date = today
TakeBack(c) ==
    /\ LedgerFree
    /\ calls[c].pc = "failed"
    /\ ledger' = Append(ledger, Entry("spawn_failed", calls[c].date, calls[c].id))
    /\ calls'[c].pc = "refused" /\ calls'[c].date = 0

LEMMA CallKinds ==
    ASSUME TypeOK, UnchargedInv, NEW c \in Calls, CallStep(c)
    PROVE  /\ \A d \in Calls : d # c => calls'[d] = calls[d]
           /\ today' = today
           /\ NoCharge(c) \/ Charge(c) \/ TakeBack(c)
           /\ ~NoCharge(c) \/ ledger' # ledger => calls[c].id \in Ids
<1> USE CallTypes DEF CallOK
<1>0. calls[c].pc \in Uncharged => calls[c].date = 0
  BY DEF UnchargedInv
<1>1. CASE Begin(c)
  <2>1. PICK pc \in {"begun", "raised"} : Go(c, pc)
    BY <1>1 DEF Begin
  <2> QED BY <1>1, <2>1, GoOne DEF Begin, Phases, NoCharge, Uncharged
<1>2. CASE Scan(c)
  <2>1. Becomes(c, "scanned", Candidate, 0, 0) /\ Candidate \in Ids
    BY <1>2 DEF Scan
  <2> QED BY <1>0, <1>2, <2>1, BecomesOne DEF Scan, Phases, NoCharge, Uncharged
<1>3. CASE TryCreate(c)
  <2>1. PICK pc \in {"claimed", "scanned"}, i \in 0..MaxId, h \in 0..MaxId : Becomes(c, pc, i, 0, h)
    <3>1. calls[c].id \in Ids
      BY <1>3 DEF TryCreate
    <3>2. calls[c].id < MaxId => calls[c].id + 1 \in Ids
      BY <3>1, ConsultAssumption DEF Ids
    <3> QED BY <1>3, <3>1, <3>2 DEF TryCreate
  <2>2. /\ calls'[c].pc \in {"claimed", "scanned"} /\ calls'[c].date = 0
        /\ \A d \in Calls : d # c => calls'[d] = calls[d]
    BY <2>1, BecomesOne DEF Phases
  <2>3. ledger' = ledger /\ today' = today /\ calls[c].pc = "scanned"
    BY <1>3 DEF TryCreate
  <2> QED BY <1>0, <2>2, <2>3 DEF NoCharge, Uncharged
<1>4. CASE CheckBudget(c)
  <2>1. PICK pc \in {"checked", "refused"} :
           Go(c, pc) /\ (pc = "checked" => CallsToday(ledger, today) < Limit)
    BY <1>4 DEF CheckBudget
  <2>2. /\ calls'[c].pc = pc /\ calls'[c].date = calls[c].date
        /\ \A d \in Calls : d # c => calls'[d] = calls[d]
    BY <2>1, GoOne DEF Phases
  <2> QED BY <1>4, <2>1, <2>2 DEF CheckBudget, NoCharge, Uncharged
<1>5. CASE RecordStart(c)
  <2>1. calls'[c].pc = "charged" /\ calls'[c].date = today
        /\ \A d \in Calls : d # c => calls'[d] = calls[d]
    BY <1>5, BecomesOne DEF RecordStart, Phases
  <2> QED BY <1>5, <2>1 DEF RecordStart, Charge
<1>6. CASE Correct(c)
  <2>1. calls'[c].pc = "refused" /\ calls'[c].date = 0
        /\ \A d \in Calls : d # c => calls'[d] = calls[d]
    BY <1>6, BecomesOne DEF Correct, Phases
  <2> QED BY <1>6, <2>1 DEF Correct, TakeBack
<1>7. CASE ReleaseStat(c)
  <2>1. /\ calls'[c].date = calls[c].date /\ calls'[c].pc \in {"releasing", "raised"}
        /\ \A d \in Calls : d # c => calls'[d] = calls[d]
    <3>1. CASE Go(c, "releasing")
      BY <3>1, GoOne DEF Phases
    <3>2. CASE Becomes(c, "raised", calls[c].id, calls[c].date, 0)
      BY <3>2, BecomesOne DEF Phases
    <3> QED BY <1>7, <3>1, <3>2 DEF ReleaseStat
  <2> QED BY <1>7, <2>1 DEF ReleaseStat, NoCharge, Uncharged
<1>8. CASE StartUndone(c)
  <2>1. calls'[c].pc = "failed" /\ calls'[c].date = calls[c].date
        /\ \A d \in Calls : d # c => calls'[d] = calls[d]
    BY <1>8, BecomesOne DEF StartUndone, Phases
  <2> QED BY <1>8, <2>1 DEF StartUndone, NoCharge, Uncharged
<1>9. CASE ReleaseUnlink(c)
  <2>1. calls'[c].pc = "raised" /\ calls'[c].date = calls[c].date
        /\ \A d \in Calls : d # c => calls'[d] = calls[d]
    BY <1>9, BecomesOne DEF ReleaseUnlink, Phases
  <2> QED BY <1>9, <2>1 DEF ReleaseUnlink, NoCharge, Uncharged
<1>10. CASE Retry(c) \/ End(c)
  <2>1. PICK pc \in {"final", "ended"} : Go(c, pc)
    BY <1>10 DEF Retry, End
  <2>2. calls'[c].pc = pc /\ calls'[c].date = calls[c].date
        /\ \A d \in Calls : d # c => calls'[d] = calls[d]
    BY <2>1, GoOne DEF Phases
  <2>3. calls[c].id \in Ids
    BY <1>10 DEF Retry, End
  <2> QED BY <1>10, <2>2, <2>3 DEF Retry, End, NoCharge, Uncharged
<1>11. CASE RecordFails(c) \/ Spawn(c) \/ Start(c) \/ PromptRefused(c) \/ StartFails(c)
            \/ CorrectFails(c)
  <2>1. PICK pc \in {"refused", "spawned", "running", "failed", "failing", "uncorrected"} :
           Go(c, pc)
    BY <1>11 DEF RecordFails, Spawn, Start, PromptRefused, StartFails, CorrectFails
  <2>2. calls'[c].pc = pc /\ calls'[c].date = calls[c].date
        /\ \A d \in Calls : d # c => calls'[d] = calls[d]
    BY <2>1, GoOne DEF Phases
  <2> QED BY <1>11, <2>2 DEF RecordFails, Spawn, Start, PromptRefused, StartFails, CorrectFails, NoCharge,
                             Uncharged
<1> QED BY <1>1, <1>2, <1>3, <1>4, <1>5, <1>6, <1>7, <1>8, <1>9, <1>10, <1>11 DEF CallStep

\* What happens around a call: the ledger stays, every day too, and nobody comes
\* before its start entry.
Around ==
    /\ ledger' = ledger
    /\ today' \in Days /\ today' >= today
    /\ \A c \in Calls :
          /\ calls'[c].date = calls[c].date
          /\ \/ calls'[c].pc = calls[c].pc
             \/ calls'[c].pc \notin Uncharged

LEMMA AroundKinds ==
    ASSUME TypeOK, [Next]_vars, ~\E c \in Calls : CallStep(c)
    PROVE  Around
<1>0. today \in Days /\ today >= today
  BY DEF TypeOK, Days
<1>1. CASE \E long \in BOOLEAN : Midnight(long)
  <2>1. PICK long \in BOOLEAN : Midnight(long)
    BY <1>1
  <2>2. ledger' = ledger /\ today' \in Days /\ today' >= today
    BY <2>1, <1>0, ConsultAssumption DEF Midnight, Days
  <2> QED BY <2>1, <2>2, MidnightCalls DEF Around, Uncharged
<1>2. CASE \E b \in Bridges : Crash(b)
  <2>1. PICK b \in Bridges : Crash(b)
    BY <1>2
  <2>2. ledger' = ledger /\ today' = today
    BY <2>1 DEF Crash
  <2> QED BY <1>0, <2>1, <2>2, CrashCalls DEF Around, Uncharged
<1>3. CASE \E b \in Bridges : PruneRecord(b)
  <2>1. PICK b \in Bridges : PruneRecord(b)
    BY <1>3
  <2>2. ledger' = ledger /\ today' = today
    BY <2>1 DEF PruneRecord
  <2> QED BY <1>0, <2>1, <2>2, UnlinkFacts DEF Around
<1>4. CASE \E b \in Bridges : PruneLook(b) \/ PruneSide(b)
  BY <1>0, <1>4 DEF PruneLook, PruneSide, Around
<1>5. CASE UNCHANGED vars
  BY <1>0, <1>5 DEF vars, Around
<1> QED BY <1>1, <1>2, <1>3, <1>4, <1>5 DEF Next, CallStep

LEMMA UnchargedNext ==
    ASSUME TypeOK, UnchargedInv, [Next]_vars
    PROVE  UnchargedInv'
<1>1. CASE \E c \in Calls : CallStep(c)
  <2>1. PICK c \in Calls : CallStep(c)
    BY <1>1
  <2>2. /\ \A d \in Calls : d # c => calls'[d] = calls[d]
        /\ NoCharge(c) \/ Charge(c) \/ TakeBack(c)
    BY <2>1, CallKinds
  <2>3. calls'[c].pc \in Uncharged => calls'[c].date = 0
    <3>1. CASE NoCharge(c)
      BY <3>1 DEF NoCharge, UnchargedInv
    <3>2. CASE Charge(c) \/ TakeBack(c)
      BY <3>2 DEF Charge, TakeBack, Uncharged
    <3> QED BY <2>2, <3>1, <3>2
  <2> QED BY <2>2, <2>3 DEF UnchargedInv
<1>2. CASE ~\E c \in Calls : CallStep(c)
  BY <1>2, AroundKinds DEF Around, UnchargedInv
<1> QED BY <1>1, <1>2

\* An entry of a call in the ledger, and what it does to the counts.
LEMMA EntryCounts ==
    ASSUME TypeOK, NEW event \in Events, NEW date \in Days, NEW job \in Ids,
           ledger' = Append(ledger, Entry(event, date, job)), NEW d
    PROVE  /\ Starts(d)' = Starts(d) + (IF date = d /\ event = "start" THEN 1 ELSE 0)
           /\ Failures(d)' = Failures(d) + (IF date = d /\ event = "spawn_failed" THEN 1 ELSE 0)
<1> DEFINE e == Entry(event, date, job)
<1>1. e \in Entries /\ e.date = date /\ e.event = event
  BY DEF Entry, Entries
<1>2. ledger \in Seq(Entries) /\ ledger' = Append(ledger, e)
  BY DEF TypeOK
<1> HIDE DEF e
<1>3. \A E : Count(Append(ledger, e), d, E) =
                Count(ledger, d, E) + (IF date = d /\ event \in E THEN 1 ELSE 0)
  BY <1>1, <1>2, CountAppend
<1>4. /\ Count(ledger', d, {"start"}) =
            Count(ledger, d, {"start"}) + (IF date = d /\ event \in {"start"} THEN 1 ELSE 0)
      /\ Count(ledger', d, {"spawn_failed"}) =
            Count(ledger, d, {"spawn_failed"}) + (IF date = d /\ event \in {"spawn_failed"} THEN 1 ELSE 0)
  BY <1>2, <1>3
<1> QED BY <1>4 DEF Starts, Failures

LEMMA CountsTyped ==
    ASSUME TypeOK, NEW d
    PROVE  Starts(d) \in Nat /\ Failures(d) \in Nat
  BY CountType DEF TypeOK, Starts, Failures

----------------------------------------------------------------------------
LEMMA ExactCall ==
    ASSUME ExactInv, NEW c \in Calls, CallStep(c), NEW d \in Days
    PROVE  /\ IsFiniteSet(Charged(d)')
           /\ Starts(d)' = Cardinality(Charged(d)') + Failures(d)'
<1>0. /\ TypeOK /\ UnchargedInv
      /\ IsFiniteSet(Charged(d)) /\ Starts(d) = Cardinality(Charged(d)) + Failures(d)
      /\ Cardinality(Charged(d)) \in Nat /\ Starts(d) \in Nat /\ Failures(d) \in Nat
  BY CountsTyped, FS_CardinalityType DEF ExactInv
<1>1. /\ \A b \in Calls : b # c => calls'[b] = calls[b]
      /\ today' = today
      /\ NoCharge(c) \/ Charge(c) \/ TakeBack(c)
      /\ ~NoCharge(c) \/ ledger' # ledger => calls[c].id \in Ids
  BY <1>0, CallKinds
<1>2. today \in Days /\ d # 0
  BY <1>0 DEF TypeOK, Days
<1>3. CASE NoCharge(c)
  <2>1. Charged(d)' = Charged(d)
    BY <1>1, <1>3 DEF NoCharge, Charged
  <2>2. CASE ledger' = ledger
    BY <1>0, <2>1, <2>2 DEF Starts, Failures
  <2>3. CASE ledger' # ledger
    <3>1. PICK event \in {"retry", "finish"} :
             ledger' = Append(ledger, Entry(event, today, calls[c].id))
      BY <1>3, <2>3 DEF NoCharge
    <3>2. event \in Events /\ event # "start" /\ event # "spawn_failed"
      BY DEF Events
    <3>3. Starts(d)' = Starts(d) /\ Failures(d)' = Failures(d)
      BY <1>0, <1>1, <1>2, <2>3, <3>1, <3>2, EntryCounts
    <3> QED BY <1>0, <2>1, <3>3
  <2> QED BY <2>2, <2>3
<1>4. CASE Charge(c)
  <2>0. calls[c].id \in Ids /\ "start" \in Events /\ calls[c].date = 0
    BY <1>0, <1>1, <1>4, CallTypes DEF Charge, CallOK, Events, UnchargedInv, Uncharged
  <2>1. Starts(d)' = Starts(d) + (IF today = d THEN 1 ELSE 0) /\ Failures(d)' = Failures(d)
    BY <1>0, <1>2, <1>4, <2>0, EntryCounts DEF Charge
  <2>2. CASE today = d
    <3>1. Charged(d)' = Charged(d) \cup {c} /\ c \notin Charged(d)
      BY <1>1, <1>2, <1>4, <2>0, <2>2 DEF Charge, Charged
    <3>2. IsFiniteSet(Charged(d)') /\ Cardinality(Charged(d)') = Cardinality(Charged(d)) + 1
      BY <1>0, <3>1, FS_AddElement
    <3> QED BY <1>0, <2>1, <2>2, <3>2
  <2>3. CASE today # d
    <3>1. Charged(d)' = Charged(d)
      BY <1>1, <1>2, <1>4, <2>0, <2>3 DEF Charge, Charged
    <3> QED BY <1>0, <2>1, <2>3, <3>1
  <2> QED BY <2>2, <2>3
<1>5. CASE TakeBack(c)
  <2> DEFINE day == calls[c].date
  <2>0. calls[c].id \in Ids /\ "spawn_failed" \in Events /\ day \in Days
    BY <1>0, <1>1, <1>5, CallTypes DEF TakeBack, CallOK, Events
  <2>1. Starts(d)' = Starts(d) /\ Failures(d)' = Failures(d) + (IF day = d THEN 1 ELSE 0)
    BY <1>0, <1>5, <2>0, EntryCounts DEF TakeBack
  <2>2. CASE day = d
    <3>1. Charged(d)' = Charged(d) \ {c} /\ c \in Charged(d)
      BY <1>1, <1>2, <1>5, <2>2 DEF TakeBack, Charged
    <3>2. IsFiniteSet(Charged(d)') /\ Cardinality(Charged(d)') = Cardinality(Charged(d)) - 1
      BY <1>0, <3>1, FS_RemoveElement
    <3> QED BY <1>0, <2>1, <2>2, <3>2
  <2>3. CASE day # d
    <3>1. Charged(d)' = Charged(d)
      BY <1>1, <1>2, <1>5, <2>3 DEF TakeBack, Charged
    <3> QED BY <1>0, <2>1, <2>3, <3>1
  <2> QED BY <2>2, <2>3
<1> QED BY <1>1, <1>3, <1>4, <1>5

LEMMA NothingEntered ==
    ASSUME Init, NEW d, NEW E
    PROVE  Count(ledger, d, E) = 0 /\ DOMAIN ledger = {}
<1>1. ledger = <<>> /\ DOMAIN ledger = {} /\ ledger \in Seq(Entries)
  BY EmptySeq DEF Init
<1>2. Counted(ledger, d, E) = {}
  BY <1>1 DEF Counted, EntriesOf
<1>3. Count(ledger, d, E) = Cardinality(Counted(ledger, d, E))
  BY <1>1, CountType
<1> QED BY <1>1, <1>2, <1>3, FS_EmptySet

LEMMA NobodyStarted ==
    ASSUME Init, NEW c \in Calls
    PROVE  calls[c].pc = "idle" /\ calls[c].date = 0
  BY DEF Init, Call

\* The starts of a day less its failed ones are the calls charged to it: a failure
\* is taken from the day of its start, also after midnight (budget.py:117-119),
\* whatever fails, for any number of calls, bridges, days and crashes.
THEOREM LedgerIsExact == Spec => []LedgerExact
<1>1. Init => ExactInv
  <2> SUFFICES ASSUME Init PROVE ExactInv
    OBVIOUS
  <2>1. TypeOK /\ UnchargedInv
    BY TypeInit, NobodyStarted DEF UnchargedInv
  <2>2. ASSUME NEW d \in Days
        PROVE  /\ IsFiniteSet(Charged(d))
               /\ Starts(d) = Cardinality(Charged(d)) + Failures(d)
    <3>1. Charged(d) = {}
      BY NobodyStarted DEF Charged, Days
    <3> QED BY <3>1, NothingEntered, FS_EmptySet DEF Starts, Failures
  <2> QED BY <2>1, <2>2 DEF ExactInv
<1>2. ExactInv /\ [Next]_vars => ExactInv'
  <2> SUFFICES ASSUME ExactInv, [Next]_vars PROVE ExactInv'
    OBVIOUS
  <2>0. TypeOK /\ UnchargedInv
    BY DEF ExactInv
  <2>1. TypeOK' /\ UnchargedInv'
    BY <2>0, TypeNext, UnchargedNext
  <2>2. ASSUME NEW d \in Days
        PROVE  (/\ IsFiniteSet(Charged(d))
                /\ Starts(d) = Cardinality(Charged(d)) + Failures(d))'
    <3>1. CASE \E c \in Calls : CallStep(c)
      BY <3>1, ExactCall
    <3>2. CASE ~\E c \in Calls : CallStep(c)
      <4>1. Around
        BY <2>0, <3>2, AroundKinds
      <4>2. Charged(d)' = Charged(d) /\ Starts(d)' = Starts(d) /\ Failures(d)' = Failures(d)
        BY <4>1 DEF Around, Charged, Starts, Failures
      <4> QED BY <4>2 DEF ExactInv
    <3> QED BY <3>1, <3>2
  <2> QED BY <2>1, <2>2 DEF ExactInv, Days
<1>3. ExactInv => LedgerExact
  BY DEF ExactInv, LedgerExact, Starts, Failures, Count
<1> QED BY <1>1, <1>2, <1>3, PTL DEF Spec

----------------------------------------------------------------------------
\* The ledger was in the order of its dates before the entry, if it is after it.
LEMMA OrderBefore ==
    ASSUME NEW lines \in Seq(Entries), NEW e \in Entries, Chronological(Append(lines, e))
    PROVE  Chronological(lines)
<1>1. /\ DOMAIN lines = 1..Len(lines) /\ DOMAIN Append(lines, e) = 1..(Len(lines) + 1)
      /\ Len(lines) \in Nat
      /\ \A i \in 1..Len(lines) : Append(lines, e)[i] = lines[i]
  BY AppendProperties, LenProperties
<1>2. 1..Len(lines) \subseteq 1..(Len(lines) + 1)
  BY <1>1
<1> QED BY <1>1, <1>2 DEF Chronological

LEMMA NoLaterAppend ==
    ASSUME TypeOK, NoLater, NEW event \in Events, NEW date \in Days, NEW job \in Ids,
           date <= today, ledger' = Append(ledger, Entry(event, date, job)), today' = today
    PROVE  NoLater'
<1> DEFINE e == Entry(event, date, job)
<1>1. e \in Entries /\ e.date = date /\ ledger \in Seq(Entries) /\ ledger' = Append(ledger, e)
  BY DEF Entry, Entries, TypeOK
<1> HIDE DEF e
<1>2. /\ DOMAIN ledger = 1..Len(ledger) /\ DOMAIN ledger' = 1..(Len(ledger) + 1)
      /\ Len(ledger) \in Nat
      /\ \A i \in 1..Len(ledger) : ledger'[i] = ledger[i]
      /\ ledger'[Len(ledger) + 1] = e
  BY <1>1, AppendProperties, LenProperties
<1>3. \A i \in DOMAIN ledger' : i \in DOMAIN ledger \/ i = Len(ledger) + 1
  BY <1>2
<1> QED BY <1>1, <1>2, <1>3 DEF NoLater

LEMMA OrderKept ==
    ASSUME TypeOK, NEW event \in Events, NEW date \in Days, NEW job \in Ids,
           ledger' = Append(ledger, Entry(event, date, job)), Chronological(ledger')
    PROVE  Chronological(ledger)
<1>1. Entry(event, date, job) \in Entries /\ ledger \in Seq(Entries)
  BY DEF Entry, Entries, TypeOK
<1> QED BY <1>1, OrderBefore

\* The budget of a day, in the counts of the proofs.
LEMMA BudgetReads ==
    StartsWithinBudget <=>
        (Chronological(ledger) => \A d \in Days : Starts(d) <= Limit + Failures(d))
  BY DEF StartsWithinBudget, Starts, Failures, Count

LEMMA BudgetReadsNext ==
    StartsWithinBudget' <=>
        (Chronological(ledger') => \A d \in Days : Starts(d)' <= Limit + Failures(d)')
  BY DEF StartsWithinBudget, Starts, Failures, Count

\* What the check sees is that today has room for a start.
LEMMA CheckSees ==
    ASSUME TypeOK, NoLater, CallsToday(ledger, today) < Limit, Chronological(ledger)
    PROVE  Starts(today) < Limit + Failures(today)
<1>1. ledger \in Seq(Entries) /\ today \in Days
  BY DEF TypeOK
<1>2. EntriesToday(ledger, today) = EntriesOf(ledger, today)
  BY <1>1, TodayEntries DEF NoLater
<1>3. Net(ledger, EntriesOf(ledger, today)) < Limit
  BY <1>2 DEF CallsToday
<1> QED BY <1>1, <1>3, RoomLeft DEF Starts, Failures

LEMMA BudgetNoCharge ==
    ASSUME BudgetInv, NEW c \in Calls, CallStep(c), NoCharge(c)
    PROVE  NoLater' /\ StartsWithinBudget' /\ \A b \in Calls : CheckedOK(b)'
<1>0. TypeOK /\ UnchargedInv /\ NoLater /\ StartsWithinBudget /\ today \in Days /\ today <= today
  BY DEF BudgetInv, TypeOK, Days
<1>1. /\ \A b \in Calls : b # c => calls'[b] = calls[b]
      /\ today' = today
      /\ ledger' # ledger => calls[c].id \in Ids
  BY <1>0, CallKinds
<1>2. /\ NoLater'
      /\ \A d \in Days : Starts(d)' = Starts(d) /\ Failures(d)' = Failures(d)
      /\ Chronological(ledger') => Chronological(ledger)
  <2>1. CASE ledger' = ledger
    BY <1>0, <1>1, <2>1 DEF NoLater, Starts, Failures
  <2>2. CASE ledger' # ledger
    <3>1. PICK event \in {"retry", "finish"} :
             ledger' = Append(ledger, Entry(event, today, calls[c].id))
      BY <2>2 DEF NoCharge
    <3>2. event \in Events /\ event # "start" /\ event # "spawn_failed"
      BY DEF Events
    <3>3. NoLater'
      BY <1>0, <1>1, <2>2, <3>1, <3>2, NoLaterAppend
    <3>4. Chronological(ledger') => Chronological(ledger)
      BY <1>0, <1>1, <2>2, <3>1, <3>2, OrderKept
    <3>5. \A d \in Days : Starts(d)' = Starts(d) /\ Failures(d)' = Failures(d)
      <4> SUFFICES ASSUME NEW d \in Days PROVE Starts(d)' = Starts(d) /\ Failures(d)' = Failures(d)
        OBVIOUS
      <4>1. Starts(d) \in Nat /\ Failures(d) \in Nat
        BY <1>0, CountsTyped
      <4> QED BY <1>0, <1>1, <2>2, <3>1, <3>2, <4>1, EntryCounts
    <3> QED BY <3>3, <3>4, <3>5
  <2> QED BY <2>1, <2>2
<1>3. StartsWithinBudget'
  BY <1>0, <1>2, BudgetReads, BudgetReadsNext
<1>4. ASSUME NEW b \in Calls, calls'[b].pc = "checked"
      PROVE  /\ \A d \in Calls : calls'[d].pc = "checked" => d = b
             /\ Chronological(ledger') => Starts(today)' < Limit + Failures(today)'
  <2>1. Starts(today)' = Starts(today) /\ Failures(today)' = Failures(today)
    BY <1>0, <1>1, <1>2 DEF Starts, Failures
  <2>2. CASE calls'[c].pc = "checked"
    <3>1. LedgerFree /\ CallsToday(ledger, today) < Limit
      BY <2>2 DEF NoCharge
    <3>2. \A d \in Calls : calls'[d].pc = "checked" => d = c
      BY <1>1, <3>1 DEF LedgerFree
    <3>3. Chronological(ledger') => Starts(today)' < Limit + Failures(today)'
      BY <1>0, <1>2, <2>1, <3>1, CheckSees
    <3> QED BY <1>4, <3>2, <3>3
  <2>3. CASE calls'[c].pc # "checked"
    <3>1. b # c /\ calls[b].pc = "checked" /\ CheckedOK(b)
      BY <1>1, <1>4, <2>3 DEF BudgetInv
    <3>2. \A d \in Calls : calls'[d].pc = "checked" => d = b
      BY <1>1, <2>3, <3>1 DEF CheckedOK
    <3>3. Chronological(ledger') => Starts(today)' < Limit + Failures(today)'
      BY <1>0, <1>2, <2>1, <3>1 DEF CheckedOK
    <3> QED BY <3>2, <3>3
  <2> QED BY <2>2, <2>3
<1> QED BY <1>2, <1>3, <1>4 DEF CheckedOK

LEMMA BudgetCharge ==
    ASSUME BudgetInv, NEW c \in Calls, CallStep(c), Charge(c)
    PROVE  NoLater' /\ StartsWithinBudget' /\ \A b \in Calls : CheckedOK(b)'
<1>0. TypeOK /\ UnchargedInv /\ NoLater /\ StartsWithinBudget /\ CheckedOK(c)
      /\ today \in Days /\ today <= today
  BY DEF BudgetInv, TypeOK, Days
<1>1. /\ \A b \in Calls : b # c => calls'[b] = calls[b]
      /\ today' = today
      /\ calls[c].id \in Ids
  BY <1>0, CallKinds, CallTypes DEF Charge, CallOK
<1>2. "start" \in Events /\ ledger' = Append(ledger, Entry("start", today, calls[c].id))
  BY DEF Events, Charge
<1>3. NoLater' /\ (Chronological(ledger') => Chronological(ledger))
  BY <1>0, <1>1, <1>2, NoLaterAppend, OrderKept
<1>4. StartsWithinBudget'
  <2> SUFFICES ASSUME Chronological(ledger'), NEW d \in Days
               PROVE  Starts(d)' <= Limit + Failures(d)'
    BY BudgetReadsNext
  <2>1. /\ Starts(d)' = Starts(d) + (IF today = d THEN 1 ELSE 0)
        /\ Failures(d)' = Failures(d)
    <3>1. Failures(d) \in Nat
      BY <1>0, CountsTyped
    <3> QED BY <1>0, <1>1, <1>2, <3>1, EntryCounts
  <2>2. Starts(d) \in Nat /\ Failures(d) \in Nat /\ Starts(d) <= Limit + Failures(d)
    BY <1>0, <1>3, CountsTyped, BudgetReads
  <2>3. Starts(today) < Limit + Failures(today)
    BY <1>0, <1>3 DEF CheckedOK, Charge
  <2> QED BY <2>1, <2>2, <2>3, ConsultAssumption
<1>5. \A b \in Calls : calls'[b].pc # "checked"
  BY <1>0, <1>1 DEF CheckedOK, Charge
<1> QED BY <1>3, <1>4, <1>5 DEF CheckedOK

LEMMA BudgetTakeBack ==
    ASSUME BudgetInv, NEW c \in Calls, CallStep(c), TakeBack(c)
    PROVE  NoLater' /\ StartsWithinBudget' /\ \A b \in Calls : CheckedOK(b)'
<1>0. TypeOK /\ UnchargedInv /\ NoLater /\ StartsWithinBudget /\ calls[c].date <= today
  BY DEF BudgetInv
<1>1. /\ \A b \in Calls : b # c => calls'[b] = calls[b]
      /\ today' = today
      /\ calls[c].id \in Ids /\ calls[c].date \in Days
  BY <1>0, CallKinds, CallTypes DEF TakeBack, CallOK
<1>2. /\ "spawn_failed" \in Events
      /\ ledger' = Append(ledger, Entry("spawn_failed", calls[c].date, calls[c].id))
  BY DEF Events, TakeBack
<1>3. StartsWithinBudget'
  <2> SUFFICES ASSUME Chronological(ledger'), NEW d \in Days
               PROVE  Starts(d)' <= Limit + Failures(d)'
    BY BudgetReadsNext
  <2>1. Starts(d) \in Nat /\ Failures(d) \in Nat
    BY <1>0, CountsTyped
  <2>2. /\ Starts(d)' = Starts(d)
        /\ Failures(d)' = Failures(d) + (IF calls[c].date = d THEN 1 ELSE 0)
    BY <1>0, <1>1, <1>2, <2>1, EntryCounts
  <2>3. Starts(d) <= Limit + Failures(d)
    BY <1>0, <1>1, <1>2, OrderKept, BudgetReads
  <2> QED BY <2>1, <2>2, <2>3, ConsultAssumption
<1>4. \A b \in Calls : calls'[b].pc # "checked"
  BY <1>1 DEF LedgerFree, TakeBack
<1>5. NoLater'
  BY <1>0, <1>1, <1>2, NoLaterAppend
<1> QED BY <1>3, <1>4, <1>5 DEF CheckedOK

\* A new day has no entry yet.
LEMMA NewDay ==
    ASSUME TypeOK, NoLater, NEW d \in Days, d > today
    PROVE  Starts(d) = 0 /\ Failures(d) = 0
<1>1. ledger \in Seq(Entries) /\ today \in Nat /\ d \in Nat
  BY DEF TypeOK, Days
<1>2. \A i \in DOMAIN ledger : ledger[i].date \in Nat
  <2>1. DOMAIN ledger = 1..Len(ledger)
    BY <1>1, LenProperties
  <2>2. \A i \in 1..Len(ledger) : ledger[i] \in Entries
    BY <1>1, ElementOfSeq
  <2> QED BY <2>1, <2>2 DEF Entries, Days
<1>3. EntriesOf(ledger, d) = {}
  BY <1>1, <1>2 DEF NoLater, EntriesOf
<1>4. \A E : Counted(ledger, d, E) = {} /\ Count(ledger, d, E) = Cardinality(Counted(ledger, d, E))
  BY <1>1, <1>3, CountType DEF Counted
<1> QED BY <1>4, FS_EmptySet DEF Starts, Failures

LEMMA BudgetAround ==
    ASSUME BudgetInv, Around
    PROVE  NoLater' /\ StartsWithinBudget' /\ \A b \in Calls : CheckedOK(b)'
<1>0. /\ TypeOK /\ NoLater /\ StartsWithinBudget
      /\ ledger' = ledger /\ today \in Nat /\ today' \in Days /\ today' \in Nat /\ today' >= today
      /\ ledger \in Seq(Entries)
  BY DEF BudgetInv, TypeOK, Around, Days
<1>1. \A i \in DOMAIN ledger : ledger[i].date \in Nat
  <2>1. DOMAIN ledger = 1..Len(ledger)
    BY <1>0, LenProperties
  <2>2. \A i \in 1..Len(ledger) : ledger[i] \in Entries
    BY <1>0, ElementOfSeq
  <2> QED BY <2>1, <2>2 DEF Entries, Days
<1>2. NoLater'
  BY <1>0, <1>1 DEF NoLater
<1>3. StartsWithinBudget'
  BY <1>0 DEF StartsWithinBudget, Days
<1>4. ASSUME NEW b \in Calls, calls'[b].pc = "checked"
      PROVE  /\ \A d \in Calls : calls'[d].pc = "checked" => d = b
             /\ Chronological(ledger') => Starts(today)' < Limit + Failures(today)'
  <2>1. \A d \in Calls : calls'[d].pc = "checked" => calls[d].pc = "checked"
    BY DEF Around, Uncharged
  <2>2. calls[b].pc = "checked" /\ CheckedOK(b)
    BY <1>4, <2>1 DEF BudgetInv
  <2>3. Starts(today)' = Starts(today') /\ Failures(today)' = Failures(today')
    BY <1>0 DEF Starts, Failures
  <2>4. CASE today' = today
    BY <1>0, <2>1, <2>2, <2>3, <2>4 DEF CheckedOK
  <2>5. CASE today' > today
    <3>1. Starts(today') = 0 /\ Failures(today') = 0
      BY <1>0, <2>5, NewDay
    <3> QED BY <2>1, <2>2, <2>3, <3>1, ConsultAssumption DEF CheckedOK
  <2> QED BY <1>0, <2>4, <2>5
<1> QED BY <1>2, <1>3, <1>4 DEF CheckedOK

LEMMA BudgetDates ==
    ASSUME BudgetInv, [Next]_vars, NEW c \in Calls
    PROVE  calls'[c].date <= today'
<1>0. /\ TypeOK /\ UnchargedInv /\ calls[c].date <= today
      /\ today \in Nat /\ 0 <= today /\ today <= today
      /\ calls[c].date \in Nat
  BY CallTypes DEF BudgetInv, TypeOK, Days
<1>1. CASE \E d \in Calls : CallStep(d)
  <2>1. PICK d \in Calls : CallStep(d)
    BY <1>1
  <2>2. /\ c # d => calls'[c] = calls[c]
        /\ today' = today
        /\ NoCharge(d) \/ Charge(d) \/ TakeBack(d)
    BY <1>0, <2>1, CallKinds
  <2> QED BY <1>0, <2>2 DEF NoCharge, Charge, TakeBack
<1>2. CASE ~\E d \in Calls : CallStep(d)
  <2>1. /\ calls'[c].date = calls[c].date /\ today' \in Days /\ today' >= today
    BY <1>0, <1>2, AroundKinds DEF Around
  <2> QED BY <1>0, <2>1 DEF Days
<1> QED BY <1>1, <1>2

\* No day starts more consultations than the budget while the ledger is in the order
\* of its dates (budget.py:172), for any number of calls, bridges, days and crashes
\* and whatever fails: the check and the entry are one critical section.
THEOREM BudgetIsKept == Spec => []StartsWithinBudget
<1>1. Init => BudgetInv
  <2> SUFFICES ASSUME Init PROVE BudgetInv
    OBVIOUS
  <2>1. TypeOK /\ UnchargedInv
    BY TypeInit, NobodyStarted DEF UnchargedInv
  <2>2. NoLater
    BY NothingEntered DEF NoLater
  <2>3. StartsWithinBudget
    <3>1. \A d \in Days : Starts(d) = 0 /\ Failures(d) = 0
      BY NothingEntered DEF Starts, Failures
    <3> QED BY <3>1, BudgetReads, ConsultAssumption
  <2>4. \A c \in Calls : calls[c].date <= today /\ CheckedOK(c)
    BY NobodyStarted DEF CheckedOK, Init
  <2> QED BY <2>1, <2>2, <2>3, <2>4 DEF BudgetInv
<1>2. BudgetInv /\ [Next]_vars => BudgetInv'
  <2> SUFFICES ASSUME BudgetInv, [Next]_vars PROVE BudgetInv'
    OBVIOUS
  <2>0. TypeOK /\ UnchargedInv
    BY DEF BudgetInv
  <2>1. TypeOK' /\ UnchargedInv'
    BY <2>0, TypeNext, UnchargedNext
  <2>2. \A c \in Calls : calls'[c].date <= today'
    BY BudgetDates
  <2>3. NoLater' /\ StartsWithinBudget' /\ \A c \in Calls : CheckedOK(c)'
    <3>1. CASE \E c \in Calls : CallStep(c)
      <4>1. PICK c \in Calls : CallStep(c)
        BY <3>1
      <4>2. NoCharge(c) \/ Charge(c) \/ TakeBack(c)
        BY <2>0, <4>1, CallKinds
      <4> QED BY <4>1, <4>2, BudgetNoCharge, BudgetCharge, BudgetTakeBack
    <3>2. CASE ~\E c \in Calls : CallStep(c)
      BY <2>0, <3>2, AroundKinds, BudgetAround
    <3> QED BY <3>1, <3>2
  <2> QED BY <2>1, <2>2, <2>3 DEF BudgetInv
<1>3. BudgetInv => StartsWithinBudget
  BY DEF BudgetInv
<1> QED BY <1>1, <1>2, <1>3, PTL DEF Spec
=============================================================================
