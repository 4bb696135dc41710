------------------------------ MODULE Sessions ------------------------------
(***************************************************************************)
(* The session map in sessions.json (src/src/agy_bridge/sessions.py) and   *)
(* the calls that work with it (agy_consult, agy_followup, agy_sessions in *)
(* server.py): a call asks for the conversation of its session, agy        *)
(* answers, and the answer is recorded by rewriting the whole file.        *)
(* Tokens, times and modes of a session are left out.                      *)
(***************************************************************************)
EXTENDS Naturals, FiniteSets

CONSTANTS
    Calls,          \* tool calls
    Bridges,        \* bridge processes
    Home,           \* [Calls -> Bridges]
    Names,          \* session ids
    MaxCrashes,     \* bound: bridge crashes
    MaxOutages,     \* bound: power losses
    Faults,         \* what may fail: "agy" (no answer), "io" (writing the file)
    NoName, NoConversation, None

ASSUME SessionsAssumption ==
    /\ Home \in [Calls -> Bridges]
    /\ MaxCrashes \in Nat /\ MaxOutages \in Nat
    /\ Faults \subseteq {"agy", "io"}
    /\ NoName \notin Names
    /\ NoConversation \notin Calls

VARIABLES
    file,       \* sessions.json: a map, or torn
    tmp,        \* sessions.json.tmp, which all writers share
    calls,      \* [Calls -> CallStates]
    crashes, outages

vars == <<file, tmp, calls, crashes, outages>>

\* A new conversation is named after the call that began it.
Conversations == Calls \cup {NoConversation}
Metas == [conversation : Conversations, turns : Nat \ {0}]
Maps == [Names -> Metas \cup {None}]
Empty == [s \in Names |-> None]

\* A file is a map (in a set of one, to compare it with the others), torn, or not there.
Whole(m) == [state |-> "whole", map |-> m]
Torn == [state |-> "torn", map |-> Empty]
NoFile == [state |-> "none", map |-> Empty]
FileStates == [state : {"whole", "torn", "none"}, map : Maps]

Phases == {"idle", "asked", "answered", "loaded", "writing", "written", "done", "dead"}
CallStates ==
    [pc : Phases,
     at : Bridges,      \* the bridge whose thread works on the call
     session : Names \cup {NoName},
     conversation : Conversations,
     mine : Maps]       \* the map read, changed and about to be saved

Call(pc, b, s, v, m) ==
    [pc |-> pc, at |-> b, session |-> s, conversation |-> v, mine |-> m]
Becomes(c, pc, s, v, m) == calls' = [calls EXCEPT ![c] = Call(pc, calls[c].at, s, v, m)]
Go(c, pc) == Becomes(c, pc, calls[c].session, calls[c].conversation, calls[c].mine)

Holding == {"loaded", "writing", "written"}

\* Mutant: no lock.
LockFreeAlways == TRUE

\* _exclusive: flock, then the thread lock.
LockFree == \A c \in Calls : calls[c].pc \notin Holding

\* _load: a torn file is renamed to a backup, and the map begins anew.
Loaded == file.map
Quarantine == file' = IF file.state = "torn" THEN NoFile ELSE file

----------------------------------------------------------------------------
Init ==
    /\ file = NoFile
    /\ tmp = NoFile
    /\ calls = [c \in Calls |-> Call("idle", Home[c], NoName, NoConversation, Empty)]
    /\ crashes = 0 /\ outages = 0

\* A consultation of session s resolves its conversation; an unknown session begins one.
Consult(c, s) ==
    /\ calls[c].pc = "idle" /\ LockFree
    /\ Quarantine
    /\ LET v == IF Loaded[s] = None THEN NoConversation ELSE Loaded[s].conversation
       IN  Becomes(c, "asked", s, v, Empty)
    /\ UNCHANGED <<tmp, crashes, outages>>

\* A follow-up refuses an unknown session.
Followup(c, s) ==
    /\ calls[c].pc = "idle" /\ LockFree
    /\ Quarantine
    /\ \/ /\ Loaded[s] # None
          /\ Becomes(c, "asked", s, Loaded[s].conversation, Empty)
       \/ /\ Loaded[s] = None
          /\ Becomes(c, "done", s, NoConversation, Empty)
    /\ UNCHANGED <<tmp, crashes, outages>>

\* agy names the conversation it answered in, or none.  The bridge that watches the
\* job collects the answer, or any that asks for the job.
Answer(c) ==
    /\ calls[c].pc = "asked"
    /\ \E v \in {c, calls[c].conversation, NoConversation}, b \in Bridges :
          calls' = [calls EXCEPT ![c] = Call("answered", b, calls[c].session, v, Empty)]
    /\ UNCHANGED <<file, tmp, crashes, outages>>

\* A job without a result records no use.
NoAnswer(c) ==
    /\ "agy" \in Faults
    /\ calls[c].pc = "asked"
    /\ Go(c, "done")
    /\ UNCHANGED <<file, tmp, crashes, outages>>

\* Mutant: the turn is not counted.
UsedUncounted(m, s, v) ==
    LET old == IF m[s] = None THEN [conversation |-> v, turns |-> 0] ELSE m[s]
        now == IF v = NoConversation THEN old.conversation ELSE v
    IN  [m EXCEPT ![s] = [conversation |-> now, turns |-> old.turns]]

\* The map after one more turn of s: conversation_id or the one it had.
Used(m, s, v) ==
    LET old == IF m[s] = None THEN [conversation |-> v, turns |-> 0] ELSE m[s]
        now == IF v = NoConversation THEN old.conversation ELSE v
    IN  [m EXCEPT ![s] = [conversation |-> now, turns |-> old.turns + 1]]

\* record_use, up to the save.
LoadUse(c) ==
    LET s == calls[c].session  v == calls[c].conversation IN
    /\ calls[c].pc = "answered" /\ LockFree
    /\ Quarantine
    /\ Becomes(c, "loaded", s, v, Used(Loaded, s, v))
    /\ UNCHANGED <<tmp, crashes, outages>>

\* close, up to the save, if the session is there.
LoadClose(c, s) ==
    /\ calls[c].pc = "idle" /\ LockFree
    /\ Quarantine
    /\ \/ /\ Loaded[s] # None
          /\ Becomes(c, "loaded", s, NoConversation, [Loaded EXCEPT ![s] = None])
       \/ /\ Loaded[s] = None
          /\ Becomes(c, "done", s, NoConversation, Empty)
    /\ UNCHANGED <<tmp, crashes, outages>>

----------------------------------------------------------------------------
\* Mutant: the file itself is written.
TruncateInPlace(c) ==
    /\ calls[c].pc = "loaded"
    /\ file' = Torn /\ tmp' = Torn
    /\ Go(c, "writing")
    /\ UNCHANGED <<crashes, outages>>

\* _save: the temporary file is truncated, filled, and takes the place of the map.
Truncate(c) ==
    /\ calls[c].pc = "loaded"
    /\ tmp' = Torn
    /\ Go(c, "writing")
    /\ UNCHANGED <<file, crashes, outages>>

Fill(c) ==
    /\ calls[c].pc = "writing"
    /\ tmp' = Whole(calls[c].mine)
    /\ Go(c, "written")
    /\ UNCHANGED <<file, crashes, outages>>

Replace(c) ==
    /\ calls[c].pc = "written" /\ tmp.state # "none"
    /\ file' = tmp /\ tmp' = NoFile
    /\ Go(c, "done")
    /\ UNCHANGED <<crashes, outages>>

\* The disk is full: the exception frees the lock and leaves both files as they are.
SaveFails(c) ==
    /\ "io" \in Faults
    /\ calls[c].pc = "writing"
    /\ Go(c, "done")
    /\ UNCHANGED <<file, tmp, crashes, outages>>

----------------------------------------------------------------------------
\* What bridge b works on dies with it, its lock too; agy runs on.
InBridge == {"answered"} \cup Holding

Kill(C) == calls' = [c \in Calls |->
    IF c \in C THEN Call("dead", calls[c].at, calls[c].session, calls[c].conversation, Empty)
    ELSE calls[c]]

Crash(b) ==
    /\ crashes < MaxCrashes
    /\ crashes' = crashes + 1
    /\ Kill({c \in Calls : calls[c].at = b /\ calls[c].pc \in InBridge})
    /\ UNCHANGED <<file, tmp, outages>>

\* Nothing is synced before the rename: an outage may leave the file torn.
Outage ==
    /\ outages < MaxOutages
    /\ outages' = outages + 1
    /\ Kill({c \in Calls : calls[c].pc \in InBridge \cup {"asked"}})
    /\ file' \in {file, Torn}
    /\ UNCHANGED <<tmp, crashes>>

Next ==
    \/ \E c \in Calls :
          \/ \E s \in Names : Consult(c, s) \/ Followup(c, s) \/ LoadClose(c, s)
          \/ Answer(c) \/ NoAnswer(c) \/ LoadUse(c)
          \/ Truncate(c) \/ Fill(c) \/ Replace(c) \/ SaveFails(c)
    \/ \E b \in Bridges : Crash(b)
    \/ Outage

Spec == Init /\ [][Next]_vars

----------------------------------------------------------------------------
\* The state the program can be in; a session on disk has had a turn, and only a
\* whole file holds a map.
TypeOK ==
    /\ file \in FileStates /\ tmp \in FileStates
    /\ calls \in [Calls -> CallStates]
    /\ crashes \in 0..MaxCrashes /\ outages \in 0..MaxOutages
    /\ \A f \in {file, tmp} : f.state # "whole" => f.map = Empty
    /\ \A c \in Calls : calls[c].pc \in {"asked", "answered"} \cup Holding =>
          calls[c].session \in Names

\* A bridge that dies, fails to write or overlaps with another while saving never
\* leaves a torn sessions.json: only an outage does (sessions.py:59-64).
SavesWhole == [][file'.state = "torn" /\ file.state # "torn" => outages' = outages + 1]_vars

\* No update is lost: uses and closes of all bridges take effect one at a time, each
\* on its own session (sessions.py:27-30: "lost update").
Map == INSTANCE SessionMap WITH map <- file.map
ImplementsMap == Map!Spec
=============================================================================
