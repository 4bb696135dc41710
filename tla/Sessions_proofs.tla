--------------------------- MODULE Sessions_proofs ---------------------------
(***************************************************************************)
(* Sessions loses no update and tears no file, for any number of calls,    *)
(* bridges and sessions, crashes and outages.                              *)
(***************************************************************************)
EXTENDS Sessions, TLAPS

\* m with one more turn of s in conversation v.
Turn(m, s, v) == [m EXCEPT ![s] =
    IF @ = None THEN [conversation |-> v, turns |-> 1]
                ELSE [conversation |-> v, turns |-> @.turns + 1]]

Without(m, s) == [m EXCEPT ![s] = None]

\* n is m after one use or one close.
OneChange(m, n) ==
    \/ \E s \in Names, v \in Conversations : n = Turn(m, s, v)
    \/ \E s \in Names : m[s] # None /\ n = Without(m, s)

\* Only one call is between its load and its save.
Alone == \A c, d \in Calls : calls[c].pc \in Holding /\ calls[d].pc \in Holding => c = d

\* What it is about to save is one change away from the file.
Fresh == \A c \in Calls : calls[c].pc \in Holding => OneChange(file.map, calls[c].mine)

\* The temporary file is its own.
TmpWhole == \A c \in Calls : calls[c].pc = "written" => tmp = Whole(calls[c].mine)

SaveInv == TypeOK /\ Alone /\ Fresh /\ TmpWhole

CallOK(c) == calls[c].pc \in {"asked", "answered"} \cup Holding => calls[c].session \in Names

----------------------------------------------------------------------------
LEMMA EmptyMap == Empty \in Maps
  BY DEF Empty, Maps

LEMMA FileKinds ==
    /\ Torn \in FileStates /\ NoFile \in FileStates
    /\ Torn.map = Empty /\ NoFile.map = Empty /\ NoFile.state = "none" /\ Torn.state = "torn"
    /\ \A m \in Maps : Whole(m) \in FileStates /\ Whole(m).map = m /\ Whole(m).state = "whole"
  BY EmptyMap DEF Torn, NoFile, Whole, FileStates

\* record_use changes the map by one turn, and it remains a map.
LEMMA UsedIsTurn ==
    ASSUME NEW m \in Maps, NEW s \in Names, NEW v \in Conversations
    PROVE  /\ Used(m, s, v) \in Maps
           /\ OneChange(m, Used(m, s, v))
<1>1. m[s] \in Metas \cup {None}
  BY DEF Maps
<1>2. CASE m[s] = None
  <2> DEFINE r == [conversation |-> v, turns |-> 1]
  <2>1. Used(m, s, v) = [m EXCEPT ![s] = r]
    BY <1>2 DEF Used
  <2>2. Turn(m, s, v) = [m EXCEPT ![s] = r]
    BY <1>2 DEF Turn
  <2>3. r \in Metas
    BY DEF Metas
  <2>4. [m EXCEPT ![s] = r] \in Maps
    BY <2>3 DEF Maps
  <2> QED BY <2>1, <2>2, <2>4 DEF OneChange
<1>3. CASE m[s] # None
  <2>1. m[s] \in Metas
    BY <1>1, <1>3
  <2>2. m[s].conversation \in Conversations /\ m[s].turns \in Nat \ {0}
    BY <2>1 DEF Metas
  <2>3. PICK w \in Conversations : w = IF v = NoConversation THEN m[s].conversation ELSE v
    BY <2>2
  <2> DEFINE r == [conversation |-> w, turns |-> m[s].turns + 1]
  <2>4. Used(m, s, v) = [m EXCEPT ![s] = r]
    BY <1>3, <2>3 DEF Used
  <2>5. Turn(m, s, w) = [m EXCEPT ![s] = r]
    BY <1>3 DEF Turn
  <2>6. r \in Metas
    BY <2>2 DEF Metas
  <2>7. [m EXCEPT ![s] = r] \in Maps
    BY <2>6 DEF Maps
  <2> QED BY <2>4, <2>5, <2>7 DEF OneChange
<1> QED BY <1>2, <1>3

LEMMA CloseIsChange ==
    ASSUME NEW m \in Maps, NEW s \in Names, m[s] # None
    PROVE  Without(m, s) \in Maps /\ OneChange(m, Without(m, s))
  BY DEF Without, Maps, OneChange

\* Renaming a torn file away changes no map.
LEMMA QuarantineKeeps ==
    ASSUME TypeOK, Quarantine
    PROVE  /\ file' \in FileStates /\ file'.map = file.map
           /\ file'.state # "torn"
           /\ file'.state # "whole" => file'.map = Empty
<1>1. CASE file.state = "torn"
  BY <1>1, FileKinds DEF TypeOK, Quarantine
<1>2. CASE file.state # "torn"
  BY <1>2 DEF TypeOK, Quarantine
<1> QED BY <1>1, <1>2

LEMMA CallTypes ==
    ASSUME TypeOK, NEW c \in Calls
    PROVE  /\ calls[c].pc \in Phases /\ calls[c].at \in Bridges
           /\ calls[c].session \in Names \cup {NoName}
           /\ calls[c].conversation \in Conversations /\ calls[c].mine \in Maps
           /\ CallOK(c)
<1>1. calls[c] \in CallStates
  BY DEF TypeOK
<1> QED BY <1>1 DEF CallStates, CallOK, TypeOK

----------------------------------------------------------------------------
\* A step of call c changes c's state and nobody else's.
LEMMA BecomesOne ==
    ASSUME TypeOK, NEW c \in Calls,
           NEW pc \in Phases, NEW b \in Bridges, NEW s \in Names \cup {NoName},
           NEW v \in Conversations, NEW m \in Maps,
           calls' = [calls EXCEPT ![c] = Call(pc, b, s, v, m)]
    PROVE  /\ calls' \in [Calls -> CallStates]
           /\ calls'[c].pc = pc /\ calls'[c].session = s /\ calls'[c].mine = m
           /\ \A d \in Calls : d # c => calls'[d] = calls[d]
<1> DEFINE rec == Call(pc, b, s, v, m)
<1>1. rec \in CallStates
  BY DEF Call, CallStates
<1>2. calls \in [Calls -> CallStates]
  BY DEF TypeOK
<1>3. rec.pc = pc /\ rec.session = s /\ rec.mine = m
  BY DEF Call
<1>4. calls' = [calls EXCEPT ![c] = rec]
  OBVIOUS
<1> HIDE DEF rec
<1> QED BY <1>1, <1>2, <1>3, <1>4

LEMMA BecomesHere ==
    ASSUME TypeOK, NEW c \in Calls,
           NEW pc \in Phases, NEW s \in Names \cup {NoName},
           NEW v \in Conversations, NEW m \in Maps,
           Becomes(c, pc, s, v, m)
    PROVE  /\ calls' \in [Calls -> CallStates]
           /\ calls'[c].pc = pc /\ calls'[c].session = s /\ calls'[c].mine = m
           /\ \A d \in Calls : d # c => calls'[d] = calls[d]
<1>1. PICK b \in Bridges : b = calls[c].at
  BY CallTypes
<1>2. calls' = [calls EXCEPT ![c] = Call(pc, b, s, v, m)]
  BY <1>1 DEF Becomes
<1> QED BY <1>2, BecomesOne

LEMMA GoOne ==
    ASSUME TypeOK, NEW c \in Calls, NEW pc \in Phases, Go(c, pc)
    PROVE  /\ calls' \in [Calls -> CallStates]
           /\ calls'[c].pc = pc
           /\ calls'[c].session = calls[c].session /\ calls'[c].mine = calls[c].mine
           /\ \A d \in Calls : d # c => calls'[d] = calls[d]
<1>1. PICK s \in Names \cup {NoName}, v \in Conversations, m \in Maps :
          s = calls[c].session /\ v = calls[c].conversation /\ m = calls[c].mine
  BY CallTypes
<1>2. Becomes(c, pc, s, v, m)
  BY <1>1 DEF Go
<1> QED BY <1>1, <1>2, BecomesHere

\* The state after one call's step, in parts.
LEMMA TypeStep ==
    ASSUME TypeOK, NEW c \in Calls,
           calls' \in [Calls -> CallStates],
           \A d \in Calls : d # c => calls'[d] = calls[d],
           CallOK(c)',
           file' \in FileStates, file'.state # "whole" => file'.map = Empty,
           tmp' \in FileStates, tmp'.state # "whole" => tmp'.map = Empty,
           UNCHANGED <<crashes, outages>>
    PROVE  TypeOK'
<1>1. \A d \in Calls : d # c => CallOK(d)'
  BY DEF TypeOK, CallOK
<1>2. crashes' \in 0..MaxCrashes /\ outages' \in 0..MaxOutages
  BY DEF TypeOK
<1> QED BY <1>1, <1>2 DEF TypeOK, CallOK

\* A call that takes no lock leaves the holder's part alone.
LEMMA NotHolding ==
    ASSUME SaveInv, NEW c \in Calls, TypeOK',
           calls'[c].pc \notin Holding,
           \A d \in Calls : d # c => calls'[d] = calls[d],
           file'.map = file.map, UNCHANGED tmp
    PROVE  SaveInv'
<1>1. \A d \in Calls : calls'[d].pc \in Holding => d # c /\ calls[d].pc \in Holding
  OBVIOUS
<1>2. Alone'
  BY <1>1 DEF SaveInv, Alone
<1>3. Fresh'
  <2> SUFFICES ASSUME NEW d \in Calls, calls'[d].pc \in Holding
               PROVE OneChange(file'.map, calls'[d].mine)
    BY DEF Fresh
  <2> QED BY <1>1 DEF SaveInv, Fresh
<1>4. TmpWhole'
  BY <1>1 DEF SaveInv, TmpWhole, Holding
<1> QED BY <1>2, <1>3, <1>4 DEF SaveInv

\* A call that takes the lock becomes the only holder.
LEMMA TakesLock ==
    ASSUME SaveInv, NEW c \in Calls, TypeOK', LockFree,
           calls'[c].pc = "loaded", OneChange(file.map, calls'[c].mine),
           \A d \in Calls : d # c => calls'[d] = calls[d],
           file'.map = file.map
    PROVE  SaveInv'
<1>1. \A d \in Calls : calls'[d].pc \in Holding => d = c
  BY DEF LockFree
<1>2. Alone'
  BY <1>1 DEF Alone
<1>3. Fresh'
  <2> SUFFICES ASSUME NEW d \in Calls, calls'[d].pc \in Holding
               PROVE OneChange(file'.map, calls'[d].mine)
    BY DEF Fresh
  <2> QED BY <1>1
<1>4. TmpWhole'
  BY <1>1 DEF TmpWhole, Holding
<1> QED BY <1>2, <1>3, <1>4 DEF SaveInv

----------------------------------------------------------------------------
LEMMA SaveInit == Init => SaveInv
<1> SUFFICES ASSUME Init PROVE SaveInv
  OBVIOUS
<1>1. \A c \in Calls : Call("idle", Home[c], NoName, NoConversation, Empty) \in CallStates
  BY EmptyMap, SessionsAssumption DEF Call, CallStates, Phases, Conversations
<1>2. calls \in [Calls -> CallStates]
  BY <1>1 DEF Init
<1>3. \A c \in Calls : calls[c].pc = "idle"
  BY DEF Init, Call
<1>4. crashes \in 0..MaxCrashes /\ outages \in 0..MaxOutages
  BY SessionsAssumption DEF Init
<1>5. TypeOK
  BY <1>2, <1>3, <1>4, FileKinds DEF Init, TypeOK, Holding
<1> QED BY <1>3, <1>5 DEF SaveInv, Alone, Fresh, TmpWhole, Holding

\* What the steps of a call do, one case per action.
LEMMA AskKeeps ==
    ASSUME SaveInv, NEW c \in Calls, NEW s \in Names, Consult(c, s) \/ Followup(c, s)
    PROVE  SaveInv' /\ file'.map = file.map /\ file'.state # "torn"
<1>0. TypeOK /\ Quarantine /\ UNCHANGED <<tmp, crashes, outages>>
  BY DEF SaveInv, Consult, Followup
<1>1. PICK pc \in {"asked", "done"}, v \in Conversations : Becomes(c, pc, s, v, Empty)
  <2>1. file.map \in Maps
    BY <1>0 DEF TypeOK, FileStates
  <2>2. NoConversation \in Conversations
    BY DEF Conversations
  <2>3. file.map[s] # None => file.map[s].conversation \in Conversations
    BY <2>1 DEF Maps, Metas
  <2> QED BY <2>2, <2>3 DEF Consult, Followup, Loaded
<1>2. /\ calls' \in [Calls -> CallStates]
      /\ calls'[c].pc = pc /\ calls'[c].session = s
      /\ \A d \in Calls : d # c => calls'[d] = calls[d]
  BY <1>0, <1>1, BecomesHere, EmptyMap DEF Phases
<1>3. CallOK(c)'
  BY <1>2 DEF CallOK
<1>4. tmp' \in FileStates /\ (tmp'.state # "whole" => tmp'.map = Empty)
  BY <1>0 DEF TypeOK
<1>5. TypeOK'
  BY <1>0, <1>2, <1>3, <1>4, QuarantineKeeps, TypeStep
<1> QED BY <1>0, <1>2, <1>5, QuarantineKeeps, NotHolding DEF Holding

LEMMA AnswerKeeps ==
    ASSUME SaveInv, NEW c \in Calls, Answer(c) \/ NoAnswer(c)
    PROVE  SaveInv' /\ UNCHANGED file
<1>0. TypeOK /\ UNCHANGED <<file, tmp, crashes, outages>>
  BY DEF SaveInv, Answer, NoAnswer
<1>1. /\ calls' \in [Calls -> CallStates]
      /\ calls'[c].pc \in {"answered", "done"} /\ calls'[c].session = calls[c].session
      /\ \A d \in Calls : d # c => calls'[d] = calls[d]
  <2>1. CASE Answer(c)
    <3>1. PICK s \in Names \cup {NoName} : s = calls[c].session
      BY <1>0, CallTypes
    <3>2. PICK v \in Conversations, b \in Bridges :
              calls' = [calls EXCEPT ![c] = Call("answered", b, s, v, Empty)]
      BY <1>0, <2>1, <3>1, CallTypes DEF Answer, Conversations
    <3>3. "answered" \in Phases /\ Empty \in Maps
      BY EmptyMap DEF Phases
    <3>4. /\ calls' \in [Calls -> CallStates]
          /\ calls'[c].pc = "answered" /\ calls'[c].session = s
          /\ \A d \in Calls : d # c => calls'[d] = calls[d]
      BY <1>0, <3>2, <3>3, BecomesOne
    <3> QED BY <3>1, <3>4
  <2>2. CASE NoAnswer(c)
    BY <1>0, <2>2, GoOne DEF NoAnswer, Phases
  <2> QED BY <2>1, <2>2
<1>2. calls[c].session \in Names
  BY <1>0 DEF Answer, NoAnswer, TypeOK
<1>3. CallOK(c)'
  BY <1>1, <1>2 DEF CallOK
<1>4. TypeOK'
  BY <1>0, <1>1, <1>3, TypeStep DEF TypeOK
<1> QED BY <1>0, <1>1, <1>4, NotHolding DEF Holding

LEMMA LoadUseKeeps ==
    ASSUME SaveInv, NEW c \in Calls, LoadUse(c)
    PROVE  SaveInv' /\ file'.map = file.map /\ file'.state # "torn"
<1>0. TypeOK /\ Quarantine /\ LockFree /\ UNCHANGED <<tmp, crashes, outages>>
  BY DEF SaveInv, LoadUse
<1>1. PICK s \in Names : s = calls[c].session
  BY <1>0 DEF LoadUse, TypeOK
<1>2. PICK v \in Conversations : v = calls[c].conversation
  BY <1>0, CallTypes
<1>3. file.map \in Maps
  BY <1>0 DEF TypeOK, FileStates
<1>4. Becomes(c, "loaded", s, v, Used(file.map, s, v))
  BY <1>1, <1>2 DEF LoadUse, Loaded
<1>5. PICK m \in Maps : m = Used(file.map, s, v) /\ OneChange(file.map, m)
  BY <1>3, UsedIsTurn
<1>6. /\ calls' \in [Calls -> CallStates]
      /\ calls'[c].pc = "loaded" /\ calls'[c].session = s /\ calls'[c].mine = m
      /\ \A d \in Calls : d # c => calls'[d] = calls[d]
  BY <1>0, <1>4, <1>5, BecomesHere DEF Phases
<1>7. CallOK(c)'
  BY <1>6 DEF CallOK
<1>8. tmp' \in FileStates /\ (tmp'.state # "whole" => tmp'.map = Empty)
  BY <1>0 DEF TypeOK
<1>9. TypeOK'
  BY <1>0, <1>6, <1>7, <1>8, QuarantineKeeps, TypeStep
<1> QED BY <1>0, <1>5, <1>6, <1>9, QuarantineKeeps, TakesLock

LEMMA LoadCloseKeeps ==
    ASSUME SaveInv, NEW c \in Calls, NEW s \in Names, LoadClose(c, s)
    PROVE  SaveInv' /\ file'.map = file.map /\ file'.state # "torn"
<1>0. TypeOK /\ Quarantine /\ LockFree /\ UNCHANGED <<tmp, crashes, outages>>
  BY DEF SaveInv, LoadClose
<1>1. file.map \in Maps /\ NoConversation \in Conversations
  BY <1>0 DEF TypeOK, FileStates, Conversations
<1>2. tmp' \in FileStates /\ (tmp'.state # "whole" => tmp'.map = Empty)
  BY <1>0 DEF TypeOK
<1>3. CASE file.map[s] # None
  <2>1. Becomes(c, "loaded", s, NoConversation, Without(file.map, s))
    BY <1>3 DEF LoadClose, Loaded, Without
  <2>2. PICK m \in Maps : m = Without(file.map, s) /\ OneChange(file.map, m)
    BY <1>1, <1>3, CloseIsChange
  <2>3. /\ calls' \in [Calls -> CallStates]
        /\ calls'[c].pc = "loaded" /\ calls'[c].session = s /\ calls'[c].mine = m
        /\ \A d \in Calls : d # c => calls'[d] = calls[d]
    BY <1>0, <1>1, <2>1, <2>2, BecomesHere DEF Phases
  <2>4. CallOK(c)'
    BY <2>3 DEF CallOK
  <2>5. TypeOK'
    BY <1>0, <1>2, <2>3, <2>4, QuarantineKeeps, TypeStep
  <2> QED BY <1>0, <2>2, <2>3, <2>5, QuarantineKeeps, TakesLock
<1>4. CASE file.map[s] = None
  <2>1. Becomes(c, "done", s, NoConversation, Empty)
    BY <1>4 DEF LoadClose, Loaded
  <2>2. /\ calls' \in [Calls -> CallStates]
        /\ calls'[c].pc = "done" /\ calls'[c].session = s
        /\ \A d \in Calls : d # c => calls'[d] = calls[d]
    BY <1>0, <1>1, <2>1, BecomesHere, EmptyMap DEF Phases
  <2>3. CallOK(c)'
    BY <2>2 DEF CallOK, Holding
  <2>4. TypeOK'
    BY <1>0, <1>2, <2>2, <2>3, QuarantineKeeps, TypeStep
  <2> QED BY <1>0, <2>2, <2>4, QuarantineKeeps, NotHolding DEF Holding
<1> QED BY <1>3, <1>4

\* Truncating and filling the temporary file is the holder's business alone.
LEMMA WriteKeeps ==
    ASSUME SaveInv, NEW c \in Calls, Truncate(c) \/ Fill(c) \/ SaveFails(c)
    PROVE  SaveInv' /\ UNCHANGED file
<1>0. TypeOK /\ UNCHANGED <<file, crashes, outages>> /\ calls[c].pc \in Holding
  BY DEF SaveInv, Truncate, Fill, SaveFails, Holding
<1>1. PICK pc \in {"writing", "written", "done"} : Go(c, pc)
  BY DEF Truncate, Fill, SaveFails
<1>2. /\ calls' \in [Calls -> CallStates]
      /\ calls'[c].pc = pc
      /\ calls'[c].session = calls[c].session /\ calls'[c].mine = calls[c].mine
      /\ \A d \in Calls : d # c => calls'[d] = calls[d]
  BY <1>0, <1>1, GoOne DEF Phases
<1>3. calls[c].mine \in Maps /\ calls[c].session \in Names
  BY <1>0, CallTypes DEF CallOK
<1>4. PICK m \in Maps : m = calls[c].mine
  BY <1>3
<1>5. tmp' \in {Torn, Whole(m), tmp}
  BY <1>4 DEF Truncate, Fill, SaveFails
<1>6. tmp' \in FileStates /\ (tmp'.state # "whole" => tmp'.map = Empty)
  BY <1>0, <1>5, FileKinds DEF TypeOK
<1>7. CallOK(c)'
  BY <1>2, <1>3 DEF CallOK
<1>8. file' \in FileStates /\ (file'.state # "whole" => file'.map = Empty)
  BY <1>0 DEF TypeOK
<1>9. TypeOK'
  BY <1>0, <1>2, <1>6, <1>7, <1>8, TypeStep
<1>10. \A d \in Calls : calls'[d].pc \in Holding => d = c
  BY <1>0, <1>2 DEF SaveInv, Alone
<1>11. Alone'
  BY <1>10 DEF Alone
<1>12. Fresh'
  <2>1. OneChange(file.map, calls[c].mine)
    BY <1>0 DEF SaveInv, Fresh
  <2> SUFFICES ASSUME NEW d \in Calls, calls'[d].pc \in Holding
               PROVE OneChange(file'.map, calls'[d].mine)
    BY DEF Fresh
  <2> QED BY <1>0, <1>2, <1>10, <2>1
<1>13. TmpWhole'
  <2> SUFFICES ASSUME NEW d \in Calls, calls'[d].pc = "written"
               PROVE tmp' = Whole(calls'[d].mine)
    BY DEF TmpWhole
  <2>1. d = c /\ pc = "written"
    BY <1>2, <1>10 DEF Holding
  <2>2. Fill(c)
    <3>1. ~Truncate(c) /\ ~SaveFails(c)
      <4>1. calls'[c].pc = "written"
        BY <2>1
      <4>2. ASSUME Truncate(c) PROVE FALSE
        BY <1>0, <4>1, <4>2, GoOne DEF Truncate, Phases
      <4>3. ASSUME SaveFails(c) PROVE FALSE
        BY <1>0, <4>1, <4>3, GoOne DEF SaveFails, Phases
      <4> QED BY <4>2, <4>3
    <3> QED BY <3>1
  <2>3. tmp' = Whole(m)
    BY <1>4, <2>2 DEF Fill
  <2> QED BY <1>2, <1>4, <2>1, <2>3
<1> QED BY <1>0, <1>9, <1>11, <1>12, <1>13 DEF SaveInv

\* The save publishes the one change.
LEMMA ReplaceKeeps ==
    ASSUME SaveInv, NEW c \in Calls, Replace(c)
    PROVE  SaveInv' /\ OneChange(file.map, file'.map) /\ file'.state = "whole"
<1>0. /\ TypeOK /\ UNCHANGED <<crashes, outages>> /\ calls[c].pc = "written"
      /\ file' = tmp /\ tmp' = NoFile /\ Go(c, "done")
  BY DEF SaveInv, Replace
<1>1. /\ calls' \in [Calls -> CallStates]
      /\ calls'[c].pc = "done"
      /\ \A d \in Calls : d # c => calls'[d] = calls[d]
  BY <1>0, GoOne DEF Phases
<1>2. PICK m \in Maps : m = calls[c].mine
  BY <1>0, CallTypes
<1>3. file' = Whole(m) /\ OneChange(file.map, m)
  BY <1>0, <1>2 DEF SaveInv, TmpWhole, Fresh, Holding
<1>4. /\ file' \in FileStates /\ file'.map = m /\ file'.state = "whole"
      /\ tmp' \in FileStates /\ (tmp'.state # "whole" => tmp'.map = Empty)
  BY <1>0, <1>3, FileKinds
<1>5. CallOK(c)'
  BY <1>1 DEF CallOK, Holding
<1>6. TypeOK'
  BY <1>0, <1>1, <1>4, <1>5, TypeStep
<1>7. \A d \in Calls : calls'[d].pc \notin Holding
  <2> SUFFICES ASSUME NEW d \in Calls PROVE calls'[d].pc \notin Holding
    OBVIOUS
  <2>1. CASE d = c
    BY <1>1, <2>1 DEF Holding
  <2>2. CASE d # c
    BY <1>0, <1>1, <2>2 DEF SaveInv, Alone, Holding
  <2> QED BY <2>1, <2>2
<1>8. Alone' /\ Fresh' /\ TmpWhole'
  BY <1>7 DEF Alone, Fresh, TmpWhole, Holding
<1> QED BY <1>3, <1>4, <1>6, <1>8 DEF SaveInv

\* What dies holds nothing any more.
LEMMA KillKeeps ==
    ASSUME SaveInv, NEW C \in SUBSET Calls, Kill(C)
    PROVE  /\ calls' \in [Calls -> CallStates]
           /\ \A c \in Calls : CallOK(c)'
           /\ \A c \in Calls : calls'[c].pc \in Holding => c \notin C /\ calls'[c] = calls[c]
<1>0. TypeOK
  BY DEF SaveInv
<1>1. \A c \in Calls : c \in C => calls'[c] \in CallStates /\ calls'[c].pc = "dead"
  <2> SUFFICES ASSUME NEW c \in Calls, c \in C
               PROVE calls'[c] \in CallStates /\ calls'[c].pc = "dead"
    OBVIOUS
  <2>1. calls'[c] = Call("dead", calls[c].at, calls[c].session, calls[c].conversation, Empty)
    BY DEF Kill
  <2> QED BY <1>0, <2>1, CallTypes, EmptyMap DEF Call, CallStates, Phases
<1>2. \A c \in Calls : c \notin C => calls'[c] = calls[c]
  BY DEF Kill
<1>3. calls' \in [Calls -> CallStates]
  <2>1. \A c \in Calls : calls'[c] \in CallStates
    BY <1>0, <1>1, <1>2 DEF TypeOK
  <2>2. calls' = [c \in Calls |-> calls'[c]]
    BY DEF Kill
  <2> QED BY <2>1, <2>2
<1>4. \A c \in Calls : CallOK(c)'
  BY <1>0, <1>1, <1>2, CallTypes DEF CallOK, Holding
<1> QED BY <1>1, <1>2, <1>3, <1>4 DEF Holding

LEMMA DeathKeeps ==
    ASSUME SaveInv, Outage \/ \E b \in Bridges : Crash(b)
    PROVE  /\ SaveInv'
           /\ file' \in {file, Torn}
           /\ file' # file => outages' = outages + 1
<1>0. TypeOK
  BY DEF SaveInv
<1>1. PICK C \in SUBSET Calls : Kill(C)
  BY DEF Outage, Crash
<1>2. /\ calls' \in [Calls -> CallStates]
      /\ \A c \in Calls : CallOK(c)'
      /\ \A c \in Calls : calls'[c].pc \in Holding => c \notin C /\ calls'[c] = calls[c]
  BY <1>1, KillKeeps
<1>3. /\ file' \in {file, Torn} /\ UNCHANGED tmp
      /\ file' # file => Outage /\ outages' = outages + 1
  BY DEF Outage, Crash
<1>4. crashes' \in 0..MaxCrashes /\ outages' \in 0..MaxOutages
  <2>1. /\ crashes' = crashes \/ (crashes < MaxCrashes /\ crashes' = crashes + 1)
        /\ outages' = outages \/ (outages < MaxOutages /\ outages' = outages + 1)
    BY DEF Outage, Crash
  <2>2. crashes \in 0..MaxCrashes /\ outages \in 0..MaxOutages
    BY <1>0 DEF TypeOK
  <2> QED BY <2>1, <2>2, SessionsAssumption
<1>5. /\ file' \in FileStates /\ (file'.state # "whole" => file'.map = Empty)
      /\ tmp' \in FileStates /\ (tmp'.state # "whole" => tmp'.map = Empty)
  BY <1>0, <1>3, FileKinds DEF TypeOK
<1>6. TypeOK'
  BY <1>2, <1>4, <1>5 DEF TypeOK, CallOK
<1>7. Alone' /\ TmpWhole'
  BY <1>2, <1>3 DEF SaveInv, Alone, TmpWhole, Holding
<1>8. Fresh'
  <2> SUFFICES ASSUME NEW c \in Calls, calls'[c].pc \in Holding
               PROVE OneChange(file'.map, calls'[c].mine)
    BY DEF Fresh
  <2>1. calls'[c] = calls[c] /\ calls[c].pc \in Holding
    BY <1>2
  <2>2. file' = file
    <3>1. ~Outage
      <4> SUFFICES ASSUME Outage PROVE FALSE
        OBVIOUS
      <4>1. Kill({d \in Calls : calls[d].pc \in InBridge \cup {"asked"}})
        BY DEF Outage
      <4>2. c \notin {d \in Calls : calls[d].pc \in InBridge \cup {"asked"}}
        BY <4>1, KillKeeps
      <4> QED BY <2>1, <4>2 DEF InBridge
    <3> QED BY <1>3, <3>1
  <2> QED BY <2>1, <2>2 DEF SaveInv, Fresh
<1> QED BY <1>3, <1>6, <1>7, <1>8 DEF SaveInv

----------------------------------------------------------------------------
\* A step keeps the invariant, changes the map by one use or one close or loses it,
\* and tears the file only in an outage.
LEMMA StepKeeps ==
    ASSUME SaveInv, [Next]_vars
    PROVE  /\ SaveInv'
           /\ \/ file'.map = file.map
              \/ file'.map = Empty
              \/ OneChange(file.map, file'.map)
           /\ file'.state = "torn" /\ file.state # "torn" => outages' = outages + 1
<1>1. CASE UNCHANGED vars
  <2>1. UNCHANGED file
    BY <1>1 DEF vars
  <2>2. SaveInv'
    BY <1>1 DEF vars, SaveInv, TypeOK, Alone, Fresh, TmpWhole
  <2> QED BY <2>1, <2>2
<1>2. ASSUME NEW c \in Calls, NEW s \in Names, Consult(c, s) \/ Followup(c, s) \/ LoadClose(c, s)
      PROVE SaveInv' /\ file'.map = file.map /\ file'.state # "torn"
  BY <1>2, AskKeeps, LoadCloseKeeps
<1>3. ASSUME NEW c \in Calls, Answer(c) \/ NoAnswer(c) \/ Truncate(c) \/ Fill(c) \/ SaveFails(c)
      PROVE SaveInv' /\ UNCHANGED file
  BY <1>3, AnswerKeeps, WriteKeeps
<1>4. ASSUME NEW c \in Calls, LoadUse(c)
      PROVE SaveInv' /\ file'.map = file.map /\ file'.state # "torn"
  BY <1>4, LoadUseKeeps
<1>5. ASSUME NEW c \in Calls, Replace(c)
      PROVE SaveInv' /\ OneChange(file.map, file'.map) /\ file'.state = "whole"
  BY <1>5, ReplaceKeeps
<1>6. CASE Outage \/ \E b \in Bridges : Crash(b)
  <2>1. SaveInv' /\ file' \in {file, Torn} /\ (file' # file => outages' = outages + 1)
    BY <1>6, DeathKeeps
  <2>2. Torn.map = Empty
    BY FileKinds
  <2> QED BY <2>1, <2>2
<1> QED BY <1>1, <1>2, <1>3, <1>4, <1>5, <1>6 DEF Next

LEMMA SaveInvariant == Spec => []SaveInv
<1>1. Init => SaveInv
  BY SaveInit
<1>2. SaveInv /\ [Next]_vars => SaveInv'
  BY StepKeeps
<1> QED BY <1>1, <1>2, PTL DEF Spec

\* The types of all reachable states.
THEOREM SessionTypes == Spec => []TypeOK
<1>1. SaveInv => TypeOK
  BY DEF SaveInv
<1> QED BY <1>1, SaveInvariant, PTL

\* Only an outage tears sessions.json (sessions.py:59-64), whatever dies or fails
\* during a save, for any number of calls and bridges.
THEOREM FileStaysWhole == Spec => SavesWhole
<1>1. SaveInv /\ [Next]_vars =>
        [file'.state = "torn" /\ file.state # "torn" => outages' = outages + 1]_vars
  BY StepKeeps
<1> QED BY <1>1, SaveInvariant, PTL DEF Spec, SavesWhole

\* Loading, changing and saving the whole file under the lock is one change of one
\* session at a time (sessions.py:27-30), for any number of calls, bridges and sessions.
THEOREM SessionsImplementMap == Spec => ImplementsMap
<1>1. Init => Map!Init
  BY FileKinds DEF Init, Map!Init, Map!Empty, Empty
<1>2. SaveInv /\ [Next]_vars => [Map!Next]_(file.map)
  <2> SUFFICES ASSUME SaveInv, [Next]_vars PROVE [Map!Next]_(file.map)
    OBVIOUS
  <2>1. CASE file'.map = file.map
    BY <2>1
  <2>2. CASE file'.map = Empty
    BY <2>2 DEF Map!Next, Map!Lose, Map!Empty, Empty
  <2>3. CASE OneChange(file.map, file'.map)
    BY <2>3 DEF OneChange, Turn, Without, Map!Next, Map!Use, Map!Close
  <2> QED BY <2>1, <2>2, <2>3, StepKeeps
<1> QED BY <1>1, <1>2, SaveInvariant, PTL DEF Spec, ImplementsMap, Map!Spec
=============================================================================
