--------------------------- MODULE Install_proofs ---------------------------
(***************************************************************************)
(* For any servers, sections, playbooks, edits and kills, whatever was     *)
(* interrupted, undone or edited before and meanwhile: an init that ends   *)
(* has set up everything, CLAUDE.md holds our section once, a deinit that  *)
(* succeeds leaves none of it, and neither takes anything of the user's    *)
(* but what stands right behind our section.                               *)
(*                                                                         *)
(* A text without our section is a selection of its blocks.  It keeps the  *)
(* user's headed blocks in their order because the selection of them from  *)
(* a selection is the selection from the text (SelectTwice).               *)
(***************************************************************************)
EXTENDS Install, Ranks, SequenceTheorems

\* The part of the types that the argument needs.
Entries == SUBSET (Servers \cup {Agy})
Typed ==
    /\ mcp \in Entries \cup {Absent, Broken}
    /\ "pc" \in DOMAIN cmd /\ "data" \in DOMAIN cmd
    /\ cmd.data \in Entries \cup {Absent}

\* What a step of init has set up stays until another command begins.
Registering == {"init_config", "init_dirs", "init_template", "init_smoke", "init_claude",
                "initialised"}
Configured == Registering \ {"init_config"}
Templated == {"init_smoke", "init_claude", "initialised"}
SetUp ==
    /\ cmd.pc \in Registering => mcp \in Entries /\ Agy \in mcp
    /\ cmd.pc \in Configured => config # "absent"
    /\ cmd.pc \in Templated => Template \in overlays

IInv == Typed /\ SetUp

\* A file with entries is neither absent nor broken.
LEMMA EntriesAreData ==
    ASSUME NEW entries \in Entries
    PROVE  entries # Absent /\ entries # Broken
  BY InstallAssumption DEF Entries

LEMMA GoPc ==
    ASSUME Typed, NEW pc, Go(pc), mcp' \in Entries \cup {Absent, Broken}
    PROVE  cmd'.pc = pc /\ Typed'
  BY DEF Go, Typed

LEMMA CommandPc ==
    ASSUME NEW pc, cmd' = Command(pc), mcp' \in Entries \cup {Absent, Broken}
    PROVE  cmd'.pc = pc /\ Typed'
  BY DEF Command, Typed

LEMMA InitInv == Init => IInv
  BY DEF Init, Command, IInv, Typed, SetUp, Registering, Configured, Templated

\* A step to phase pc keeps the invariant if what that phase presupposes is there.
LEMMA Reach ==
    ASSUME Typed, NEW pc, Go(pc) \/ cmd' = Command(pc),
           mcp' \in Entries \cup {Absent, Broken},
           pc \in Registering => mcp' \in Entries /\ Agy \in mcp',
           pc \in Configured => config' # "absent",
           pc \in Templated => Template \in overlays'
    PROVE  IInv'
<1>1. cmd'.pc = pc /\ Typed'
  BY GoPc, CommandPc
<1> QED
  BY <1>1 DEF IInv, SetUp

\* A command that ends early, is killed or takes things out has promised nothing.
LEMMA Leave ==
    ASSUME Typed, NEW pc, Go(pc) \/ cmd' = Command(pc), pc \notin Registering,
           mcp' \in Entries \cup {Absent, Broken}
    PROVE  IInv'
<1>1. pc \notin Configured /\ pc \notin Templated
  BY DEF Registering, Configured, Templated
<1> QED
  BY <1>1, Reach

\* The user adds to what there is.
LEMMA Keep ==
    ASSUME IInv, cmd' = cmd, mcp' \in Entries \cup {Absent, Broken},
           cmd.pc \in Registering => mcp' \in Entries /\ mcp \subseteq mcp',
           config' # config => config' # "absent", overlays \subseteq overlays'
    PROVE  IInv'
<1>1. Typed /\ SetUp
  BY DEF IInv
<1>2. Typed'
  BY <1>1 DEF Typed
<1>3. SetUp'
  BY <1>1 DEF SetUp
<1> QED
  BY <1>2, <1>3 DEF IInv

\* Which phases presuppose what.
LEMMA Phases ==
    /\ "idle" \notin Registering
    /\ "init_mcp" \notin Registering
    /\ "removed" \notin Registering
    /\ "deinit_mcp" \notin Registering
    /\ "deinit_claude" \notin Registering
    /\ "deinit_template" \notin Registering
    /\ "deinit_extra" \notin Registering
    /\ "deinit_inner" \notin Registering /\ "deinit_outer" \notin Registering
    /\ "nothing" \notin Registering
    /\ "init_config" \in Registering /\ "init_config" \notin Configured
    /\ "init_config" \notin Templated
    /\ "init_dirs" \in Registering /\ "init_dirs" \in Configured /\ "init_dirs" \notin Templated
    /\ "init_template" \in Registering /\ "init_template" \in Configured /\ "init_template" \notin Templated
    /\ "init_smoke" \in Registering /\ "init_smoke" \in Configured /\ "init_smoke" \in Templated
    /\ "init_claude" \in Registering /\ "init_claude" \in Configured /\ "init_claude" \in Templated
    /\ "initialised" \in Registering /\ "initialised" \in Configured /\ "initialised" \in Templated
  BY DEF Registering, Configured, Templated

LEMMA InitStep ==
    ASSUME IInv,
           InitBegins \/ InitMcp \/ InitConfig \/ InitDirs \/ InitTemplate \/ InitSmoke
    PROVE  IInv'
<1>0. Typed /\ SetUp /\ mcp \in Entries \cup {Absent, Broken}
  BY DEF IInv, Typed
<1>1. CASE InitBegins
  <2>1. cmd' = Command("init_mcp") /\ mcp' = mcp
    BY <1>1 DEF InitBegins
  <2> QED BY <1>0, <2>1, Phases, Leave
<1>2. CASE InitMcp /\ mcp = Broken
  <2>1. cmd' = Command("idle") /\ mcp' = mcp
    BY <1>2 DEF InitMcp
  <2> QED BY <1>0, <2>1, Phases, Leave
<1>3. CASE InitMcp /\ mcp # Broken
  <2>1. PICK entries : /\ entries = IF mcp = Absent THEN {Agy} ELSE mcp \cup {Agy}
                       /\ WriteMcp(entries, "init_config")
    BY <1>3 DEF InitMcp
  <2>2. entries \in Entries /\ Agy \in entries
    BY <1>0, <1>3, <2>1 DEF Entries
  <2>3. CASE mcp' = entries /\ Go("init_config")
    BY <1>0, <2>2, <2>3, Phases, Reach
  <2>4. CASE mcp' = Broken /\ cmd' = Command("idle")
    BY <1>0, <2>4, Phases, Leave
  <2> QED BY <2>1, <2>3, <2>4 DEF WriteMcp, Killed
<1>4. CASE InitConfig
  <2>1. /\ cmd.pc = "init_config" /\ Go("init_dirs") /\ UNCHANGED <<mcp, overlays>>
        /\ config' # "absent"
    BY <1>4 DEF InitConfig
  <2>2. mcp \in Entries /\ Agy \in mcp
    BY <1>0, <2>1, Phases DEF SetUp
  <2> QED BY <1>0, <2>1, <2>2, Phases, Reach
<1>5. CASE InitDirs
  <2>1. /\ cmd.pc = "init_dirs" /\ UNCHANGED <<mcp, config, overlays>>
        /\ Go("init_dirs") \/ Go("init_template")
    BY <1>5 DEF InitDirs
  <2>2. mcp \in Entries /\ Agy \in mcp /\ config # "absent"
    BY <1>0, <2>1, Phases DEF SetUp
  <2>3. CASE Go("init_dirs")
    BY <1>0, <2>1, <2>2, <2>3, Phases, Reach
  <2>4. CASE Go("init_template")
    BY <1>0, <2>1, <2>2, <2>4, Phases, Reach
  <2> QED BY <2>1, <2>3, <2>4
<1>6. CASE InitTemplate
  <2>1. /\ cmd.pc = "init_template" /\ Go("init_smoke") /\ UNCHANGED <<mcp, config>>
        /\ Template \in overlays'
    BY <1>6 DEF InitTemplate
  <2>2. mcp \in Entries /\ Agy \in mcp /\ config # "absent"
    BY <1>0, <2>1, Phases DEF SetUp
  <2> QED BY <1>0, <2>1, <2>2, Phases, Reach
<1>7. CASE InitSmoke
  <2>1. cmd.pc = "init_smoke" /\ UNCHANGED <<mcp, config, overlays>>
        /\ (Go("init_claude") \/ cmd' = Command("idle"))
    BY <1>7 DEF InitSmoke
  <2>2. mcp \in Entries /\ Agy \in mcp /\ config # "absent" /\ Template \in overlays
    BY <1>0, <2>1, Phases DEF SetUp
  <2>3. CASE Go("init_claude")
    BY <1>0, <2>1, <2>2, <2>3, Phases, Reach
  <2>4. CASE cmd' = Command("idle")
    BY <1>0, <2>1, <2>4, Phases, Leave
  <2> QED BY <2>1, <2>3, <2>4
<1> QED BY <1>1, <1>2, <1>3, <1>4, <1>5, <1>6, <1>7

LEMMA ClaudeStep ==
    ASSUME IInv, NEW approved \in BOOLEAN, InitClaude(approved)
    PROVE  IInv'
<1>0. Typed /\ SetUp /\ mcp \in Entries \cup {Absent, Broken}
  BY DEF IInv, Typed
<1>1. cmd.pc = "init_claude" /\ UNCHANGED <<mcp, config, overlays>>
  BY DEF InitClaude
<1>2. Go("initialised") \/ cmd' = Command("idle")
  BY DEF InitClaude, WriteClaude, Killed
<1>3. mcp \in Entries /\ Agy \in mcp /\ config # "absent" /\ Template \in overlays
  BY <1>0, <1>1, Phases DEF SetUp
<1>4. CASE Go("initialised")
  BY <1>0, <1>1, <1>3, <1>4, Phases, Reach
<1>5. CASE cmd' = Command("idle")
  BY <1>0, <1>1, <1>5, Phases, Leave
<1> QED BY <1>2, <1>4, <1>5

LEMMA DeinitStep ==
    ASSUME IInv,
           \/ \E purge \in BOOLEAN : DeinitBegins(purge)
           \/ DeinitMcp \/ DeinitClaude \/ DeinitTemplate \/ DeinitInner \/ DeinitOuter
           \/ \E left \in SUBSET cmd.extra : DeinitExtra(left)
           \/ Kill
    PROVE  IInv'
<1>0. Typed /\ mcp \in Entries \cup {Absent, Broken} /\ cmd.data \in Entries \cup {Absent}
  BY DEF IInv, Typed
<1>1. ASSUME NEW purge \in BOOLEAN, DeinitBegins(purge)
      PROVE  IInv'
  <2>1. CASE cmd' = Command("nothing")
    <3>1. mcp' = mcp
      BY <1>1 DEF DeinitBegins
    <3> QED BY <1>0, <2>1, <3>1, Phases, Leave
  <2>2. CASE cmd' # Command("nothing")
    <3>1. PICK data, snippet, extra :
             /\ data \in {mcp, Absent} /\ (data = mcp => mcp # Broken)
             /\ cmd' = [pc |-> "deinit_mcp", data |-> data, snippet |-> snippet, extra |-> extra]
      BY <1>1, <2>2, Zenon DEF DeinitBegins
    <3>2. mcp' = mcp
      BY <1>1 DEF DeinitBegins
    <3>3. Typed' /\ cmd'.pc = "deinit_mcp"
      BY <1>0, <3>1, <3>2 DEF Typed
    <3> QED BY <3>3 DEF IInv, SetUp, Registering, Configured, Templated
  <2> QED BY <2>1, <2>2
<1>2. CASE DeinitMcp
  <2>1. CASE cmd.data = Absent
    <3>1. Go("deinit_claude") /\ mcp' = mcp
      BY <1>2, <2>1 DEF DeinitMcp
    <3> QED BY <1>0, <3>1, Phases, Leave
  <2>2. CASE cmd.data # Absent
    <3>1. cmd.data \ {Agy} \in Entries
      BY <1>0, <2>2 DEF Entries
    <3>2. WriteMcp(cmd.data \ {Agy}, "deinit_claude")
      BY <1>2, <2>2 DEF DeinitMcp
    <3>3. CASE mcp' = cmd.data \ {Agy} /\ Go("deinit_claude")
      BY <1>0, <3>1, <3>3, Phases, Leave
    <3>4. CASE mcp' = Broken /\ cmd' = Command("idle")
      BY <1>0, <3>4, Phases, Leave
    <3> QED BY <3>2, <3>3, <3>4 DEF WriteMcp, Killed
  <2> QED BY <2>1, <2>2
<1>3. CASE DeinitClaude
  <2>1. mcp' = mcp /\ (Go("deinit_template") \/ cmd' = Command("idle"))
    BY <1>3 DEF DeinitClaude, WriteClaude, Killed
  <2> QED BY <1>0, <2>1, Phases, Leave
<1>4. CASE DeinitTemplate
  <2>1. mcp' = mcp /\ Go("deinit_extra")
    BY <1>4 DEF DeinitTemplate
  <2> QED BY <1>0, <2>1, Phases, Leave
<1>5. CASE DeinitInner \/ DeinitOuter
  <2>1. mcp' = mcp /\ (Go("deinit_outer") \/ cmd' = Command("removed"))
    BY <1>5 DEF DeinitInner, DeinitOuter
  <2> QED BY <1>0, <2>1, Phases, Leave
<1>6. ASSUME NEW left \in SUBSET cmd.extra, DeinitExtra(left)
      PROVE  IInv'
  <2>1. mcp' = mcp /\ Go("deinit_inner")
    BY <1>6 DEF DeinitExtra
  <2> QED BY <1>0, <2>1, Phases, Leave
<1>7. CASE Kill
  <2>1. mcp' = mcp /\ cmd' = Command("idle")
    BY <1>7 DEF Kill, Killed
  <2> QED BY <1>0, <2>1, Phases, Leave
<1> QED BY <1>1, <1>2, <1>3, <1>4, <1>5, <1>6, <1>7

LEMMA EditStep ==
    ASSUME IInv,
           \/ EditConfig
           \/ \E s \in Servers : EditMcp(s)
           \/ \E o \in Overlays : EditOverlay(o)
           \/ \E block \in Sections \cup Chapters :
                  \E i \in 1..(Cardinality(Blocks) + 1) : EditClaude(block, i)
    PROVE  IInv'
<1>0. Typed /\ SetUp /\ mcp \in Entries \cup {Absent, Broken}
  BY DEF IInv, Typed
<1>1. cmd.pc \in Registering => mcp \in Entries
  BY <1>0 DEF SetUp
<1>2. CASE EditConfig
  <2>1. cmd' = cmd /\ UNCHANGED <<mcp, overlays>> /\ config' # "absent"
    BY <1>2 DEF EditConfig
  <2> QED BY <1>0, <1>1, <2>1, Keep
<1>3. ASSUME NEW s \in Servers, EditMcp(s)
      PROVE  IInv'
  <2>1. /\ cmd' = cmd /\ UNCHANGED <<overlays, config>>
        /\ mcp' = IF mcp \in {Absent, Broken} THEN {s} ELSE mcp \cup {s}
    BY <1>3 DEF EditMcp
  <2>2. mcp' \in Entries
    BY <1>0, <2>1 DEF Entries
  <2>3. mcp \in Entries => mcp \subseteq mcp'
    BY <2>1, EntriesAreData
  <2> QED BY <1>1, <2>1, <2>2, <2>3, Keep
<1>4. ASSUME NEW o \in Overlays, EditOverlay(o)
      PROVE  IInv'
  <2>1. cmd' = cmd /\ UNCHANGED <<mcp, config>> /\ overlays' = overlays \cup {o}
    BY <1>4 DEF EditOverlay
  <2> QED BY <1>0, <1>1, <2>1, Keep
<1>5. ASSUME NEW block, NEW i, EditClaude(block, i)
      PROVE  IInv'
  <2>1. cmd' = cmd /\ UNCHANGED <<mcp, config, overlays>>
    BY <1>5 DEF EditClaude
  <2> QED BY <1>0, <1>1, <2>1, Keep
<1> QED BY <1>2, <1>3, <1>4, <1>5

LEMMA StepInv == IInv /\ [Next]_vars => IInv'
<1> SUFFICES ASSUME IInv, [Next]_vars PROVE IInv'
  OBVIOUS
<1>1. CASE UNCHANGED vars
  BY <1>1 DEF vars, IInv, Typed, SetUp
<1>2. CASE Next
  BY <1>2, InitStep, ClaudeStep, DeinitStep, EditStep DEF Next
<1> QED BY <1>1, <1>2

\* An init that ends has set up everything, also after commands that were interrupted or
\* failed at any step and whatever the user edited meanwhile (cli.py:302-304).
THEOREM InitRegisters == Spec => []Registered
<1>1. Init => IInv
  BY InitInv
<1>2. IInv /\ [Next]_vars => IInv'
  BY StepInv
<1>3. IInv => Registered
  <2> SUFFICES ASSUME SetUp, cmd.pc = "initialised"
               PROVE  /\ mcp \notin {Absent, Broken} /\ Agy \in mcp
                      /\ config # "absent" /\ Template \in overlays
    BY DEF IInv, Registered
  <2> QED BY Phases, EntriesAreData DEF SetUp
<1> QED BY <1>1, <1>2, <1>3, PTL DEF Spec

----------------------------------------------------------------------------
\* What a selection of blocks holds, and what is left of one kind of them.

Headings(text) == {i \in DOMAIN text : text[i] \in Sections}

LEMMA SelectFacts ==
  ASSUME NEW T, NEW text \in Seq(T), NEW at \in SUBSET DOMAIN text
  PROVE  /\ Select(text, at) \in Seq(T)
         /\ Len(Select(text, at)) = Cardinality(at)
         /\ DOMAIN Select(text, at) = 1..Cardinality(at)
         /\ \A n \in 1..Cardinality(at) : /\ Place(at, n) \in at
                                          /\ Select(text, at)[n] = text[Place(at, n)]
<1>1. /\ Len(text) \in Nat /\ at \in SUBSET (1..Len(text))
      /\ \A i \in 1..Len(text) : text[i] \in T
  OBVIOUS
<1>2. Cardinality(at) \in Nat
  <2>1. 0 \in 0..Len(text)
    BY <1>1
  <2> QED
    BY <1>1, <2>1, RankType
<1>3. \A n \in 1..Cardinality(at) : Place(at, n) \in at
  BY <1>1, PlaceRank
<1>4. Select(text, at) = [n \in 1..Cardinality(at) |-> text[Place(at, n)]]
  BY DEF Select, Place
<1>5. \A n \in 1..Cardinality(at) : text[Place(at, n)] \in T
  BY <1>1, <1>3
<1> QED
  BY <1>2, <1>3, <1>4, <1>5

\* A selection of a selection is one.
LEMMA SelectTwice ==
  ASSUME NEW T, NEW text \in Seq(T), NEW at \in SUBSET DOMAIN text, NEW B \in SUBSET at
  PROVE  LET C == {n \in 1..Cardinality(at) : Place(at, n) \in B} IN
         Select(Select(text, at), C) = Select(text, B)
<1> DEFINE C == {n \in 1..Cardinality(at) : Place(at, n) \in B}
<1>1. Len(text) \in Nat /\ at \in SUBSET (1..Len(text))
  OBVIOUS
<1>2. /\ Cardinality(C) = Cardinality(B)
      /\ C \in SUBSET (1..Cardinality(at))
      /\ \A m \in 1..Cardinality(B) :
            Place(C, m) \in C /\ Place(at, Place(C, m)) = Place(B, m)
  BY <1>1, PlaceOfPlace
<1> HIDE DEF C
<1>3. \A n \in 1..Cardinality(at) : Select(text, at)[n] = text[Place(at, n)]
  BY SelectFacts
<1>4. \A m \in 1..Cardinality(B) : Select(text, at)[Place(C, m)] = text[Place(B, m)]
  BY <1>2, <1>3
<1>5. Select(Select(text, at), C)
         = [m \in 1..Cardinality(C) |-> Select(text, at)[Place(C, m)]]
  BY DEF Select, Place
<1>6. Select(text, B) = [m \in 1..Cardinality(B) |-> text[Place(B, m)]]
  BY DEF Select, Place
<1>7. Select(Select(text, at), C) = Select(text, B)
  BY <1>2, <1>4, <1>5, <1>6
<1> QED
  BY <1>7 DEF C

\* No text is taken for no file.
LEMMA TextsAreFiles ==
  ASSUME NEW text \in Seq(Blocks)
  PROVE  text # Absent
  BY InstallAssumption DEF Blocks

LEMMA HeadedText ==
  ASSUME NEW text \in Seq(Blocks)
  PROVE  Headed(text) = Select(text, Headings(text))
  BY TextsAreFiles DEF Headed, Headings

\* A selection with all headed blocks has the headed blocks of the text.
LEMMA SelectHeaded ==
  ASSUME NEW text \in Seq(Blocks), NEW at \in SUBSET DOMAIN text, Headings(text) \in SUBSET at
  PROVE  Headed(Select(text, at)) = Headed(text)
<1> DEFINE C == {n \in 1..Cardinality(at) : Place(at, n) \in Headings(text)}
<1>1. /\ Select(text, at) \in Seq(Blocks)
      /\ DOMAIN Select(text, at) = 1..Cardinality(at)
      /\ \A n \in 1..Cardinality(at) : Place(at, n) \in at
                                       /\ Select(text, at)[n] = text[Place(at, n)]
  BY SelectFacts
<1>2. Headings(Select(text, at)) = C
  <2>1. \A n \in 1..Cardinality(at) :
           Select(text, at)[n] \in Sections <=> Place(at, n) \in Headings(text)
    BY <1>1 DEF Headings
  <2> QED
    BY <1>1, <2>1 DEF Headings
<1>3. Select(Select(text, at), C) = Select(text, Headings(text))
  BY SelectTwice
<1> HIDE DEF C
<1> QED
  BY <1>1, <1>2, <1>3, HeadedText

\* Our section has no heading of the user's.
LEMMA AppendHeaded ==
  ASSUME NEW text \in Seq(Blocks)
  PROVE  Append(text, Ours) \in Seq(Blocks) /\ Headed(Append(text, Ours)) = Headed(text)
<1> DEFINE more == Append(text, Ours)
<1>1. /\ more \in Seq(Blocks) /\ Len(more) = Len(text) + 1 /\ Len(text) \in Nat
      /\ DOMAIN more = 1..(Len(text) + 1) /\ DOMAIN text = 1..Len(text)
      /\ \A i \in 1..Len(text) : more[i] = text[i]
      /\ more[Len(text) + 1] = Ours
  BY DEF Blocks
<1>2. Ours \notin Sections
  BY InstallAssumption
<1> HIDE DEF more
<1>3. \A i \in 1..(Len(text) + 1) : i \in 1..Len(text) \/ i = Len(text) + 1
  BY <1>1
<1>4. Headings(more) = Headings(text)
  BY <1>1, <1>2, <1>3 DEF Headings
<1>5. \A n \in 1..Cardinality(Headings(text)) :
         Place(Headings(text), n) \in Headings(text)
  BY SelectFacts DEF Headings
<1>6. \A n \in 1..Cardinality(Headings(text)) :
         more[Place(Headings(text), n)] = text[Place(Headings(text), n)]
  BY <1>1, <1>5 DEF Headings
<1>7. Select(more, Headings(text)) = Select(text, Headings(text))
  <2>1. Select(more, Headings(text))
          = [n \in 1..Cardinality(Headings(text)) |-> more[Place(Headings(text), n)]]
    BY DEF Select, Place
  <2>2. Select(text, Headings(text))
          = [n \in 1..Cardinality(Headings(text)) |-> text[Place(Headings(text), n)]]
    BY DEF Select, Place
  <2> QED
    BY <1>6, <2>1, <2>2
<1> QED
  BY <1>1, <1>4, <1>7, HeadedText DEF more

LEMMA EmptyHeaded == <<>> \in Seq(Blocks) /\ Headed(<<>>) = <<>> /\ Headed(Absent) = <<>>
<1>1. <<>> \in Seq(Blocks) /\ DOMAIN <<>> = {}
  OBVIOUS
<1>2. Headings(<<>>) = {}
  BY <1>1 DEF Headings
<1>3. Cardinality({}) = 0
  BY FS_EmptySet
<1>4. Select(<<>>, {}) = <<>>
  BY <1>3 DEF Select
<1> QED
  BY <1>1, <1>2, <1>4, HeadedText DEF Headed

\* A section of the user's is none of ours, so what is taken out of a text has none.
LEMMA WithoutFacts ==
  ASSUME NEW text \in Seq(Blocks)
  PROVE  /\ Without(text) \in Seq(Blocks)
         /\ Headed(Without(text)) = Headed(text)
         /\ ~Has(Without(text), Ours)
<1> DEFINE at == {i \in DOMAIN text : ~InOurs(text, i)}
<1>1. at \in SUBSET DOMAIN text /\ Without(text) = Select(text, at)
  BY DEF Without
<1>2. Ours \notin Sections
  BY InstallAssumption
<1>3. \A i \in DOMAIN text : i \in 1..i /\ (\A k \in 1..i : k # i => i \in (k + 1)..i)
  OBVIOUS
<1>4. Headings(text) \in SUBSET at
  <2> SUFFICES ASSUME NEW i \in DOMAIN text, text[i] \in Sections, InOurs(text, i)
               PROVE  FALSE
    BY DEF Headings
  <2>1. PICK k \in 1..i : text[k] = Ours /\ \A h \in (k + 1)..i : text[h] \notin Sections
    BY DEF InOurs
  <2>2. k # i
    BY <1>2, <2>1
  <2> QED
    BY <1>3, <2>1, <2>2
<1>5. \A i \in at : text[i] # Ours
  <2> SUFFICES ASSUME NEW i \in DOMAIN text, text[i] = Ours PROVE InOurs(text, i)
    OBVIOUS
  <2>1. \A h \in (i + 1)..i : FALSE
    OBVIOUS
  <2> QED
    BY <1>3, <2>1 DEF InOurs
<1> HIDE DEF at
<1>6. /\ Select(text, at) \in Seq(Blocks)
      /\ DOMAIN Select(text, at) = 1..Cardinality(at)
      /\ \A n \in 1..Cardinality(at) : Place(at, n) \in at
                                       /\ Select(text, at)[n] = text[Place(at, n)]
  BY <1>1, SelectFacts
<1>7. \A n \in DOMAIN Select(text, at) : Select(text, at)[n] # Ours
  BY <1>5, <1>6
<1>8. ~Has(Select(text, at), Ours)
  BY <1>6, <1>7 DEF Has, ToSet
<1> QED
  BY <1>1, <1>4, <1>6, <1>8, SelectHeaded

LEMMA RenewedFacts ==
  ASSUME NEW text \in Seq(Blocks)
  PROVE  /\ Renewed(text) \in Seq(Blocks)
         /\ Headed(Renewed(text)) = Headed(text)
<1> DEFINE at == {i \in DOMAIN text : text[i] = Ours \/ ~InOurs(text, i)}
<1>1. at \in SUBSET DOMAIN text /\ Renewed(text) = Select(text, at)
  BY DEF Renewed
<1>2. Ours \notin Sections
  BY InstallAssumption
<1>3. \A i \in DOMAIN text : \A k \in 1..i : k # i => i \in (k + 1)..i
  OBVIOUS
<1>4. Headings(text) \in SUBSET at
  <2> SUFFICES ASSUME NEW i \in DOMAIN text, text[i] \in Sections, InOurs(text, i)
               PROVE  FALSE
    BY DEF Headings
  <2>1. PICK k \in 1..i : text[k] = Ours /\ \A h \in (k + 1)..i : text[h] \notin Sections
    BY DEF InOurs
  <2>2. k # i
    BY <1>2, <2>1
  <2> QED
    BY <1>3, <2>1, <2>2
<1> HIDE DEF at
<1> QED
  BY <1>1, <1>4, SelectFacts, SelectHeaded

LEMMA AppliedFacts ==
  ASSUME NEW text, text = Absent \/ text \in Seq(Blocks)
  PROVE  Applied(text) \in Seq(Blocks) /\ Headed(Applied(text)) = Headed(text)
<1>1. CASE text = Absent
  <2>1. Applied(text) = Append(<<>>, Ours)
    BY <1>1 DEF Applied
  <2> QED
    BY <1>1, <2>1, EmptyHeaded, AppendHeaded
<1>2. CASE text # Absent
  BY <1>2, RenewedFacts, AppendHeaded DEF Applied
<1> QED
  BY <1>1, <1>2

----------------------------------------------------------------------------
\* Our section is in a text once.
Once(text) == \A i, k \in DOMAIN text : text[i] = Ours /\ text[k] = Ours => i = k

LEMMA SelectOnce ==
  ASSUME NEW text \in Seq(Blocks), NEW at \in SUBSET DOMAIN text, Once(text)
  PROVE  Once(Select(text, at))
<1>1. /\ DOMAIN Select(text, at) = 1..Cardinality(at)
      /\ \A n \in 1..Cardinality(at) : Place(at, n) \in at
                                       /\ Select(text, at)[n] = text[Place(at, n)]
  BY SelectFacts
<1>2. at \in SUBSET (1..Len(text)) /\ Len(text) \in Nat
  OBVIOUS
<1>3. \A n \in 1..Cardinality(at) : Rank(at, Place(at, n)) = n
  BY <1>2, PlaceRank
<1> SUFFICES ASSUME NEW m \in 1..Cardinality(at), NEW n \in 1..Cardinality(at),
                    Select(text, at)[m] = Ours, Select(text, at)[n] = Ours
             PROVE  m = n
  BY <1>1 DEF Once
<1>4. Place(at, m) = Place(at, n)
  BY <1>1 DEF Once
<1> QED
  BY <1>3, <1>4

LEMMA AppliedOnce ==
  ASSUME NEW text, text = Absent \/ (text \in Seq(Blocks) /\ Once(text))
  PROVE  Once(Applied(text))
<1>1. CASE text = Absent
  BY <1>1 DEF Applied, Once
<1>2. CASE text # Absent /\ Has(text, Ours)
  <2>1. Once(Renewed(text))
    BY <1>2, SelectOnce DEF Renewed
  <2> QED
    BY <1>2, <2>1 DEF Applied
<1>3. CASE text # Absent /\ ~Has(text, Ours)
  <2>1. \A i \in DOMAIN text : text[i] # Ours
    BY <1>3 DEF Has, ToSet
  <2>2. /\ DOMAIN Append(text, Ours) = 1..(Len(text) + 1) /\ Len(text) \in Nat
        /\ DOMAIN text = 1..Len(text)
        /\ \A i \in 1..Len(text) : Append(text, Ours)[i] = text[i]
    BY <1>3
  <2>3. \A i \in 1..(Len(text) + 1) : Append(text, Ours)[i] = Ours => i = Len(text) + 1
    <3> SUFFICES ASSUME NEW i \in 1..(Len(text) + 1), i # Len(text) + 1
                 PROVE  Append(text, Ours)[i] # Ours
      OBVIOUS
    <3>1. i \in 1..Len(text)
      BY <2>2
    <3> QED
      BY <2>1, <2>2, <3>1
  <2> QED
    BY <1>3, <2>2, <2>3 DEF Applied, Once
<1> QED
  BY <1>1, <1>2, <1>3

\* A block that is typed into a text moves the ones behind it.
LEMMA InsertFacts ==
  ASSUME NEW text \in Seq(Blocks), NEW i \in 1..(Len(text) + 1), NEW block \in Blocks
  PROVE  /\ InsertAt(text, i, block) \in Seq(Blocks)
         /\ Len(text) \in Nat /\ i \in Nat
         /\ DOMAIN text = 1..Len(text)
         /\ DOMAIN InsertAt(text, i, block) = 1..(Len(text) + 1)
         /\ \A k \in 1..(Len(text) + 1) : InsertAt(text, i, block)[k] =
                IF k < i THEN text[k] ELSE IF k = i THEN block ELSE text[k - 1]
<1> DEFINE low == SubSeq(text, 1, i - 1)
           high == SubSeq(text, i, Len(text))
<1>1. Len(text) \in Nat /\ i \in Nat /\ DOMAIN text = 1..Len(text)
  OBVIOUS
<1>2. /\ low \in Seq(Blocks) /\ Len(low) = i - 1
      /\ \A k \in 1..(i - 1) : low[k] = text[k]
  BY <1>1
<1>3. /\ high \in Seq(Blocks) /\ Len(high) = Len(text) - i + 1
      /\ \A k \in 1..(Len(text) - i + 1) : high[k] = text[i + k - 1]
  BY <1>1
<1> HIDE DEF low, high
<1> DEFINE half == low \o <<block>>
<1>4. /\ half \in Seq(Blocks) /\ Len(half) = i
      /\ \A k \in 1..(i - 1) : half[k] = text[k]
      /\ half[i] = block
  BY <1>1, <1>2
<1> HIDE DEF half
<1>5. /\ half \o high \in Seq(Blocks) /\ Len(half \o high) = Len(text) + 1
      /\ \A k \in 1..i : (half \o high)[k] = half[k]
      /\ \A k \in (i + 1)..(Len(text) + 1) : (half \o high)[k] = high[k - i]
  BY <1>1, <1>3, <1>4
<1>6. InsertAt(text, i, block) = half \o high
  BY DEF InsertAt, half, low, high
<1>7. ASSUME NEW k \in 1..(Len(text) + 1)
      PROVE  (half \o high)[k] = IF k < i THEN text[k] ELSE IF k = i THEN block ELSE text[k - 1]
  <2>0. k <= i \/ k > i
    BY <1>1
  <2>1. CASE k <= i
    BY <1>1, <1>4, <1>5, <2>1
  <2>2. CASE k > i
    <3>1. k - i \in 1..(Len(text) - i + 1) /\ i + (k - i) - 1 = k - 1
          /\ k \in (i + 1)..(Len(text) + 1)
      BY <1>1, <2>2
    <3>2. (half \o high)[k] = high[k - i]
      BY <1>5, <3>1
    <3>3. high[k - i] = text[k - 1]
      BY <1>3, <3>1
    <3> QED
      BY <1>1, <2>2, <3>2, <3>3
  <2> QED
    BY <2>0, <2>1, <2>2
<1>8. DOMAIN (half \o high) = 1..(Len(text) + 1)
  BY <1>1, <1>5
<1> QED
  BY <1>1, <1>5, <1>6, <1>7, <1>8

LEMMA InsertOurs ==
  ASSUME NEW text \in Seq(Blocks), NEW i \in 1..(Len(text) + 1), NEW block \in Blocks,
         block # Ours
  PROVE  /\ Once(text) => Once(InsertAt(text, i, block))
         /\ Has(InsertAt(text, i, block), Ours) => Has(text, Ours)
<1> DEFINE more == InsertAt(text, i, block)
           from(k) == IF k < i THEN k ELSE k - 1
<1>1. /\ Len(text) \in Nat /\ i \in Nat /\ DOMAIN text = 1..Len(text)
      /\ DOMAIN more = 1..(Len(text) + 1)
      /\ \A k \in 1..(Len(text) + 1) : more[k] =
             IF k < i THEN text[k] ELSE IF k = i THEN block ELSE text[k - 1]
  BY InsertFacts
<1> HIDE DEF more
<1>2. ASSUME NEW k \in DOMAIN more, more[k] = Ours
      PROVE  k # i /\ from(k) \in DOMAIN text /\ text[from(k)] = Ours
  <2>1. k \in Nat /\ k >= 1 /\ k <= Len(text) + 1
    BY <1>1
  <2>2. k # i
    BY <1>1, <1>2, <2>1
  <2>3. from(k) \in 1..Len(text)
    BY <1>1, <2>1, <2>2
  <2>4. more[k] = text[from(k)]
    BY <1>1, <2>1, <2>2
  <2> QED
    BY <1>1, <1>2, <2>2, <2>3, <2>4
<1>3. \A k, m \in DOMAIN more : k # i /\ m # i /\ from(k) = from(m) => k = m
  <2> SUFFICES ASSUME NEW k \in DOMAIN more, NEW m \in DOMAIN more, k # i, m # i,
                      from(k) = from(m)
               PROVE  k = m
    OBVIOUS
  <2>1. k \in Nat /\ m \in Nat
    BY <1>1
  <2> QED
    BY <1>1, <2>1
<1> HIDE DEF from
<1>4. Once(text) => Once(more)
  BY <1>2, <1>3 DEF Once
<1>5. Has(more, Ours) => Has(text, Ours)
  <2> SUFFICES ASSUME Has(more, Ours) PROVE Has(text, Ours)
    OBVIOUS
  <2>1. PICK k \in DOMAIN more : more[k] = Ours
    BY DEF Has, ToSet
  <2>2. from(k) \in DOMAIN text /\ text[from(k)] = Ours
    BY <1>2, <2>1
  <2> QED
    BY <2>2, TextsAreFiles DEF Has, ToSet
<1> QED
  BY <1>4, <1>5 DEF more

----------------------------------------------------------------------------
\* The types, our section, and what a deinit has taken out so far.

Pcs == Resting \cup InitSteps \cup DeinitSteps

\* The directory is made before the template in it.
Made == cmd.pc = "init_template" => dirs = 2

OnceInv == claude # Absent => Once(claude)

\* What a step of deinit has taken out is out until the user or another command puts
\* it back: the user puts back none of ours, and no command runs meanwhile.
AgyOut == {"deinit_claude", "deinit_template", "deinit_extra", "deinit_inner",
           "deinit_outer", "removed", "nothing"}
OursOut == AgyOut \ {"deinit_claude"}
TemplateOut == OursOut \ {"deinit_template"}
Undoing ==
    /\ cmd.pc = "deinit_mcp" =>
          mcp # Broken /\ cmd.data = (IF mcp # Absent /\ Agy \in mcp THEN mcp ELSE Absent)
    /\ cmd.pc \in AgyOut => mcp # Broken /\ (mcp # Absent => Agy \notin mcp)
    /\ cmd.pc \in {"deinit_mcp", "deinit_claude"} => cmd.snippet = Has(claude, Ours)
    /\ cmd.pc \in OursOut => ~Has(claude, Ours)
    /\ cmd.pc \in TemplateOut => Template \notin overlays
    /\ cmd.pc = "deinit_outer" => (dirs = 2 => overlays # {})
    /\ cmd.pc = "removed" => (dirs > 0 => overlays # {})

FilesInv == TypeOK /\ Made /\ OnceInv /\ Undoing

\* The type of the files and of the command, apart.
FilesTyped ==
    /\ checkout \in BOOLEAN
    /\ mcp \in Entries \cup {Absent, Broken}
    /\ config \in {"absent", "template", "own"}
    /\ overlays \subseteq Overlays \cup {Template} /\ dirs \in 0..2
    /\ overlays # {} => dirs = 2
    /\ claude # Absent => claude \in Seq(Blocks)
RunTyped == cmd \in Commands /\ edits \in 0..MaxEdits /\ kills \in 0..MaxKills

LEMMA TypesSplit == TypeOK <=> FilesTyped /\ RunTyped
<1>1. TypeOK => FilesTyped /\ RunTyped
  BY Zenon DEF TypeOK, FilesTyped, RunTyped, Entries
<1>2. FilesTyped /\ RunTyped => TypeOK
  BY Zenon DEF TypeOK, FilesTyped, RunTyped, Entries
<1> QED
  BY <1>1, <1>2

\* The parts of a command.
Data == Entries \cup {Absent}
Extras == SUBSET (Overlays \cup {Config})

LEMMA CommandsAre == Commands = [pc : Pcs, data : Data, snippet : BOOLEAN, extra : Extras]
  BY Zenon DEF Commands, Pcs, Data, Entries, Extras

LEMMA PcsOf ==
  /\ \A pc \in {"idle", "initialised", "removed", "init_mcp", "init_config", "init_dirs",
                "init_template", "init_smoke", "init_claude", "deinit_mcp", "deinit_claude",
                "deinit_template", "deinit_extra", "deinit_inner", "deinit_outer",
                "nothing"} : pc \in Pcs
  BY DEF Pcs, Resting, InitSteps, DeinitSteps

LEMMA GoTypes ==
  ASSUME cmd \in Commands, NEW pc \in Pcs, Go(pc)
  PROVE  /\ cmd' \in Commands /\ cmd'.pc = pc /\ cmd'.data = cmd.data
         /\ cmd'.snippet = cmd.snippet /\ cmd'.extra = cmd.extra
  BY CommandsAre DEF Go

LEMMA CommandTypes ==
  ASSUME NEW pc \in Pcs, cmd' = Command(pc)
  PROVE  cmd' \in Commands /\ cmd'.pc = pc
<1>1. Absent \in Data /\ {} \in Extras
  BY DEF Data, Extras
<1> QED
  BY <1>1, CommandsAre DEF Command

LEMMA KilledTypes ==
  ASSUME RunTyped, Killed, edits' = edits
  PROVE  RunTyped' /\ cmd'.pc = "idle" /\ kills' # kills
<1>1. cmd' \in Commands /\ cmd'.pc = "idle"
  BY PcsOf, CommandTypes DEF Killed
<1>2. kills' \in 0..MaxKills /\ kills' # kills
  BY InstallAssumption DEF Killed, RunTyped
<1> QED
  BY <1>1, <1>2 DEF RunTyped

\* A step of a command goes on, begins or ends another one, or is killed.
LEMMA StepTypes ==
  ASSUME RunTyped, edits' = edits, NEW pc \in Pcs,
         ((Go(pc) \/ cmd' = Command(pc)) /\ kills' = kills) \/ Killed
  PROVE  RunTyped'
  BY GoTypes, CommandTypes, KilledTypes DEF RunTyped

LEMMA InitTypes ==
  ASSUME FilesTyped, RunTyped, Made,
         \/ InitBegins \/ InitMcp \/ InitConfig \/ InitDirs \/ InitTemplate \/ InitSmoke
         \/ \E approved \in BOOLEAN : InitClaude(approved)
  PROVE  FilesTyped' /\ RunTyped' /\ Made'
<1>0. cmd \in Commands
  BY DEF RunTyped
<1>1. CASE InitBegins
  <2>1. RunTyped' /\ cmd'.pc = "init_mcp"
    BY <1>1, PcsOf, StepTypes, CommandTypes DEF InitBegins
  <2>2. FilesTyped' /\ Made'
    BY <1>1, <2>1 DEF InitBegins, FilesTyped, Made
  <2> QED BY <2>1, <2>2
<1>2. CASE InitMcp
  <2>1. mcp \in Entries \cup {Absent, Broken}
    BY DEF FilesTyped
  <2>2. PICK entries \in Entries :
           \/ cmd' = Command("idle") /\ mcp' = mcp /\ kills' = kills
           \/ WriteMcp(entries, "init_config")
    <3>1. CASE mcp = Broken
      <4>1. {} \in Entries /\ cmd' = Command("idle") /\ mcp' = mcp /\ kills' = kills
        BY <1>2, <3>1 DEF InitMcp, Entries
      <4> QED BY <4>1
    <3>2. CASE mcp # Broken
      <4>1. (IF mcp = Absent THEN {Agy} ELSE mcp \cup {Agy}) \in Entries
        BY <2>1, <3>2 DEF Entries
      <4>2. WriteMcp(IF mcp = Absent THEN {Agy} ELSE mcp \cup {Agy}, "init_config")
        BY <1>2, <3>2 DEF InitMcp
      <4> QED BY <4>1, <4>2
    <3> QED BY <3>1, <3>2
  <2>3. edits' = edits /\ UNCHANGED <<checkout, config, overlays, dirs, claude>>
    BY <1>2 DEF InitMcp
  <2>4. RunTyped' /\ cmd'.pc \in {"idle", "init_config"}
    BY <1>0, <2>2, <2>3, PcsOf, StepTypes, GoTypes, CommandTypes, KilledTypes DEF WriteMcp
  <2>5. mcp' \in Entries \cup {Absent, Broken}
    BY <2>1, <2>2 DEF WriteMcp
  <2>6. FilesTyped' /\ Made'
    BY <2>3, <2>4, <2>5 DEF FilesTyped, Made
  <2> QED BY <2>4, <2>6
<1>3. CASE InitConfig
  <2>1. RunTyped' /\ cmd'.pc = "init_dirs"
    BY <1>0, <1>3, PcsOf, StepTypes, GoTypes DEF InitConfig
  <2>2. FilesTyped' /\ Made'
    BY <1>3, <2>1 DEF InitConfig, FilesTyped, Made
  <2> QED BY <2>1, <2>2
<1>4. CASE InitDirs
  <2>1. /\ (dirs = 0 /\ Go("init_dirs")) \/ (dirs # 0 /\ Go("init_template"))
        /\ kills' = kills /\ edits' = edits
    BY <1>4 DEF InitDirs
  <2>2. RunTyped' /\ cmd'.pc = (IF dirs = 0 THEN "init_dirs" ELSE "init_template")
    BY <1>0, <2>1, PcsOf, StepTypes, GoTypes
  <2>3. dirs' = (IF dirs = 0 THEN 1 ELSE 2)
        /\ UNCHANGED <<checkout, mcp, config, overlays, claude>>
    BY <1>4 DEF InitDirs
  <2>4. FilesTyped' /\ Made'
    BY <2>2, <2>3 DEF FilesTyped, Made
  <2> QED BY <2>2, <2>4
<1>5. CASE InitTemplate
  <2>1. RunTyped' /\ cmd'.pc = "init_smoke" /\ dirs = 2
    BY <1>0, <1>5, PcsOf, StepTypes, GoTypes DEF InitTemplate, Made
  <2>2. FilesTyped' /\ Made'
    BY <1>5, <2>1 DEF InitTemplate, FilesTyped, Made
  <2> QED BY <2>1, <2>2
<1>6. CASE InitSmoke
  <2>1. RunTyped' /\ cmd'.pc \in {"init_claude", "idle"}
    BY <1>0, <1>6, PcsOf, StepTypes, GoTypes, CommandTypes DEF InitSmoke
  <2>2. FilesTyped' /\ Made'
    BY <1>6, <2>1 DEF InitSmoke, FilesTyped, Made
  <2> QED BY <2>1, <2>2
<1>7. ASSUME NEW approved \in BOOLEAN, InitClaude(approved)
      PROVE  FilesTyped' /\ RunTyped' /\ Made'
  <2>1. edits' = edits /\ UNCHANGED <<checkout, mcp, config, overlays, dirs>>
    BY <1>7 DEF InitClaude
  <2>2. /\ (Go("initialised") /\ kills' = kills) \/ Killed
        /\ claude' \in {claude, Applied(claude), <<>>}
    BY <1>7 DEF InitClaude, WriteClaude
  <2>3. RunTyped' /\ cmd'.pc \in {"initialised", "idle"}
    BY <1>0, <2>1, <2>2, PcsOf, StepTypes, GoTypes, KilledTypes
  <2>4. claude' # Absent => claude' \in Seq(Blocks)
    BY <2>2, AppliedFacts, EmptyHeaded DEF FilesTyped
  <2>5. FilesTyped' /\ Made'
    BY <2>1, <2>3, <2>4 DEF FilesTyped, Made
  <2> QED BY <2>3, <2>5
<1> QED BY <1>1, <1>2, <1>3, <1>4, <1>5, <1>6, <1>7

LEMMA DeinitTypes ==
  ASSUME FilesTyped, RunTyped, Undoing,
         \/ \E purge \in BOOLEAN : DeinitBegins(purge)
         \/ DeinitMcp \/ DeinitClaude \/ DeinitTemplate \/ DeinitInner \/ DeinitOuter
         \/ \E left \in SUBSET cmd.extra : DeinitExtra(left)
         \/ Kill
  PROVE  FilesTyped' /\ RunTyped' /\ Made'
<1>0. /\ cmd \in Commands /\ cmd.data \in Entries \cup {Absent}
      /\ mcp \in Entries \cup {Absent, Broken} /\ overlays \subseteq Overlays \cup {Template}
  BY CommandsAre DEF RunTyped, FilesTyped, Data
<1>1. ASSUME NEW purge \in BOOLEAN, DeinitBegins(purge)
      PROVE  FilesTyped' /\ RunTyped' /\ Made'
  <2>0. UNCHANGED <<checkout, mcp, config, overlays, dirs, claude, edits, kills>>
    BY <1>1 DEF DeinitBegins
  <2>1. CASE cmd' = Command("nothing")
    <3>1. RunTyped' /\ cmd'.pc = "nothing"
      BY <1>0, <2>0, <2>1, PcsOf, StepTypes, CommandTypes
    <3> QED BY <2>0, <3>1 DEF FilesTyped, Made
  <2>2. CASE cmd' # Command("nothing")
    <3>1. PICK data, snippet, extra :
             /\ data \in Entries \cup {Absent} /\ snippet \in BOOLEAN
             /\ extra \in SUBSET (Overlays \cup {Config})
             /\ cmd' = [pc |-> "deinit_mcp", data |-> data, snippet |-> snippet, extra |-> extra]
      <4> DEFINE agy == mcp # Absent /\ Agy \in mcp
                 data == IF agy THEN mcp ELSE Absent
                 extra == IF purge THEN (overlays \ {Template})
                                        \cup (IF config = "absent" THEN {} ELSE {Config})
                          ELSE {}
      <4>1. cmd' = [pc |-> "deinit_mcp", data |-> data, snippet |-> Has(claude, Ours),
                    extra |-> extra]
        BY <1>1, <2>2 DEF DeinitBegins
      <4>2. data \in Entries \cup {Absent}
        BY <1>0, <1>1 DEF DeinitBegins
      <4>3. extra \in SUBSET (Overlays \cup {Config})
        BY <1>0
      <4>4. Has(claude, Ours) \in BOOLEAN
        BY DEF Has
      <4> HIDE DEF data, extra
      <4> QED BY <4>1, <4>2, <4>3, <4>4
    <3>2. cmd' \in Commands /\ cmd'.pc = "deinit_mcp"
      BY <3>1, PcsOf, CommandsAre DEF Data, Extras
    <3> QED BY <2>0, <3>2 DEF FilesTyped, RunTyped, Made
  <2> QED BY <2>1, <2>2
<1>2. CASE DeinitMcp
  <2>1. edits' = edits /\ UNCHANGED <<checkout, config, overlays, dirs, claude>>
    BY <1>2 DEF DeinitMcp
  <2>2. /\ (Go("deinit_claude") /\ kills' = kills) \/ Killed
        /\ mcp' \in {mcp, Broken} \/ (cmd.data # Absent /\ mcp' = cmd.data \ {Agy})
    BY <1>2 DEF DeinitMcp, WriteMcp
  <2>3. RunTyped' /\ cmd'.pc \in {"deinit_claude", "idle"}
    BY <1>0, <2>1, <2>2, PcsOf, StepTypes, GoTypes, KilledTypes
  <2>4. mcp' \in Entries \cup {Absent, Broken}
    BY <1>0, <2>2 DEF Entries
  <2> QED BY <2>1, <2>3, <2>4 DEF FilesTyped, Made
<1>3. CASE DeinitClaude
  <2>1. edits' = edits /\ UNCHANGED <<checkout, mcp, config, overlays, dirs>>
    BY <1>3 DEF DeinitClaude
  <2>2. (Go("deinit_template") /\ kills' = kills) \/ Killed
    BY <1>3 DEF DeinitClaude, WriteClaude
  <2>3. RunTyped' /\ cmd'.pc \in {"deinit_template", "idle"}
    BY <1>0, <2>1, <2>2, PcsOf, StepTypes, GoTypes, KilledTypes
  <2>4. claude' \in {claude, Absent, <<>>, Without(claude)}
    BY <1>3 DEF DeinitClaude, WriteClaude
  <2>5. claude' # Absent => claude' \in Seq(Blocks)
    <3>1. CASE claude # Absent
      BY <2>4, <3>1, WithoutFacts, EmptyHeaded DEF FilesTyped
    <3>2. CASE claude = Absent
      <4>1. ~cmd.snippet
        BY <1>3, <3>2 DEF DeinitClaude, Undoing, Has
      <4> QED BY <1>3, <3>2, <4>1 DEF DeinitClaude
    <3> QED BY <3>1, <3>2
  <2> QED BY <2>1, <2>3, <2>5 DEF FilesTyped, Made
<1>4. CASE DeinitTemplate
  <2>1. RunTyped' /\ cmd'.pc = "deinit_extra"
    BY <1>0, <1>4, PcsOf, StepTypes, GoTypes DEF DeinitTemplate
  <2> QED BY <1>4, <2>1 DEF DeinitTemplate, FilesTyped, Made
<1>5. CASE DeinitInner \/ DeinitOuter
  <2>1. RunTyped' /\ cmd'.pc \in {"deinit_outer", "removed"}
    BY <1>0, <1>5, PcsOf, StepTypes, GoTypes, CommandTypes DEF DeinitInner, DeinitOuter
  <2>2. dirs' \in 0..2 /\ (overlays # {} => dirs' = dirs)
    BY <1>5 DEF DeinitInner, DeinitOuter, Rmdir, Directories, FilesTyped
  <2>3. UNCHANGED <<checkout, mcp, config, overlays, claude>>
    BY <1>5 DEF DeinitInner, DeinitOuter
  <2> QED BY <2>1, <2>2, <2>3 DEF FilesTyped, Made
<1>6. ASSUME NEW left \in SUBSET cmd.extra, DeinitExtra(left)
      PROVE  FilesTyped' /\ RunTyped' /\ Made'
  <2>1. RunTyped' /\ cmd'.pc = "deinit_inner"
    BY <1>0, <1>6, PcsOf, StepTypes, GoTypes DEF DeinitExtra
  <2> QED BY <1>6, <2>1 DEF DeinitExtra, FilesTyped, Made
<1>7. CASE Kill
  <2>1. RunTyped' /\ cmd'.pc = "idle"
    BY <1>7, KilledTypes DEF Kill
  <2> QED BY <1>7, <2>1 DEF Kill, FilesTyped, Made
<1> QED BY <1>1, <1>2, <1>3, <1>4, <1>5, <1>6, <1>7

LEMMA EditTypes ==
  ASSUME FilesTyped, RunTyped, Made,
         \/ EditConfig
         \/ \E s \in Servers : EditMcp(s)
         \/ \E o \in Overlays : EditOverlay(o)
         \/ \E block \in Sections \cup Chapters :
                \E i \in 1..(Cardinality(Blocks) + 1) : EditClaude(block, i)
  PROVE  FilesTyped' /\ RunTyped' /\ Made'
<1>1. cmd' = cmd /\ kills' = kills /\ cmd.pc # "init_template" /\ MayEdit
  BY DEF EditConfig, EditMcp, EditOverlay, EditClaude, MayEdit, Resting
<1>2. RunTyped' /\ Made'
  BY <1>1, InstallAssumption DEF RunTyped, Made, MayEdit
<1>3. CASE EditConfig
  BY <1>2, <1>3 DEF EditConfig, FilesTyped
<1>4. ASSUME NEW s \in Servers, EditMcp(s) PROVE FilesTyped'
  <2>1. mcp' \in Entries
    BY <1>4 DEF EditMcp, FilesTyped, Entries
  <2> QED BY <1>4, <2>1 DEF EditMcp, FilesTyped
<1>5. ASSUME NEW o \in Overlays, EditOverlay(o) PROVE FilesTyped'
  BY <1>5 DEF EditOverlay, FilesTyped
<1>6. ASSUME NEW block \in Sections \cup Chapters, NEW i, EditClaude(block, i) PROVE FilesTyped'
  <2>1. PICK text \in Seq(Blocks) : i \in 1..(Len(text) + 1) /\ claude' = InsertAt(text, i, block)
    BY <1>6, EmptyHeaded DEF EditClaude, FilesTyped
  <2>2. claude' \in Seq(Blocks)
    BY <2>1, InsertFacts DEF Blocks
  <2>3. UNCHANGED <<checkout, mcp, config, overlays, dirs>>
    BY <1>6 DEF EditClaude
  <2> QED BY <2>2, <2>3 DEF FilesTyped
<1> QED BY <1>2, <1>3, <1>4, <1>5, <1>6

LEMMA InitFiles == Init => FilesInv
<1> SUFFICES ASSUME Init PROVE FilesInv
  OBVIOUS
<1>1. cmd \in Commands /\ cmd.pc = "idle"
  <2>1. Absent \in Data /\ {} \in Extras
    BY DEF Data, Extras
  <2> QED
    BY <2>1, PcsOf, CommandsAre DEF Init, Command
<1>2. FilesTyped /\ RunTyped
  BY <1>1, InstallAssumption DEF Init, FilesTyped, RunTyped
<1>3. Made /\ OnceInv /\ Undoing
  BY <1>1 DEF Init, Made, OnceInv, Undoing, AgyOut, OursOut, TemplateOut
<1> QED
  BY <1>2, <1>3, TypesSplit DEF FilesInv

LEMMA TypesStep == FilesInv /\ [Next]_vars => FilesTyped' /\ RunTyped' /\ Made'
<1> SUFFICES ASSUME FilesInv, [Next]_vars PROVE FilesTyped' /\ RunTyped' /\ Made'
  OBVIOUS
<1>0. FilesTyped /\ RunTyped /\ Made /\ Undoing
  BY TypesSplit DEF FilesInv
<1>1. CASE UNCHANGED vars
  BY <1>0, <1>1 DEF vars, FilesTyped, RunTyped, Made
<1>2. CASE Next
  BY <1>0, <1>2, InitTypes, DeinitTypes, EditTypes DEF Next
<1> QED BY <1>1, <1>2

\* What a step does to CLAUDE.md: it stays, gets our section or loses it, is emptied or
\* removed, or the user adds a block.
LEMMA ClaudeSteps ==
  ASSUME FilesInv, [Next]_vars
  PROVE  \/ claude' = claude
         \/ cmd.pc = "init_claude" /\ claude' \in {Applied(claude), <<>>}
         \/ /\ cmd.pc = "deinit_claude" /\ cmd.snippet /\ claude \in Seq(Blocks)
            /\ claude' \in {Without(claude), <<>>, Absent}
         \/ /\ cmd' = cmd /\ cmd.pc \notin DeinitSteps
            /\ \E text \in Seq(Blocks) : \E block \in Blocks, i \in 1..(Len(text) + 1) :
                  /\ text = IF claude = Absent THEN <<>> ELSE claude
                  /\ block # Ours /\ claude' = InsertAt(text, i, block)
<1>0. (claude # Absent => claude \in Seq(Blocks)) /\ Undoing
  BY DEF FilesInv, TypeOK
<1>1. ASSUME NEW approved \in BOOLEAN, InitClaude(approved)
      PROVE  claude' = claude \/ (cmd.pc = "init_claude" /\ claude' \in {Applied(claude), <<>>})
  BY <1>1 DEF InitClaude, WriteClaude
<1>2. ASSUME DeinitClaude, claude' # claude
      PROVE  /\ cmd.pc = "deinit_claude" /\ cmd.snippet /\ claude \in Seq(Blocks)
             /\ claude' \in {Without(claude), <<>>, Absent}
  <2>1. cmd.pc = "deinit_claude" /\ cmd.snippet /\ claude' \in {Without(claude), <<>>, Absent}
    BY <1>2 DEF DeinitClaude, WriteClaude
  <2>2. claude # Absent
    BY <1>0, <2>1 DEF Undoing, Has
  <2> QED BY <1>0, <2>1, <2>2
<1>3. ASSUME NEW block \in Sections \cup Chapters, NEW i, EditClaude(block, i)
      PROVE  /\ cmd' = cmd /\ cmd.pc \notin DeinitSteps
             /\ \E text \in Seq(Blocks) : \E b \in Blocks, k \in 1..(Len(text) + 1) :
                   /\ text = IF claude = Absent THEN <<>> ELSE claude
                   /\ b # Ours /\ claude' = InsertAt(text, k, b)
  <2>1. PICK text \in Seq(Blocks) : /\ text = IF claude = Absent THEN <<>> ELSE claude
                                    /\ i \in 1..(Len(text) + 1)
                                    /\ claude' = InsertAt(text, i, block)
    BY <1>0, <1>3, EmptyHeaded DEF EditClaude
  <2>2. block \in Blocks /\ block # Ours
    BY InstallAssumption DEF Blocks
  <2>3. cmd' = cmd /\ cmd.pc \notin DeinitSteps
    BY <1>3 DEF EditClaude, MayEdit, Resting, DeinitSteps
  <2> QED BY <2>1, <2>2, <2>3
<1>4. (\A approved \in BOOLEAN : ~InitClaude(approved)) /\ ~DeinitClaude
      /\ (\A block \in Sections \cup Chapters : \A i \in 1..(Cardinality(Blocks) + 1) :
             ~EditClaude(block, i))
      => claude' = claude
  BY DEF Next, vars, InitBegins, InitMcp, InitConfig, InitDirs, InitTemplate, InitSmoke,
         DeinitBegins, DeinitMcp, DeinitTemplate, DeinitInner, DeinitOuter, DeinitExtra, Kill, EditConfig,
         EditMcp, EditOverlay
<1> QED BY <1>1, <1>2, <1>3, <1>4

LEMMA NoneOnce ==
  /\ Once(<<>>)
  /\ \A text : ~Has(text, Ours) /\ text # Absent => Once(text)
  BY DEF Once, Has, ToSet

LEMMA OnceStep == FilesInv /\ [Next]_vars => OnceInv'
<1> SUFFICES ASSUME FilesInv, [Next]_vars, claude' # Absent PROVE Once(claude')
  BY DEF OnceInv, Once
<1>0. claude # Absent => claude \in Seq(Blocks) /\ Once(claude)
  BY DEF FilesInv, TypeOK, OnceInv
<1>1. CASE claude' = claude
  BY <1>0, <1>1
<1>2. CASE claude' \in {Applied(claude), <<>>}
  BY <1>0, <1>2, AppliedOnce, NoneOnce
<1>3. CASE claude \in Seq(Blocks) /\ claude' \in {Without(claude), <<>>, Absent}
  BY <1>3, WithoutFacts, TextsAreFiles, NoneOnce
<1>4. ASSUME NEW text \in Seq(Blocks), NEW block \in Blocks, NEW i \in 1..(Len(text) + 1),
             text = IF claude = Absent THEN <<>> ELSE claude,
             block # Ours, claude' = InsertAt(text, i, block)
      PROVE  Once(claude')
  <2>1. Once(text)
    BY <1>0, <1>4, NoneOnce
  <2> QED BY <1>4, <2>1, InsertOurs
<1> QED BY <1>1, <1>2, <1>3, <1>4, ClaudeSteps

\* Whether CLAUDE.md has our section changes when init or deinit writes the file.
LEMMA OursStays ==
  ASSUME FilesInv, [Next]_vars, cmd.pc \notin {"init_claude", "deinit_claude"}
  PROVE  /\ Has(claude', Ours) => Has(claude, Ours)
         /\ cmd.pc \in DeinitSteps => claude' = claude
<1>0. \A c : Has(c, Ours) => c # Absent
  BY DEF Has
<1>1. ASSUME NEW text \in Seq(Blocks), NEW block \in Blocks, NEW i \in 1..(Len(text) + 1),
             text = IF claude = Absent THEN <<>> ELSE claude,
             block # Ours, claude' = InsertAt(text, i, block), Has(claude', Ours)
      PROVE  Has(claude, Ours)
  <2>1. Has(text, Ours)
    BY <1>1, InsertOurs
  <2>2. ~Has(<<>>, Ours)
    BY DEF Has, ToSet
  <2> QED BY <1>1, <2>1, <2>2
<1> QED BY <1>1, ClaudeSteps

LEMMA UndoPhases ==
  /\ AgyOut \subseteq DeinitSteps \cup {"removed", "nothing"}
  /\ OursOut \subseteq AgyOut /\ TemplateOut \subseteq OursOut
  /\ "idle" \notin AgyOut /\ "init_mcp" \notin AgyOut /\ "init_config" \notin AgyOut
  /\ "init_dirs" \notin AgyOut /\ "init_template" \notin AgyOut /\ "init_smoke" \notin AgyOut
  /\ "init_claude" \notin AgyOut /\ "initialised" \notin AgyOut
  /\ "deinit_mcp" \notin AgyOut /\ "deinit_claude" \in AgyOut \ OursOut
  /\ "deinit_template" \in OursOut \ TemplateOut /\ "deinit_extra" \in TemplateOut
  /\ "deinit_inner" \in TemplateOut /\ "deinit_outer" \in TemplateOut
  /\ "removed" \in TemplateOut /\ "nothing" \in TemplateOut
  BY DEF AgyOut, OursOut, TemplateOut, DeinitSteps

\* A command that installs, or ended early, has taken out nothing.
LEMMA NotUndoing ==
  ASSUME cmd'.pc \in {"idle", "initialised"} \cup InitSteps
  PROVE  Undoing'
  BY DEF Undoing, AgyOut, OursOut, TemplateOut, InitSteps

LEMMA InitPc ==
  ASSUME RunTyped,
         \/ InitBegins \/ InitMcp \/ InitConfig \/ InitDirs \/ InitTemplate \/ InitSmoke
         \/ (\E approved \in BOOLEAN : InitClaude(approved)) \/ Kill
  PROVE  cmd'.pc \in {"idle", "initialised"} \cup InitSteps
<1>0. cmd \in Commands
  BY DEF RunTyped
<1>1. \A pc \in {"idle", "initialised", "init_mcp", "init_config", "init_dirs",
                 "init_template", "init_smoke", "init_claude"} :
         pc \in Pcs /\ pc \in {"idle", "initialised"} \cup InitSteps
  BY PcsOf DEF InitSteps
<1>2. PICK pc \in {"idle", "initialised", "init_mcp", "init_config", "init_dirs",
                   "init_template", "init_smoke", "init_claude"} : Go(pc) \/ cmd' = Command(pc)
  BY DEF InitBegins, InitMcp, InitConfig, InitDirs, InitTemplate, InitSmoke, InitClaude, Kill,
         Killed, WriteMcp, WriteClaude
<1> QED BY <1>0, <1>1, <1>2, GoTypes, CommandTypes

LEMMA BeginUndoes ==
  ASSUME FilesInv, NEW purge \in BOOLEAN, DeinitBegins(purge)
  PROVE  Undoing'
<1>0. mcp # Broken /\ UNCHANGED <<mcp, overlays, claude>>
  BY DEF DeinitBegins
<1>1. Has(claude', Ours) = Has(claude, Ours)
  BY <1>0
<1>2. CASE cmd' = Command("nothing")
  <2>1. (mcp # Absent => Agy \notin mcp) /\ ~Has(claude, Ours) /\ Template \notin overlays
    BY <1>2 DEF DeinitBegins, Command
  <2>2. cmd'.pc = "nothing"
    BY <1>2 DEF Command
  <2> QED
    BY <1>0, <1>1, <2>1, <2>2, UndoPhases DEF Undoing
<1>3. CASE cmd' # Command("nothing")
  <2>1. /\ cmd'.pc = "deinit_mcp"
        /\ cmd'.data = (IF mcp # Absent /\ Agy \in mcp THEN mcp ELSE Absent)
        /\ cmd'.snippet = Has(claude, Ours)
    BY <1>3 DEF DeinitBegins
  <2> QED
    BY <1>0, <1>1, <2>1, UndoPhases DEF Undoing
<1> QED
  BY <1>2, <1>3

LEMMA McpUndoes ==
  ASSUME FilesInv, DeinitMcp
  PROVE  Undoing'
<1>0. /\ cmd \in Commands /\ cmd.data \in Entries \cup {Absent} /\ Undoing
      /\ cmd.pc = "deinit_mcp" /\ UNCHANGED claude /\ edits' = edits /\ RunTyped
  BY TypesSplit, CommandsAre DEF FilesInv, RunTyped, Data, DeinitMcp
<1>1. CASE Killed
  <2>1. cmd'.pc = "idle"
    BY <1>0, <1>1, KilledTypes
  <2> QED
    BY <2>1, NotUndoing
<1>2. CASE ~Killed
  <2>1. Go("deinit_claude") /\ mcp' = (IF cmd.data = Absent THEN mcp ELSE cmd.data \ {Agy})
    BY <1>2 DEF DeinitMcp, WriteMcp
  <2>2. cmd'.pc = "deinit_claude" /\ cmd'.snippet = cmd.snippet
    BY <1>0, <2>1, PcsOf, GoTypes
  <2>3. cmd'.snippet = Has(claude', Ours)
    BY <1>0, <2>2 DEF Undoing
  <2>4. mcp' # Broken /\ (mcp' # Absent => Agy \notin mcp')
    <3>1. CASE cmd.data = Absent
      <4>1. mcp # Broken /\ ~(mcp # Absent /\ Agy \in mcp)
        BY <1>0, <3>1 DEF Undoing
      <4> QED
        BY <2>1, <3>1, <4>1
    <3>2. CASE cmd.data # Absent
      <4>1. cmd.data \ {Agy} \in Entries
        BY <1>0, <3>2 DEF Entries
      <4> QED
        BY <2>1, <3>2, <4>1, EntriesAreData
    <3> QED
      BY <3>1, <3>2
  <2> QED
    BY <2>2, <2>3, <2>4, UndoPhases DEF Undoing
<1> QED
  BY <1>1, <1>2

LEMMA ClaudeUndoes ==
  ASSUME FilesInv, DeinitClaude
  PROVE  Undoing'
<1>0. /\ cmd \in Commands /\ RunTyped /\ Undoing /\ cmd.pc = "deinit_claude"
      /\ UNCHANGED mcp /\ edits' = edits /\ (claude # Absent => claude \in Seq(Blocks))
  BY TypesSplit DEF FilesInv, RunTyped, DeinitClaude, TypeOK
<1>1. CASE Killed
  <2>1. cmd'.pc = "idle"
    BY <1>0, <1>1, KilledTypes
  <2> QED
    BY <2>1, NotUndoing
<1>2. CASE ~Killed
  <2>1. Go("deinit_template")
    BY <1>2 DEF DeinitClaude, WriteClaude
  <2>2. cmd'.pc = "deinit_template"
    BY <1>0, <2>1, PcsOf, GoTypes
  <2>3. cmd.snippet = Has(claude, Ours) /\ mcp # Broken /\ (mcp # Absent => Agy \notin mcp)
    BY <1>0, UndoPhases DEF Undoing
  <2>4. ~Has(claude', Ours)
    <3>1. CASE ~cmd.snippet
      BY <2>3, <3>1 DEF DeinitClaude
    <3>2. CASE cmd.snippet
      <4>1. claude \in Seq(Blocks)
        BY <1>0, <2>3, <3>2 DEF Has
      <4>2. claude' \in {Absent, Without(claude)}
        BY <1>2, <3>2 DEF DeinitClaude, WriteClaude
      <4>3. ~Has(Absent, Ours)
        BY DEF Has
      <4> QED
        BY <4>1, <4>2, <4>3, WithoutFacts
    <3> QED
      BY <3>1, <3>2
  <2> QED
    BY <1>0, <2>2, <2>3, <2>4, UndoPhases DEF Undoing
<1> QED
  BY <1>1, <1>2

\* The steps after the files: the template, what --purge-config adds, the directories.
LEMMA RestUndoes ==
  ASSUME FilesInv,
         \/ DeinitTemplate \/ DeinitInner \/ DeinitOuter
         \/ \E left \in SUBSET cmd.extra : DeinitExtra(left)
  PROVE  Undoing'
<1>0. /\ cmd \in Commands /\ Undoing /\ UNCHANGED <<mcp, claude>> /\ dirs \in 0..2
      /\ overlays # {} => dirs = 2
      /\ cmd.pc \in {"deinit_template", "deinit_extra", "deinit_inner", "deinit_outer"}
  BY TypesSplit DEF FilesInv, FilesTyped, RunTyped, DeinitTemplate, DeinitInner, DeinitOuter,
                    DeinitExtra
<1>1. mcp # Broken /\ (mcp # Absent => Agy \notin mcp) /\ ~Has(claude, Ours)
  BY <1>0, UndoPhases DEF Undoing
<1>2. ~Has(claude', Ours) /\ mcp' # Broken /\ (mcp' # Absent => Agy \notin mcp')
  BY <1>0, <1>1
<1>3. CASE DeinitTemplate
  <2>1. cmd'.pc = "deinit_extra" /\ Template \notin overlays'
    BY <1>0, <1>3, PcsOf, GoTypes DEF DeinitTemplate
  <2> QED
    BY <1>2, <2>1, UndoPhases DEF Undoing
<1>4. ASSUME NEW left \in SUBSET cmd.extra, DeinitExtra(left)
      PROVE  Undoing'
  <2>1. cmd'.pc = "deinit_inner" /\ Template \notin overlays'
    BY <1>0, <1>4, PcsOf, GoTypes, UndoPhases DEF DeinitExtra, Undoing
  <2> QED
    BY <1>2, <2>1, UndoPhases DEF Undoing
<1>5. CASE DeinitInner
  <2>1. cmd'.pc = "deinit_outer" /\ Template \notin overlays /\ overlays' = overlays
    BY <1>0, <1>5, PcsOf, GoTypes, UndoPhases DEF DeinitInner, Undoing
  <2>2. dirs' = 2 => overlays' # {}
    BY <1>0, <1>5, <2>1 DEF DeinitInner, Rmdir, Directories
  <2> QED
    BY <1>2, <2>1, <2>2, UndoPhases DEF Undoing
<1>6. CASE DeinitOuter
  <2>1. cmd'.pc = "removed" /\ Template \notin overlays /\ overlays' = overlays
    BY <1>0, <1>6, PcsOf, CommandTypes, UndoPhases DEF DeinitOuter, Undoing
  <2>2. dirs = 2 => overlays # {}
    BY <1>0, <1>6 DEF DeinitOuter, Undoing
  <2>3. dirs' > 0 => overlays' # {}
    BY <1>0, <1>6, <2>1, <2>2 DEF DeinitOuter, Rmdir, Directories
  <2> QED
    BY <1>2, <2>1, <2>3, UndoPhases DEF Undoing
<1> QED
  BY <1>3, <1>4, <1>5, <1>6

LEMMA EditUndoes ==
  ASSUME FilesInv, [Next]_vars, cmd' = cmd, cmd.pc \notin DeinitSteps \cup {"init_claude"},
         mcp' = mcp \/ (mcp \in Entries \cup {Absent} /\ \E s \in Servers :
                            mcp' = IF mcp = Absent THEN {s} ELSE mcp \cup {s})
                    \/ cmd.pc \notin {"removed", "nothing"},
         \/ overlays' = overlays /\ dirs' = dirs
         \/ \E o \in Overlays : overlays' = overlays \cup {o}
  PROVE  Undoing'
<1>0. Undoing
  BY DEF FilesInv
<1>1. CASE cmd.pc \notin {"removed", "nothing"}
  <2>1. cmd'.pc \notin AgyOut /\ cmd'.pc \notin {"deinit_mcp", "deinit_claude"}
    BY <1>1, UndoPhases DEF DeinitSteps
  <2> QED
    BY <1>1, <2>1, UndoPhases DEF Undoing, DeinitSteps
<1>2. CASE cmd.pc \in {"removed", "nothing"}
  <2>1. /\ mcp # Broken /\ (mcp # Absent => Agy \notin mcp) /\ ~Has(claude, Ours)
        /\ Template \notin overlays /\ (cmd.pc = "removed" => (dirs > 0 => overlays # {}))
    BY <1>0, <1>2, UndoPhases DEF Undoing
  <2>2. ~Has(claude', Ours)
    BY <1>2, <2>1, OursStays
  <2>3. mcp' # Broken /\ (mcp' # Absent => Agy \notin mcp')
    <3>1. CASE mcp' = mcp
      BY <2>1, <3>1
    <3>2. ASSUME mcp \in Entries \cup {Absent}, NEW s \in Servers,
                 mcp' = IF mcp = Absent THEN {s} ELSE mcp \cup {s}
          PROVE  mcp' # Broken /\ (mcp' # Absent => Agy \notin mcp')
      <4>1. mcp' \in Entries
        BY <3>2 DEF Entries
      <4>2. s # Agy
        BY InstallAssumption
      <4> QED
        BY <2>1, <3>2, <4>1, <4>2, EntriesAreData
    <3> QED
      BY <1>2, <3>1, <3>2
  <2>4. Template \notin overlays' /\ (cmd.pc = "removed" => (dirs' > 0 => overlays' # {}))
    BY <2>1, InstallAssumption
  <2>5. cmd'.pc = cmd.pc /\ cmd.pc \in {"removed", "nothing"}
    BY <1>2
  <2> QED
    BY <2>2, <2>3, <2>4, <2>5, UndoPhases DEF Undoing
<1> QED
  BY <1>1, <1>2

LEMMA UndoStep == FilesInv /\ [Next]_vars => Undoing'
<1> SUFFICES ASSUME FilesInv, [Next]_vars PROVE Undoing'
  OBVIOUS
<1>0. RunTyped /\ Undoing /\ mcp \in Entries \cup {Absent, Broken}
  BY TypesSplit DEF FilesInv, FilesTyped
<1>1. CASE UNCHANGED vars
  <2>1. UNCHANGED <<mcp, overlays, dirs, claude, cmd>>
    BY <1>1 DEF vars
  <2>2. Has(claude', Ours) = Has(claude, Ours)
    BY <2>1
  <2> QED
    BY <1>0, <2>1, <2>2 DEF Undoing
<1>2. CASE \/ InitBegins \/ InitMcp \/ InitConfig \/ InitDirs \/ InitTemplate \/ InitSmoke
           \/ (\E approved \in BOOLEAN : InitClaude(approved)) \/ Kill
  BY <1>0, <1>2, InitPc, NotUndoing
<1>3. CASE \/ \E purge \in BOOLEAN : DeinitBegins(purge)
           \/ DeinitMcp \/ DeinitClaude \/ DeinitTemplate \/ DeinitInner \/ DeinitOuter
           \/ \E left \in SUBSET cmd.extra : DeinitExtra(left)
  BY <1>3, BeginUndoes, McpUndoes, ClaudeUndoes, RestUndoes
<1>4. CASE EditConfig \/ (\E o \in Overlays : EditOverlay(o))
           \/ (\E block \in Sections \cup Chapters :
                  \E i \in 1..(Cardinality(Blocks) + 1) : EditClaude(block, i))
  <2>1. MayEdit /\ cmd' = cmd /\ mcp' = mcp
        /\ (\/ overlays' = overlays /\ dirs' = dirs
            \/ \E o \in Overlays : overlays' = overlays \cup {o})
    BY <1>4 DEF EditConfig, EditOverlay, EditClaude
  <2>2. CASE cmd.pc = "init_claude"
    BY <2>1, <2>2, NotUndoing DEF InitSteps
  <2>3. CASE cmd.pc # "init_claude"
    <3>1. cmd.pc \notin DeinitSteps \cup {"init_claude"}
      BY <2>1, <2>3 DEF MayEdit, Resting, DeinitSteps
    <3> QED
      BY <2>1, <3>1, EditUndoes
  <2> QED
    BY <2>2, <2>3
<1>5. ASSUME NEW s \in Servers, EditMcp(s)
      PROVE  Undoing'
  <2>1. MayEdit /\ cmd' = cmd /\ overlays' = overlays /\ dirs' = dirs
        /\ mcp' = (IF mcp \in {Absent, Broken} THEN {s} ELSE mcp \cup {s})
        /\ (mcp = Broken => cmd.pc = "idle")
    BY <1>5 DEF EditMcp
  <2>2. CASE cmd.pc = "init_claude"
    BY <2>1, <2>2, NotUndoing DEF InitSteps
  <2>3. CASE cmd.pc # "init_claude"
    <3>1. cmd.pc \notin DeinitSteps \cup {"init_claude"}
      BY <2>1, <2>3 DEF MayEdit, Resting, DeinitSteps
    <3>2. (mcp \in Entries \cup {Absent} /\ \E r \in Servers :
               mcp' = IF mcp = Absent THEN {r} ELSE mcp \cup {r}) \/ cmd.pc \notin {"removed", "nothing"}
      BY <1>0, <2>1
    <3> QED
      BY <2>1, <3>1, <3>2, EditUndoes
  <2> QED
    BY <2>2, <2>3
<1> QED
  BY <1>1, <1>2, <1>3, <1>4, <1>5 DEF Next

LEMMA FilesStep == FilesInv /\ [Next]_vars => FilesInv'
  BY TypesStep, OnceStep, UndoStep, TypesSplit, PTL DEF FilesInv

----------------------------------------------------------------------------
\* The types of the files and of the command, files in directories that exist.
THEOREM InstallTypes == Spec => []TypeOK
<1>1. FilesInv => TypeOK
  BY DEF FilesInv
<1> QED
  BY <1>1, InitFiles, FilesStep, PTL DEF Spec

\* init may be repeated and interrupted, and the user may move everything about: CLAUDE.md
\* holds our section once (cli.py:558-559).
THEOREM OneSectionOnly == Spec => []OneSection
<1>1. FilesInv => OneSection
  <2> SUFFICES ASSUME FilesInv, claude # Absent
               PROVE  Cardinality({i \in DOMAIN claude : claude[i] = Ours}) <= 1
    BY DEF OneSection
  <2> DEFINE S == {i \in DOMAIN claude : claude[i] = Ours}
  <2>1. \A i, k \in S : i = k
    BY DEF FilesInv, OnceInv, Once
  <2> HIDE DEF S
  <2>2. CASE S = {}
    BY <2>2, FS_EmptySet DEF S
  <2>3. CASE S # {}
    <3>1. PICK i : S = {i}
      BY <2>1, <2>3
    <3>2. Cardinality(S) = 1
      BY <3>1, FS_Singleton
    <3> QED
      BY <3>2 DEF S
  <2> QED
    BY <2>2, <2>3
<1> QED
  BY <1>1, InitFiles, FilesStep, PTL DEF Spec

\* A deinit that succeeds leaves none of our entry, section and template, also when it
\* found nothing to do after one that was interrupted at any step (cli.py:439-441); one
\* that removed something leaves no empty directory either (cli.py:473-477).
THEOREM DeinitUnregisters == Spec => []Unregistered
<1>1. FilesInv => Unregistered
  BY UndoPhases DEF FilesInv, Undoing, Unregistered
<1> QED
  BY <1>1, InitFiles, FilesStep, PTL DEF Spec

\* A block at an index of a selection is in what is selected.
LEMMA SelectHas ==
  ASSUME NEW text \in Seq(Blocks), NEW at \in SUBSET DOMAIN text, NEW i \in at
  PROVE  Has(Select(text, at), text[i])
<1>1. Len(text) \in Nat /\ at \in SUBSET (1..Len(text))
  OBVIOUS
<1>2. PICK n \in 1..Cardinality(at) : Place(at, n) = i
  BY <1>1, RankPlace
<1>3. /\ Select(text, at) \in Seq(Blocks) /\ n \in DOMAIN Select(text, at)
      /\ Select(text, at)[n] = text[i]
  BY <1>2, SelectFacts
<1> QED
  BY <1>3, TextsAreFiles DEF Has, ToSet

\* In a text with our section once, its pattern matches our section and what is right
\* behind it.
LEMMA OutsideOurs ==
  ASSUME NEW text \in Seq(Blocks), Once(text), NEW i \in DOMAIN text, ~Behind(text, i)
  PROVE  ~InOurs(text, i)
<1> SUFFICES ASSUME NEW k \in 1..i, text[k] = Ours,
                    \A h \in (k + 1)..i : text[h] \notin Sections
             PROVE  FALSE
  BY DEF InOurs
<1>1. /\ DOMAIN text = 1..Len(text) /\ Len(text) \in Nat
      /\ \A h \in 1..Len(text) : text[h] \in Blocks
  OBVIOUS
<1>2. PICK h \in (k + 1)..i : text[h] \notin Chapters
  BY DEF Behind
<1>3. h \in DOMAIN text /\ k \in DOMAIN text /\ h # k
  BY <1>1
<1>4. text[h] \in Blocks /\ text[h] \notin Sections
  BY <1>1, <1>3
<1>5. text[h] = Ours
  BY <1>2, <1>4 DEF Blocks
<1> QED
  BY <1>3, <1>5 DEF Once

\* What stands elsewhere stays when our section is taken out, renewed or appended.
LEMMA OutsideStays ==
  ASSUME NEW text \in Seq(Blocks), Once(text), NEW block \in Outside(text)
  PROVE  Has(Without(text), block) /\ Has(Applied(text), block)
<1>1. PICK i \in DOMAIN text : ~Behind(text, i) /\ text[i] = block
  BY TextsAreFiles DEF Outside
<1>2. ~InOurs(text, i)
  BY <1>1, OutsideOurs
<1>3. Has(Without(text), block)
  <2> DEFINE at == {k \in DOMAIN text : ~InOurs(text, k)}
  <2>1. at \in SUBSET DOMAIN text /\ i \in at /\ Without(text) = Select(text, at)
    BY <1>2 DEF Without
  <2> HIDE DEF at
  <2> QED
    BY <1>1, <2>1, SelectHas
<1>4. Has(Renewed(text), block)
  <2> DEFINE at == {k \in DOMAIN text : text[k] = Ours \/ ~InOurs(text, k)}
  <2>1. at \in SUBSET DOMAIN text /\ i \in at /\ Renewed(text) = Select(text, at)
    BY <1>2 DEF Renewed
  <2> HIDE DEF at
  <2> QED
    BY <1>1, <2>1, SelectHas
<1>5. Has(Append(text, Ours), block)
  <2>1. /\ Append(text, Ours) \in Seq(Blocks) /\ i \in DOMAIN Append(text, Ours)
        /\ Append(text, Ours)[i] = text[i]
    BY DEF Blocks
  <2> QED
    BY <1>1, <2>1, TextsAreFiles DEF Has, ToSet
<1>6. text # Absent
  BY TextsAreFiles
<1> QED
  BY <1>3, <1>4, <1>5, <1>6 DEF Applied

\* Only a kill inside a write loses the user's entries.
LEMMA McpKept ==
  ASSUME FilesInv, [Next]_vars, cmd.pc \notin Resting, edits' = edits, kills' = kills
  PROVE  /\ mcp' = Broken <=> mcp = Broken
         /\ mcp # Broken => Others(mcp') = Others(mcp)
<1>0. /\ mcp \in Entries \cup {Absent, Broken} /\ Undoing /\ edits \in Nat /\ kills \in Nat
  BY TypesSplit DEF FilesInv, FilesTyped, RunTyped
<1>1. CASE mcp' = mcp
  BY <1>1
<1>2. CASE InitMcp /\ mcp # Broken
  <2>1. mcp' = IF mcp = Absent THEN {Agy} ELSE mcp \cup {Agy}
    BY <1>0, <1>2 DEF InitMcp, WriteMcp, Killed
  <2>2. mcp' \in Entries
    BY <1>0, <1>2, <2>1 DEF Entries
  <2>3. mcp' # Broken /\ mcp' # Absent
    BY <2>2, EntriesAreData
  <2> QED
    BY <1>2, <2>1, <2>3 DEF Others
<1>3. CASE DeinitMcp /\ cmd.data # Absent
  <2>1. mcp' = cmd.data \ {Agy} /\ cmd.data = mcp /\ mcp # Broken /\ mcp # Absent
    BY <1>0, <1>3 DEF DeinitMcp, WriteMcp, Killed, Undoing
  <2>2. mcp' \in Entries
    BY <1>0, <2>1 DEF Entries
  <2>3. mcp' # Broken /\ mcp' # Absent
    BY <2>2, EntriesAreData
  <2> QED
    BY <2>1, <2>3 DEF Others
<1>4. (InitMcp => mcp # Broken) /\ (DeinitMcp => cmd.data # Absent) /\ mcp' # mcp
        => InitMcp \/ DeinitMcp
  BY <1>0 DEF Next, vars, InitBegins, InitConfig, InitDirs, InitTemplate, InitSmoke, InitClaude,
         DeinitBegins, DeinitClaude, DeinitTemplate, DeinitInner, DeinitOuter, DeinitExtra, Kill, EditConfig,
         EditMcp, EditOverlay, EditClaude, MayEdit
<1>5. (InitMcp /\ mcp = Broken) \/ (DeinitMcp /\ cmd.data = Absent) => mcp' = mcp
  BY DEF InitMcp, DeinitMcp
<1> QED
  BY <1>1, <1>2, <1>3, <1>4, <1>5

LEMMA ClaudeKept ==
  ASSUME FilesInv, [Next]_vars, cmd.pc \notin Resting, edits' = edits, kills' = kills
  PROVE  /\ Headed(claude') = Headed(claude)
         /\ \A block \in Outside(claude) : Has(claude', block)
<1>0. /\ claude # Absent => claude \in Seq(Blocks) /\ Once(claude)
      /\ edits \in Nat /\ kills \in Nat /\ Undoing
  BY TypesSplit DEF FilesInv, FilesTyped, RunTyped, OnceInv
<1>1. CASE claude' = claude
  <2>1. \A block \in Outside(claude) : Has(claude, block)
    BY DEF Outside, Has, ToSet
  <2> QED
    BY <1>1, <2>1
<1>2. ASSUME NEW approved \in BOOLEAN, InitClaude(approved), claude' # claude
      PROVE  /\ Headed(claude') = Headed(claude)
             /\ \A block \in Outside(claude) : Has(claude', block)
  <2>1. claude' = Applied(claude)
    BY <1>0, <1>2 DEF InitClaude, WriteClaude, Killed
  <2>2. \A block \in Outside(claude) : claude # Absent
    BY DEF Outside
  <2> QED
    BY <1>0, <2>1, <2>2, AppliedFacts, OutsideStays
<1>3. CASE DeinitClaude /\ claude' # claude
  <2>1. cmd.snippet /\ claude # Absent
    BY <1>0, <1>3 DEF DeinitClaude, Undoing, Has
  <2>2. claude' = Without(claude) \/ (claude' = Absent /\ Without(claude) = <<>>)
    BY <1>0, <1>3, <2>1 DEF DeinitClaude, WriteClaude, Killed
  <2>3. Headed(Without(claude)) = Headed(claude)
    BY <1>0, <2>1, WithoutFacts
  <2>4. \A block \in Outside(claude) : Has(Without(claude), block)
    BY <1>0, <2>1, OutsideStays
  <2>5. \A block : ~Has(<<>>, block)
    BY DEF Has, ToSet
  <2> QED
    BY <2>2, <2>3, <2>4, <2>5, EmptyHeaded
<1>4. claude' # claude => DeinitClaude \/ \E approved \in BOOLEAN : InitClaude(approved)
  BY <1>0 DEF Next, vars, InitBegins, InitMcp, InitConfig, InitDirs, InitTemplate, InitSmoke,
         DeinitBegins, DeinitMcp, DeinitTemplate, DeinitInner, DeinitOuter, DeinitExtra, Kill, EditConfig,
         EditMcp, EditOverlay, EditClaude, MayEdit
<1> QED
  BY <1>1, <1>2, <1>3, <1>4

LEMMA RestKept ==
  ASSUME FilesInv, [Next]_vars, cmd.pc \notin Resting, edits' = edits, kills' = kills
  PROVE  /\ overlays \ (cmd.extra \cup {Template}) \subseteq overlays'
         /\ config = "own" /\ Config \notin cmd.extra => config' = "own"
<1>0. edits \in Nat
  BY TypesSplit DEF FilesInv, RunTyped
<1>1. CASE overlays' = overlays /\ config' = config
  BY <1>1
<1>2. CASE InitConfig \/ InitTemplate \/ DeinitTemplate
  BY <1>2 DEF InitConfig, InitTemplate, DeinitTemplate
<1>3. ASSUME NEW left \in SUBSET cmd.extra, DeinitExtra(left)
      PROVE  /\ overlays \ (cmd.extra \cup {Template}) \subseteq overlays'
             /\ config = "own" /\ Config \notin cmd.extra => config' = "own"
  BY <1>3 DEF DeinitExtra
<1>4. ~(overlays' = overlays /\ config' = config)
        => \/ InitConfig \/ InitTemplate \/ DeinitTemplate
           \/ \E left \in SUBSET cmd.extra : DeinitExtra(left)
  BY <1>0 DEF Next, vars, InitBegins, InitMcp, InitDirs, InitSmoke, InitClaude,
         DeinitBegins, DeinitMcp, DeinitClaude, DeinitInner, DeinitOuter, Kill, EditConfig,
         EditMcp, EditOverlay, EditClaude, MayEdit
<1> QED
  BY <1>1, <1>2, <1>3, <1>4

\* Whatever init and deinit do and however often they are interrupted and repeated, they
\* leave the user's servers, playbooks and configuration, the user's sections of the
\* second level in their order, and every chapter that does not stand right behind our
\* section (cli.py:460, 568): only a kill inside a write and --purge-config take any of
\* them.
THEOREM OutsideIsKept == Spec => OutsideKept
<1>1. FilesInv /\ [Next]_vars =>
         [Working => /\ FilesKept
                     /\ Headed(claude') = Headed(claude)
                     /\ \A block \in Outside(claude) : Has(claude', block)]_vars
  BY McpKept, ClaudeKept, RestKept DEF FilesKept, Working
<1> QED
  BY <1>1, InitFiles, FilesStep, PTL DEF Spec, OutsideKept
=============================================================================
