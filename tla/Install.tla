------------------------------- MODULE Install -------------------------------
(***************************************************************************)
(* init and deinit of cli.py: what they write into a user's repository and *)
(* what they take out again, one file operation per step.  A command may   *)
(* be killed between two steps or inside a write, which empties the file   *)
(* first, and is then run again.                                           *)
(*                                                                         *)
(* CLAUDE.md is a sequence of blocks: a section begins with a heading of   *)
(* the second level, a chapter with one of the first.  The pattern of our  *)
(* section stops at a section only: for the code, a chapter that stands    *)
(* behind ours belongs to it.  So does, for the code and here, whatever    *)
(* the user writes under our own heading.                                  *)
(*                                                                         *)
(* An empty .agy-bridge.toml or _TEMPLATE.md, after a write that was killed, *)
(* does what ours does and counts as ours.                                 *)
(*                                                                         *)
(* The user edits between commands and while init waits for the smoke test *)
(* and for the answer to its question, but not within the instant of a     *)
(* read and the write that follows it.                                     *)
(***************************************************************************)
EXTENDS Naturals, Sequences, FiniteSets, SequencesExt

CONSTANTS
    Servers,    \* the user's entries of mcpServers
    Sections,   \* the user's sections of CLAUDE.md, of the second level
    Chapters,   \* the user's sections of the first level
    Overlays,   \* the user's playbooks in .agy-bridge/playbooks
    Agy,        \* our entry of mcpServers
    Ours,       \* _SNIPPET_HEADER and what follows it
    Template,   \* _TEMPLATE.md
    Config,     \* .agy-bridge.toml, as a file to remove
    Absent,     \* no file
    Broken,     \* a file that is not JSON
    MaxEdits,   \* bound: edits of the user
    MaxKills    \* bound: commands that are killed

ASSUME InstallAssumption ==
    /\ Agy \notin Servers /\ Template \notin Overlays /\ Config \notin Overlays
    /\ Ours \notin Sections \cup Chapters /\ Sections \cap Chapters = {}
    /\ \A entries \in SUBSET (Servers \cup {Agy}) : entries # Absent /\ entries # Broken
    /\ Absent \notin Seq(Sections \cup Chapters \cup {Ours})
    /\ MaxEdits \in Nat /\ MaxKills \in Nat

VARIABLES
    checkout,   \* BOOLEAN: the target is the bridge's own source repository
    mcp,        \* .mcp.json: the entries of mcpServers, Absent or Broken
    config,     \* .agy-bridge.toml: "absent", "template" or "own"
    overlays,   \* files in the overlay directory
    dirs,       \* 0..2: .agy-bridge and .agy-bridge/playbooks
    claude,     \* CLAUDE.md: Seq of blocks, or Absent
    cmd,        \* the command that runs: [pc, data, snippet, extra]
    edits, kills

vars == <<checkout, mcp, config, overlays, dirs, claude, cmd, edits, kills>>

Blocks == Sections \cup Chapters \cup {Ours}

Resting == {"idle", "initialised", "removed", "nothing"}
InitSteps == {"init_mcp", "init_config", "init_dirs", "init_template", "init_smoke",
              "init_claude"}
DeinitSteps == {"deinit_mcp", "deinit_claude", "deinit_template", "deinit_extra",
                "deinit_inner", "deinit_outer"}

\* What deinit found: mcp_data with our entry or Absent for no such entry,
\* remove_snippet, and the files that --purge-config adds.
Commands == [pc : Resting \cup InitSteps \cup DeinitSteps,
             data : {Absent} \cup SUBSET (Servers \cup {Agy}),
             snippet : BOOLEAN,
             extra : SUBSET (Overlays \cup {Config})]
Command(pc) == [pc |-> pc, data |-> Absent, snippet |-> FALSE, extra |-> {}]

Go(pc) == cmd' = [cmd EXCEPT !.pc = pc]

\* The command dies inside a write.
Killed == kills < MaxKills /\ kills' = kills + 1 /\ cmd' = Command("idle")

----------------------------------------------------------------------------
Init ==
    /\ checkout \in BOOLEAN
    /\ mcp = Absent /\ config = "absent" /\ overlays = {} /\ dirs = 0 /\ claude = Absent
    /\ cmd = Command("idle")
    /\ edits = 0 /\ kills = 0

\* Path.write_text on .mcp.json and on CLAUDE.md.
WriteMcp(entries, pc) ==
    \/ mcp' = entries /\ Go(pc) /\ kills' = kills
    \/ mcp' = Broken /\ Killed

WriteClaude(text, pc) ==
    \/ claude' = text /\ Go(pc) /\ kills' = kills
    \/ claude' = <<>> /\ Killed

Has(text, block) == text # Absent /\ block \in ToSet(text)

\* Mutant: our section is taken to reach to the end of the file.
InOursToEnd(text, i) == \E k \in 1..i : text[k] = Ours

\* The pattern of our section: up to the next heading of the second level.
InOurs(text, i) == \E k \in 1..i :
    text[k] = Ours /\ \A h \in (k + 1)..i : text[h] \notin Sections

\* The blocks of a text at the indices of a set, in order.
Select(text, at) == [n \in 1..Cardinality(at) |->
    text[CHOOSE i \in at : Cardinality({h \in at : h <= i}) = n]]

\* The text without our section, and with a new one in its place.
Without(text) == Select(text, {i \in DOMAIN text : ~InOurs(text, i)})
Renewed(text) ==
    Select(text, {i \in DOMAIN text : text[i] = Ours \/ ~InOurs(text, i)})

\* Mutant: the section is appended whether or not there is one.
AppliedAgain(text) == IF text = Absent THEN <<Ours>> ELSE Append(text, Ours)

\* _apply_claude_md
Applied(text) ==
    IF text = Absent THEN <<Ours>>
    ELSE IF Has(text, Ours) THEN Renewed(text)
    ELSE Append(text, Ours)

----------------------------------------------------------------------------
\* init

\* A target that is no directory or an agy that is not found changes nothing.
InitBegins ==
    /\ cmd.pc \in Resting
    /\ cmd' = Command("init_mcp")
    /\ UNCHANGED <<checkout, mcp, config, overlays, dirs, claude, edits, kills>>

\* Mutant: a registered bridge needs no more files.
InitMcpOnce ==
    /\ cmd.pc = "init_mcp"
    /\ IF mcp = Broken THEN cmd' = Command("idle") /\ UNCHANGED <<mcp, kills>>
       ELSE IF mcp # Absent /\ Agy \in mcp THEN Go("init_smoke") /\ UNCHANGED <<mcp, kills>>
       ELSE WriteMcp(IF mcp = Absent THEN {Agy} ELSE mcp \cup {Agy}, "init_config")
    /\ UNCHANGED <<checkout, config, overlays, dirs, claude, edits>>

\* A file that cannot be parsed is not touched.
InitMcp ==
    /\ cmd.pc = "init_mcp"
    /\ IF mcp = Broken THEN cmd' = Command("idle") /\ UNCHANGED <<mcp, kills>>
       ELSE WriteMcp(IF mcp = Absent THEN {Agy} ELSE mcp \cup {Agy}, "init_config")
    /\ UNCHANGED <<checkout, config, overlays, dirs, claude, edits>>

InitConfig ==
    /\ cmd.pc = "init_config"
    /\ config' = IF config = "absent" THEN "template" ELSE config
    /\ Go("init_dirs")
    /\ UNCHANGED <<checkout, mcp, overlays, dirs, claude, edits, kills>>

\* Mutant: the inner directory is not made.
InitDirsOuter ==
    /\ cmd.pc = "init_dirs"
    /\ dirs' = IF dirs = 0 THEN 1 ELSE dirs
    /\ Go("init_template")
    /\ UNCHANGED <<checkout, mcp, config, overlays, claude, edits, kills>>

\* mkdir with parents makes the outer directory first.
InitDirs ==
    /\ cmd.pc = "init_dirs"
    /\ dirs' = IF dirs = 0 THEN 1 ELSE 2
    /\ Go(IF dirs = 0 THEN "init_dirs" ELSE "init_template")
    /\ UNCHANGED <<checkout, mcp, config, overlays, claude, edits, kills>>

InitTemplate ==
    /\ cmd.pc = "init_template"
    /\ overlays' = overlays \cup {Template}
    /\ Go("init_smoke")
    /\ UNCHANGED <<checkout, mcp, config, dirs, claude, edits, kills>>

\* A failing configuration or round trip ends the command, what it wrote stays.
InitSmoke ==
    /\ cmd.pc = "init_smoke"
    /\ Go("init_claude") \/ cmd' = Command("idle")
    /\ UNCHANGED <<checkout, mcp, config, overlays, dirs, claude, edits, kills>>

\* CLAUDE.md is written with the user's consent only.
InitClaude(approved) ==
    /\ cmd.pc = "init_claude"
    /\ IF approved THEN WriteClaude(Applied(claude), "initialised")
       ELSE Go("initialised") /\ UNCHANGED <<claude, kills>>
    /\ UNCHANGED <<checkout, mcp, config, overlays, dirs, edits>>

----------------------------------------------------------------------------
\* deinit --yes; a preview and a refusal change nothing.

\* Where nothing is planned the command has succeeded, whatever directories there are.
DeinitBegins(purge) ==
    LET agy == mcp # Absent /\ Agy \in mcp
        snippet == Has(claude, Ours)
        extra == IF purge THEN (overlays \ {Template})
                               \cup (IF config = "absent" THEN {} ELSE {Config})
                 ELSE {}
    IN
    /\ cmd.pc \in Resting
    /\ ~checkout /\ mcp # Broken
    /\ cmd' = IF agy \/ snippet \/ Template \in overlays \/ extra # {}
              THEN [pc |-> "deinit_mcp", data |-> IF agy THEN mcp ELSE Absent,
                    snippet |-> snippet, extra |-> extra]
              ELSE Command("nothing")
    /\ UNCHANGED <<checkout, mcp, config, overlays, dirs, claude, edits, kills>>

DeinitMcp ==
    /\ cmd.pc = "deinit_mcp"
    /\ IF cmd.data = Absent THEN Go("deinit_claude") /\ UNCHANGED <<mcp, kills>>
       ELSE WriteMcp(cmd.data \ {Agy}, "deinit_claude")
    /\ UNCHANGED <<checkout, config, overlays, dirs, claude, edits>>

\* A file with nothing else in it is removed.
DeinitClaude ==
    /\ cmd.pc = "deinit_claude"
    /\ IF ~cmd.snippet THEN Go("deinit_template") /\ UNCHANGED <<claude, kills>>
       ELSE IF Without(claude) = <<>>
            THEN claude' = Absent /\ Go("deinit_template") /\ kills' = kills
            ELSE WriteClaude(Without(claude), "deinit_template")
    /\ UNCHANGED <<checkout, mcp, config, overlays, dirs, edits>>

DeinitTemplate ==
    /\ cmd.pc = "deinit_template"
    /\ overlays' = overlays \ {Template}
    /\ Go("deinit_extra")
    /\ UNCHANGED <<checkout, mcp, config, dirs, claude, edits, kills>>

\* A file that cannot be removed is left; so is, when the command is killed between two of
\* them, all that is behind, as if it were killed after this step.
DeinitExtra(left) ==
    /\ cmd.pc = "deinit_extra"
    /\ left \subseteq cmd.extra
    /\ overlays' = overlays \ (cmd.extra \ left)
    /\ config' = IF Config \in cmd.extra \ left THEN "absent" ELSE config
    /\ Go("deinit_inner")
    /\ UNCHANGED <<checkout, mcp, dirs, claude, edits, kills>>

\* Mutant: the parent is tried first.
DirectoriesOuterFirst == <<1, 2>>

\* The directories in the order in which they are removed.
Directories == <<2, 1>>

\* A directory that holds something, or that is not there, is left.
Rmdir(k) ==
    dirs' = IF dirs = Directories[k] /\ overlays = {} THEN dirs - 1 ELSE dirs

DeinitInner ==
    /\ cmd.pc = "deinit_inner"
    /\ Rmdir(1)
    /\ Go("deinit_outer")
    /\ UNCHANGED <<checkout, mcp, config, overlays, claude, edits, kills>>

DeinitOuter ==
    /\ cmd.pc = "deinit_outer"
    /\ Rmdir(2)
    /\ cmd' = Command("removed")
    /\ UNCHANGED <<checkout, mcp, config, overlays, claude, edits, kills>>

----------------------------------------------------------------------------
Kill ==
    /\ cmd.pc \notin Resting
    /\ Killed
    /\ UNCHANGED <<checkout, mcp, config, overlays, dirs, claude, edits>>

MayEdit == cmd.pc \in Resting \cup {"init_smoke", "init_claude"}
           /\ edits < MaxEdits /\ edits' = edits + 1

\* Another server, or a broken file typed anew without our entry.
EditMcp(s) ==
    /\ MayEdit
    /\ mcp = Broken => cmd.pc = "idle"
    /\ mcp' = IF mcp \in {Absent, Broken} THEN {s} ELSE mcp \cup {s}
    /\ UNCHANGED <<checkout, config, overlays, dirs, claude, cmd, kills>>

EditClaude(block, i) ==
    LET text == IF claude = Absent THEN <<>> ELSE claude IN
    /\ MayEdit
    /\ ~Has(claude, block) /\ i \in 1..(Len(text) + 1)
    /\ claude' = InsertAt(text, i, block)
    /\ UNCHANGED <<checkout, mcp, config, overlays, dirs, cmd, kills>>

EditOverlay(o) ==
    /\ MayEdit
    /\ overlays' = overlays \cup {o} /\ dirs' = 2
    /\ UNCHANGED <<checkout, mcp, config, claude, cmd, kills>>

EditConfig ==
    /\ MayEdit
    /\ config' = "own"
    /\ UNCHANGED <<checkout, mcp, overlays, dirs, claude, cmd, kills>>

Next ==
    \/ InitBegins \/ InitMcp \/ InitConfig \/ InitDirs \/ InitTemplate \/ InitSmoke
    \/ \E approved \in BOOLEAN : InitClaude(approved)
    \/ \E purge \in BOOLEAN : DeinitBegins(purge)
    \/ DeinitMcp \/ DeinitClaude \/ DeinitTemplate \/ DeinitInner \/ DeinitOuter
    \/ \E left \in SUBSET cmd.extra : DeinitExtra(left)
    \/ Kill \/ EditConfig
    \/ \E s \in Servers : EditMcp(s)
    \/ \E o \in Overlays : EditOverlay(o)
    \/ \E block \in Sections \cup Chapters :
           \E i \in 1..(Cardinality(Blocks) + 1) : EditClaude(block, i)

Spec == Init /\ [][Next]_vars

----------------------------------------------------------------------------
\* Files lie in directories that exist.
TypeOK ==
    /\ checkout \in BOOLEAN
    /\ mcp \in {Absent, Broken} \cup SUBSET (Servers \cup {Agy})
    /\ config \in {"absent", "template", "own"}
    /\ overlays \subseteq Overlays \cup {Template} /\ dirs \in 0..2
    /\ overlays # {} => dirs = 2
    /\ claude # Absent => claude \in Seq(Blocks)
    /\ cmd \in Commands
    /\ edits \in 0..MaxEdits /\ kills \in 0..MaxKills

Headed(text) == IF text = Absent THEN <<>>
                ELSE Select(text, {i \in DOMAIN text : text[i] \in Sections})
Others(entries) == IF entries = Absent THEN {} ELSE entries \ {Agy}

\* The user's blocks but for the chapters that stand right behind our section.
Behind(text, i) == \E k \in 1..i :
    text[k] = Ours /\ \A h \in (k + 1)..i : text[h] \in Chapters
Outside(text) == IF text = Absent THEN {}
                 ELSE {text[i] : i \in {k \in DOMAIN text : ~Behind(text, k)}}

\* A step of a command that is not killed inside a write.
Working == cmd.pc \notin Resting /\ edits' = edits /\ kills' = kills

\* The user's servers, playbooks and configuration are left alone.
FilesKept ==
    /\ mcp' = Broken <=> mcp = Broken
    /\ mcp # Broken => Others(mcp') = Others(mcp)
    /\ overlays \ (cmd.extra \cup {Template}) \subseteq overlays'
    /\ config = "own" /\ Config \notin cmd.extra => config' = "own"

\* Whatever init and deinit do and however often they are interrupted and repeated, they
\* leave the user's servers, playbooks and configuration, the user's sections of the
\* second level in their order, and every chapter that does not stand right behind our
\* section (cli.py:460, 568): only a kill inside a write and --purge-config take any of
\* them.
OutsideKept == [][Working =>
    /\ FilesKept
    /\ Headed(claude') = Headed(claude)
    /\ \A block \in Outside(claude) : Has(claude', block)]_vars

\* What the README says of all of the user's sections, of any level and wherever they
\* stand: "CLAUDE.md의 다른 절도 그대로 둔다", and nothing that the user wrote is deleted on
\* any path (repo README:98-101).
UserKept == [][Working =>
    /\ FilesKept
    /\ \A block \in Sections \cup Chapters : Has(claude, block) => Has(claude', block)]_vars

\* init may be repeated: CLAUDE.md holds our section once (cli.py:558-559).
OneSection == claude # Absent =>
    Cardinality({i \in DOMAIN claude : claude[i] = Ours}) <= 1

\* An init that ends has set up everything, also after one that was interrupted at
\* any step or failed its smoke test and left its files (cli.py:302-304).
Registered == cmd.pc = "initialised" =>
    /\ mcp \notin {Absent, Broken} /\ Agy \in mcp
    /\ config # "absent" /\ Template \in overlays

\* A deinit that succeeds leaves none of our entry, section and template, also when it
\* found nothing to do after one that was interrupted (cli.py:439-441); one that removed
\* something leaves no empty directory either (cli.py:473-477).
Unregistered ==
    /\ cmd.pc \in {"removed", "nothing"} =>
          /\ mcp # Absent => Agy \notin mcp
          /\ ~Has(claude, Ours) /\ Template \notin overlays
    /\ cmd.pc = "removed" => (dirs > 0 => overlays # {})
=============================================================================
