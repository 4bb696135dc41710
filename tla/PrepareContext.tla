--------------------------- MODULE PrepareContext ---------------------------
(***************************************************************************)
(* How the files of a call get into its prompt: prepare_context of         *)
(* context.py, called up to three times by _start_and_wait of server.py.   *)
(* Files are inlined in the order given while both budgets last; from the  *)
(* first that does not fit on they are cut into parts for the loopback     *)
(* server.  The list of URLs takes room in the prompt as well, so its size *)
(* is reserved and the files are prepared again.  They are read anew each  *)
(* time and may have changed.                                              *)
(*                                                                         *)
(* A document is known by its cumulative sizes: Bytes[d][n] is what its    *)
(* first n lines take with their numbers and newlines.  An empty document  *)
(* has one empty block line.                                               *)
(***************************************************************************)
EXTENDS Integers, Sequences, FiniteSets

CONSTANTS
    Paths,          \* the files a call may name
    Documents,      \* their possible contents
    Missing,        \* no file
    MaxLines,       \* bound: lines of a document
    Lines,          \* [Documents -> 0..MaxLines]
    Chars, Bytes,   \* [Documents -> [0..MaxLines -> Nat]]: size of the first n lines
    Forbidden,      \* SUBSET Paths: outside the project, denied or hard-linked
    Flat,           \* [Paths -> names]: the path with its "/" replaced by "__"
    Texts,          \* SUBSET [Paths -> Documents or Missing]: the files at the call
    Requests,       \* the lists of file specs a call may come with
    Overheads,      \* bytes of the prompt without its files
    MaxChars,       \* max_inline_chars
    ArgvLimit,      \* ARGV_PROMPT_LIMIT_BYTES
    Headroom,       \* ARGV_HEADROOM_BYTES
    ChunkLimit,     \* SERVE_CHUNK_BYTES
    Header,         \* bytes of a block's first line
    Separator,      \* bytes between two blocks
    UrlCost,        \* bytes of a line of the list of URLs
    IndexCost,      \* bytes of its introduction
    MaxEdits        \* bound: changes of files during a call

MaxRounds == 3

VARIABLES
    text,       \* [Paths -> Documents or Missing]: the files now
    edits,      \* Nat
    specs,      \* the call's files
    overhead,   \* its reserved_bytes
    phase,      \* of _start_and_wait
    round,      \* of its loop
    reserve,    \* served_reserve
    settled,    \* the loop was left by a break
    items,      \* Seq(Items): `rendered' of this round
    next,       \* the index of the item to be placed
    chars, bytes,   \* total_chars, total_bytes
    inlined,    \* Seq(Items): the blocks
    served,     \* Seq of [item, names]: served_manifest
    files,      \* [Names -> slices of blocks]: to_serve
    used,       \* used_names
    urls, links,    \* bytes and URLs of the list, without its introduction
    port        \* digits of the server's port

budgets == <<chars, bytes, inlined, served, files, used, urls, links>>
vars == <<text, edits, specs, overhead, phase, round, reserve, settled, items, next,
          budgets, port>>

Phases == {"render", "place", "settle", "open", "start", "started", "refused"}

\* "path", "path:line" or "path:first-last"; 0 where nothing is given.
Specs == [path : Paths, first : Nat, last : Nat]
Items == [path : Paths, doc : Documents, first : Nat, last : Nat]
Contents == Documents \cup {Missing}

ASSUME ContextAssumption ==
    /\ Missing \notin Documents
    /\ MaxLines \in Nat \ {0}
    /\ Lines \in [Documents -> 0..MaxLines]
    /\ Chars \in [Documents -> [0..MaxLines -> Nat]]
    /\ Bytes \in [Documents -> [0..MaxLines -> Nat]]
    /\ \A d \in Documents : \A m, n \in 0..MaxLines : m <= n =>
           Chars[d][m] <= Chars[d][n] /\ Bytes[d][m] <= Bytes[d][n]
    /\ Texts \subseteq [Paths -> Contents]
    /\ Requests \subseteq Seq(Specs)
    /\ Overheads \subseteq Nat
    /\ {MaxChars, ArgvLimit, Headroom, ChunkLimit, Separator, UrlCost, IndexCost,
        MaxEdits} \subseteq Nat
    /\ Header \in Nat \ {0}

----------------------------------------------------------------------------
\* What is read.

\* The range a spec asks of a document, cut at its end; empty if that is all.
First(s) == IF s.first = 0 THEN 1 ELSE s.first
Last(s, d) == IF s.first = 0 \/ s.last > Lines[d] THEN Lines[d] ELSE s.last

\* _render_spec succeeds.
Renders(s) ==
    /\ s.path \notin Forbidden
    /\ text[s.path] # Missing
    /\ LET d == text[s.path] IN
       Lines[d] = 0 \/ (First(s) <= Lines[d] /\ First(s) <= Last(s, d))

Rendered(s) ==
    LET d == text[s.path] IN
    [path |-> s.path, doc |-> d,
     first |-> IF Lines[d] = 0 THEN 1 ELSE First(s),
     last |-> IF Lines[d] = 0 THEN 0 ELSE Last(s, d)]

----------------------------------------------------------------------------
\* The block of an item: line 0 is its header, 1..Height its numbered lines.

Height(item) == IF item.last < item.first THEN 1 ELSE item.last + 1 - item.first

\* What lines from..to of a block take, newlines included; `size' is Chars or Bytes.
Slice(size, item, from, to) ==
    LET below(k) == size[item.doc][item.first - 1 + k] IN
    below(to) - (IF from = 0 THEN below(0) - Header ELSE below(from - 1))

BlockSize(size, item) == Slice(size, item, 0, Height(item)) - 1

\* The part that ends before line k begins at the last cut below k.
PartStart(cuts, k) ==
    CHOOSE i \in cuts \cup {0} : i < k /\ \A h \in cuts : h < k => h <= i

\* Mutant: the line's own size is not counted.
IsChunkingLate(item, cuts) ==
    IF BlockSize(Bytes, item) <= ChunkLimit THEN cuts = {}
    ELSE \A k \in 1..Height(item) :
            k \in cuts <=> (PartStart(cuts, k) < k - 1
                            /\ Slice(Bytes, item, PartStart(cuts, k), k - 1) > ChunkLimit)

\* _chunk_into: a line goes to the next part when it does not fit any more; the
\* parts begin at 0 and at the cuts.
IsChunking(item, cuts) ==
    IF BlockSize(Bytes, item) <= ChunkLimit THEN cuts = {}
    ELSE \A k \in 1..Height(item) :
            k \in cuts <=> Slice(Bytes, item, PartStart(cuts, k), k) > ChunkLimit

----------------------------------------------------------------------------
\* Names on the server.

Base(item) == <<Flat[item.path], item.first, item.last>>

\* Mutant: the flattened path is taken for unique.
CopyIgnored(base) == 1

\* _unique_name: 1 is the plain name, then __2, __3...
Copy(base) == CHOOSE k \in 1..(Cardinality(used) + 1) :
    /\ <<base, k>> \notin used
    /\ \A i \in 1..(k - 1) : <<base, i>> \in used

\* The names of an item's parts: p of n, or one name without a number.
Name(item, copy, p, n) == <<Base(item), copy, p, n>>

\* The parts of a cut block, in order.
Parts(item, cuts) ==
    LET begins(p) == CHOOSE i \in cuts \cup {0} : Cardinality({h \in cuts : h <= i}) = p - 1
        n == Cardinality(cuts) + 1
    IN  [p \in 1..n |-> [item |-> item, from |-> begins(p),
                         to |-> IF p = n THEN Height(item) ELSE begins(p + 1) - 1]]

----------------------------------------------------------------------------
\* Mutant: the room for the list of URLs is not taken from the budget.
BudgetBytesUnreserved ==
    LET room == ArgvLimit - overhead - Headroom IN
    IF room < 0 THEN 0 ELSE IF 3 * MaxChars < room THEN 3 * MaxChars ELSE room

\* _budget_bytes: min(max_chars * 3, max(0, room))
BudgetBytes ==
    LET room == ArgvLimit - (overhead + reserve) - Headroom IN
    IF room < 0 THEN 0 ELSE IF 3 * MaxChars < room THEN 3 * MaxChars ELSE room

\* Mutant: a later item may still be inlined.
FitsAgain(item) ==
    /\ chars + BlockSize(Chars, item) <= MaxChars
    /\ bytes + BlockSize(Bytes, item) <= BudgetBytes

Fits(item) ==
    /\ served = <<>>        \* not overflowed
    /\ chars + BlockSize(Chars, item) <= MaxChars
    /\ bytes + BlockSize(Bytes, item) <= BudgetBytes

\* The size of the list, with the longest URLs there are (_dummy_url_for).
Estimate == IF served = <<>> THEN 0 ELSE IndexCost + urls

\* The blocks and the list are joined by separators.
Joints == IF served = <<>> THEN Len(inlined) - 1 ELSE Len(inlined)

\* A port of four digits makes each URL, the index's too, one byte shorter.
PromptBytes ==
    overhead + bytes + Separator * (IF Joints < 0 THEN 0 ELSE Joints)
    + (IF served = <<>> THEN 0 ELSE Estimate - (5 - port) * (links + 1))

----------------------------------------------------------------------------
\* Every preparation begins with nothing.
Clear ==
    /\ items' = <<>> /\ next' = 1
    /\ chars' = 0 /\ bytes' = 0 /\ inlined' = <<>> /\ served' = <<>>
    /\ files' = [n \in {} |-> 0] /\ used' = {} /\ urls' = 0 /\ links' = 0

Init ==
    /\ text \in Texts /\ edits = 0
    /\ specs \in Requests
    /\ overhead \in Overheads
    /\ phase = IF specs = <<>> THEN "open" ELSE "render"
    /\ round = 1 /\ reserve = 0 /\ settled = (specs = <<>>)
    /\ items = <<>> /\ next = 1
    /\ chars = 0 /\ bytes = 0 /\ inlined = <<>> /\ served = <<>>
    /\ files = [n \in {} |-> 0] /\ used = {} /\ urls = 0 /\ links = 0
    /\ port = 5

\* The spec that is rendered next.
Asked == specs[Len(items) + 1]

\* One file is read at a time, and all of them before anything is placed.
Render ==
    /\ phase = "render" /\ Renders(Asked)
    /\ items' = Append(items, Rendered(Asked))
    /\ phase' = IF Len(items) + 1 = Len(specs) THEN "place" ELSE "render"
    /\ UNCHANGED <<text, edits, specs, overhead, round, reserve, settled, next, budgets,
                   port>>

\* A bad one ends the call.
RenderFails ==
    /\ phase = "render" /\ ~Renders(Asked)
    /\ phase' = "refused"
    /\ UNCHANGED <<text, edits, specs, overhead, round, reserve, settled, items, next,
                   budgets, port>>

Item == items[next]

Placing == phase = "place" /\ next <= Len(items) /\ next' = next + 1

Inline ==
    /\ Placing /\ Fits(Item)
    /\ chars' = chars + BlockSize(Chars, Item)
    /\ bytes' = bytes + BlockSize(Bytes, Item)
    /\ inlined' = Append(inlined, Item)
    /\ UNCHANGED <<text, edits, specs, overhead, phase, round, reserve, settled, items,
                   served, files, used, urls, links, port>>

Serve ==
    /\ Placing /\ ~Fits(Item)
    /\ \E cuts \in SUBSET (1..Height(Item)) :
        LET parts == Parts(Item, cuts)
            n == Cardinality(cuts) + 1
            copy == Copy(Base(Item))
            name(p) == Name(Item, copy, p, n)
            names == [p \in 1..n |-> name(p)]
        IN
        /\ IsChunking(Item, cuts)
        /\ served' = Append(served, [item |-> Item, names |-> names])
        /\ files' = [m \in DOMAIN files \cup {name(p) : p \in 1..n} |->
                        IF m \in {name(p) : p \in 1..n} THEN parts[m[3]] ELSE files[m]]
        /\ links' = links + n
        /\ urls' = urls + UrlCost * (IF n = 1 THEN 1 ELSE n + 1)
        /\ used' = used \cup {<<Base(Item), copy>>}
    /\ UNCHANGED <<text, edits, specs, overhead, phase, round, reserve, settled, items,
                   chars, bytes, inlined, port>>

Placed ==
    /\ phase = "place" /\ next > Len(items)
    /\ phase' = "settle"
    /\ UNCHANGED <<text, edits, specs, overhead, round, reserve, settled, items, next,
                   budgets, port>>

\* The round is the last if its list has its room; with the list's size reserved the
\* files are prepared once more.
Break ==
    /\ Estimate <= reserve
    /\ phase' = "open" /\ settled' = TRUE
    /\ UNCHANGED <<round, reserve, items, next, budgets>>

Again ==
    /\ phase' = "render" /\ round' = round + 1 /\ reserve' = Estimate
    /\ Clear
    /\ UNCHANGED settled

\* Mutant: the rounds go on until the list fits.
SettleForever ==
    /\ phase = "settle"
    /\ Break \/ (Estimate > reserve /\ Again)
    /\ UNCHANGED <<text, edits, specs, overhead, port>>

\* When the rounds are used up the last preparation is taken as it is.
Settle ==
    /\ phase = "settle"
    /\ \/ Break
       \/ Estimate > reserve /\ round < MaxRounds /\ Again
       \/ /\ Estimate > reserve /\ round = MaxRounds
          /\ phase' = "open" /\ reserve' = Estimate
          /\ UNCHANGED <<round, settled, items, next, budgets>>
    /\ UNCHANGED <<text, edits, specs, overhead, port>>

\* The server is opened if there is anything to serve; the prompt is assembled.
Open ==
    /\ phase = "open"
    /\ phase' = "start"
    /\ port' \in IF served = <<>> THEN {port} ELSE {4, 5}
    /\ UNCHANGED <<text, edits, specs, overhead, round, reserve, settled, items, next,
                   budgets>>

\* ensure_prompt_within_argv_limit, then the spawn.
Start ==
    /\ phase = "start"
    /\ phase' = IF PromptBytes > ArgvLimit THEN "refused" ELSE "started"
    /\ UNCHANGED <<text, edits, specs, overhead, round, reserve, settled, items, next,
                   budgets, port>>

\* Somebody works on the files meanwhile.
Edit(p, content) ==
    /\ edits < MaxEdits /\ phase = "render"
    /\ text[p] # content
    /\ text' = [text EXCEPT ![p] = content]
    /\ edits' = edits + 1
    /\ UNCHANGED <<specs, overhead, phase, round, reserve, settled, items, next, budgets,
                   port>>

Prepare == Render \/ RenderFails \/ Inline \/ Serve \/ Placed \/ Settle

Next ==
    \/ Prepare \/ Open \/ Start
    \/ \E p \in Paths, content \in Contents : Edit(p, content)

Spec == Init /\ [][Next]_vars

----------------------------------------------------------------------------
\* An item has lines of its document, and every item up to `next' is in one place.
Placeable(item) ==
    /\ item \in Items /\ item.first >= 1
    /\ item.first - 1 + Height(item) <= MaxLines

\* The numbers a preparation counts with are natural numbers.
TypeOK ==
    /\ phase \in Phases /\ round \in 1..MaxRounds /\ settled \in BOOLEAN
    /\ text \in [Paths -> Contents] /\ specs \in Requests /\ overhead \in Overheads
    /\ {reserve, chars, bytes, urls, links} \subseteq Nat
    /\ items \in Seq(Items) /\ \A i \in DOMAIN items : Placeable(items[i])
    /\ next \in 1..(Len(items) + 1) /\ Len(inlined) + Len(served) = next - 1
    /\ inlined \in Seq(Items)
    /\ port \in {4, 5}

Assembled == phase \in {"start", "started"}

\* A call that left the loop by a break is not refused for the files it inlines,
\* whatever was edited between the rounds: its prompt is within the limit of an
\* argument, or no byte of a file is in it and the rest of it alone, with the list
\* of URLs and the headroom, is beyond the limit (server.py:309-312, 325-328).  The
\* premise is that the headroom pays for the separators: 8,000 bytes are 4,000 files.
PromptFits == (Assembled /\ settled /\ Separator * Len(specs) <= Headroom) =>
    \/ PromptBytes <= ArgvLimit
    \/ bytes = 0 /\ overhead + Estimate + Headroom > ArgvLimit

\* Every file that was asked for is delivered once, in the order given and as it was
\* rendered in the last round: from the first that does not fit on all are served
\* (context.py:263-265).
InOrder == Assembled =>
    /\ Len(inlined) + Len(served) = Len(specs)
    /\ \A i \in DOMAIN inlined : inlined[i] = items[i] /\ items[i].path = specs[i].path
    /\ \A i \in DOMAIN served :
        LET k == Len(inlined) + i IN
        served[i].item = items[k] /\ items[k].path = specs[k].path

\* A served file is behind its URLs whole: its parts follow each other from its header
\* to its last line, and no two files share a name (context.py:213-214, 229-230).
EverythingDelivered == Assembled =>
    /\ \A i \in DOMAIN served :
        LET names == served[i].names  n == Len(names) IN
        /\ \A p \in 1..n : files[names[p]].item = served[i].item
        /\ files[names[1]].from = 0
        /\ \A p \in 1..(n - 1) : files[names[p]].to + 1 = files[names[p + 1]].from
        /\ files[names[n]].to = Height(served[i].item)
    /\ \A i, k \in DOMAIN served : \A p \in DOMAIN served[i].names :
        \A q \in DOMAIN served[k].names :
            served[i].names[p] = served[k].names[q] => i = k /\ p = q

\* A part is not larger than a verifier fetches in one go, unless it is one line
\* (context.py:32-35, 229-230).
PartsBounded == \A n \in DOMAIN files :
    LET f == files[n] IN
    f.from = f.to \/ Slice(Bytes, f.item, f.from, f.to) - 1 <= ChunkLimit

\* Why files are delivered in order, inductively.
Ordered ==
    /\ \A i \in DOMAIN items : items[i].path = specs[i].path
    /\ \A i \in DOMAIN inlined : inlined[i] = items[i]
    /\ \A i \in DOMAIN served : served[i].item = items[Len(inlined) + i]
    /\ phase \in {"place", "settle", "open", "start", "started"} => Len(items) = Len(specs)
    /\ phase \in {"settle", "open", "start", "started"} => next = Len(items) + 1

\* Why the prompt fits, inductively: what is inlined stays within the budget of its
\* round, and a round that settles has reserved the room its list takes.
Budgeted ==
    /\ phase = "render" =>
           /\ Len(items) < Len(specs) /\ ~settled
           /\ bytes = 0 /\ inlined = <<>> /\ served = <<>>
    /\ phase \in {"place", "settle"} \/ settled =>
           Len(items) = Len(specs) /\ bytes <= BudgetBytes
    /\ settled => phase \in {"open", "start", "started", "refused"} /\ Estimate <= reserve
=============================================================================
