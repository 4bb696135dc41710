------------------------ MODULE ContextServer_proofs ------------------------
(***************************************************************************)
(* The preparation of a prompt and the server that serves its files.       *)
(*                                                                         *)
(* First PrepareContext, for any files, sizes, limits and edits between    *)
(* the rounds.  A prompt whose rounds settle stays within the limit of an  *)
(* argument: TypeOK counts every item up to `next' as placed, inlined or   *)
(* served, and Budgeted bounds what they take.  Everything is delivered in *)
(* order, in parts that are bounded, no two of one name: Delivery.         *)
(*                                                                         *)
(* Then ContextServer, for any number of requests and closing threads.     *)
(* What agy is told to read it can read while its job runs, an answer is   *)
(* what its name stands for, and nothing is given out once close() has     *)
(* cleared the files.  Every step of the server is a step of the           *)
(* preparation or none, so what is proved of the preparation holds here.   *)
(***************************************************************************)
EXTENDS ContextServer, Ranks, SequenceTheorems

----------------------------------------------------------------------------
\* PrepareContext

\* served is a sequence; of what is of no matter here.
ServedSeq == \E T : served \in Seq(T)

IInv == TypeOK /\ ServedSeq /\ Budgeted

----------------------------------------------------------------------------
LEMMA NatTimes ==
  ASSUME NEW a \in Nat, NEW b \in Nat
  PROVE  a * b \in Nat
  OBVIOUS

LEMMA TimesMonotone ==
  ASSUME NEW a \in Nat, NEW b \in Nat, NEW c \in Nat, a <= b
  PROVE  c * a <= c * b
  OBVIOUS

\* The height of a block is positive.
LEMMA HeightPositive ==
  ASSUME NEW item \in Items
  PROVE  Height(item) \in Nat \ {0}
  BY DEF Height, Items

\* The size of a block is a natural number, its trailing newline taken off.
LEMMA BlockNat ==
  ASSUME NEW item, Placeable(item),
         NEW size \in [Documents -> [0..MaxLines -> Nat]],
         \A d \in Documents : \A m, n \in 0..MaxLines : m <= n => size[d][m] <= size[d][n]
  PROVE  BlockSize(size, item) \in Nat
<1> DEFINE before == item.first - 1
           last == item.first - 1 + Height(item)
<1>1. item.doc \in Documents /\ item.first \in Nat /\ item \in Items /\ item.first >= 1
  BY DEF Placeable, Items
<1>2. Height(item) \in Nat \ {0}
  BY <1>1, HeightPositive
<1>3. MaxLines \in Nat /\ Header \in Nat /\ Header >= 1
  BY ContextAssumption
<1>4. last <= MaxLines
  BY DEF Placeable
<1>5. before \in 0..MaxLines /\ last \in 0..MaxLines /\ before <= last /\ before + 0 = before
  BY <1>1, <1>2, <1>3, <1>4
<1> DEFINE x == size[item.doc][before]
           y == size[item.doc][last]
<1>6. BlockSize(size, item) = y - (x - Header) - 1
  BY <1>5 DEF BlockSize, Slice
<1> HIDE DEF before, last
<1>7. x \in Nat /\ y \in Nat /\ x <= y
  BY <1>1, <1>5
<1> HIDE DEF x, y
<1> QED
  BY <1>3, <1>6, <1>7

LEMMA BlockSizes ==
  ASSUME NEW item, Placeable(item)
  PROVE  BlockSize(Chars, item) \in Nat /\ BlockSize(Bytes, item) \in Nat
  BY BlockNat, ContextAssumption

\* What is rendered has lines of its document.
LEMMA RenderedPlaceable ==
  ASSUME TypeOK, NEW s \in Specs, Renders(s)
  PROVE  Placeable(Rendered(s))
<1> DEFINE d == text[s.path]
<1>1. s.path \in Paths /\ s.first \in Nat /\ s.last \in Nat
  BY DEF Specs
<1>2. d \in Documents /\ Lines[d] \in 0..MaxLines /\ MaxLines \in Nat \ {0}
  BY <1>1, ContextAssumption DEF TypeOK, Contents, Renders
<1> HIDE DEF d
<1>3. CASE Lines[d] = 0
  BY <1>1, <1>2, <1>3 DEF Placeable, Rendered, Items, Height, d
<1>4. CASE Lines[d] # 0
  <2>1. First(s) \in Nat /\ Last(s, d) \in Nat /\ First(s) >= 1
        /\ First(s) <= Last(s, d) /\ Last(s, d) <= MaxLines
    BY <1>1, <1>2, <1>4 DEF Renders, First, Last, d
  <2>2. Rendered(s) = [path |-> s.path, doc |-> d, first |-> First(s), last |-> Last(s, d)]
    BY <1>4 DEF Rendered, d
  <2> QED
    BY <1>1, <1>2, <2>1, <2>2 DEF Placeable, Items, Height
<1> QED
  BY <1>3, <1>4

\* How many URLs a served item adds.
LEMMA CutsFinite ==
  ASSUME NEW item \in Items, NEW cuts \in SUBSET (1..Height(item))
  PROVE  Cardinality(cuts) \in Nat
<1>1. 1 \in Int /\ Height(item) \in Int
  BY HeightPositive
<1>2. IsFiniteSet(1..Height(item))
  BY <1>1, FS_Interval
<1> QED
  BY <1>2, FS_Subset, FS_CardinalityType

----------------------------------------------------------------------------
\* A served sequence that grows by one.
LEMMA ServedGrows ==
  ASSUME ServedSeq, NEW e, served' = Append(served, e)
  PROVE  ServedSeq' /\ Len(served') = Len(served) + 1 /\ served' # <<>>
<1>1. PICK T : served \in Seq(T)
  BY DEF ServedSeq
<1>2. served \in Seq(T \cup {e})
  BY <1>1
<1>3. served' \in Seq(T \cup {e}) /\ Len(served') = Len(served) + 1
  BY <1>2
<1> QED
  BY <1>3 DEF ServedSeq

LEMMA ServedLength ==
  ASSUME ServedSeq
  PROVE  Len(served) \in Nat /\ (served = <<>> => Len(served) = 0)
  BY DEF ServedSeq

LEMMA ClearEmpties ==
  ASSUME Clear
  PROVE  ServedSeq' /\ Len(served') = 0 /\ inlined' = <<>> /\ served' = <<>> /\ bytes' = 0
         /\ {chars', bytes', urls', links'} \subseteq Nat /\ items' = <<>> /\ next' = 1
<1>1. served' = <<>> /\ <<>> \in Seq({})
  BY DEF Clear
<1> QED
  BY <1>1 DEF Clear, ServedSeq

LEMMA BudgetNat ==
  ASSUME TypeOK
  PROVE  BudgetBytes \in Nat /\ overhead \in Nat /\ Len(specs) \in Nat
         /\ specs \in Seq(Specs)
<1>1. {MaxChars, ArgvLimit, Headroom} \subseteq Nat /\ Overheads \subseteq Nat
      /\ Requests \subseteq Seq(Specs)
  BY ContextAssumption
<1>2. overhead \in Nat /\ reserve \in Nat /\ specs \in Seq(Specs)
  BY <1>1 DEF TypeOK
<1> QED
  BY <1>1, <1>2 DEF BudgetBytes

LEMMA EstimateNat ==
  ASSUME TypeOK
  PROVE  Estimate \in Nat
<1>1. IndexCost \in Nat
  BY ContextAssumption
<1>2. urls \in Nat
  BY DEF TypeOK
<1> QED
  BY <1>1, <1>2 DEF Estimate

----------------------------------------------------------------------------
LEMMA InitInv == Init => IInv
<1> SUFFICES ASSUME Init PROVE IInv
  OBVIOUS
<1>1. Texts \subseteq [Paths -> Contents]
  BY ContextAssumption
<1>2. served = <<>> /\ <<>> \in Seq({})
  BY DEF Init
<1>3. ServedSeq /\ Len(served) = 0
  BY <1>2 DEF ServedSeq
<1>4. <<>> \in Seq(Items) /\ Len(items) = 0 /\ Len(inlined) = 0
  BY DEF Init
<1>5. TypeOK
  BY <1>1, <1>3, <1>4 DEF Init, TypeOK, Phases, MaxRounds
<1>6. Budgeted
  <2>1. bytes = 0 /\ reserve = 0 /\ Estimate = 0 /\ BudgetBytes \in Nat
    BY <1>5, BudgetNat DEF Init, Estimate
  <2>2. CASE specs = <<>>
    <3>1. phase = "open" /\ items = specs
      BY <2>2 DEF Init
    <3> QED
      BY <2>1, <3>1 DEF Budgeted
  <2>3. CASE specs # <<>>
    <3>1. phase = "render" /\ ~settled /\ inlined = <<>> /\ served = <<>>
      BY <2>3 DEF Init
    <3>2. Len(items) < Len(specs)
      <4>1. specs \in Seq(Specs) /\ Len(items) = 0
        BY <1>4, <1>5, BudgetNat
      <4> QED
        BY <2>3, <4>1
    <3> QED
      BY <2>1, <3>1, <3>2 DEF Budgeted
  <2> QED
    BY <2>2, <2>3
<1> QED
  BY <1>3, <1>5, <1>6 DEF IInv

LEMMA AskedSpec ==
  ASSUME IInv, phase = "render"
  PROVE  /\ Asked \in Specs /\ Len(items) + 1 \in 1..Len(specs)
         /\ Len(items) \in Nat /\ Len(specs) \in Nat /\ items \in Seq(Items)
<1>1. specs \in Seq(Specs) /\ Len(specs) \in Nat /\ items \in Seq(Items)
  BY BudgetNat DEF IInv, TypeOK
<1>2. Len(items) < Len(specs)
  BY DEF IInv, Budgeted
<1>3. Len(items) \in Nat
  BY <1>1
<1>4. Len(items) + 1 \in 1..Len(specs)
  BY <1>1, <1>2, <1>3
<1> QED
  BY <1>1, <1>3, <1>4 DEF Asked

LEMMA RenderInv ==
  ASSUME IInv, Render
  PROVE  IInv'
<1>0. TypeOK /\ phase = "render" /\ ServedSeq
  BY DEF IInv, Render
<1>1. /\ Asked \in Specs /\ Len(items) + 1 \in 1..Len(specs) /\ Len(items) \in Nat
      /\ Len(specs) \in Nat /\ items \in Seq(Items)
  BY <1>0, AskedSpec
<1>2. PICK item : item = Rendered(Asked)
  OBVIOUS
<1>3. Placeable(item) /\ item \in Items
  <2>1. Placeable(Rendered(Asked))
    BY <1>0, <1>1, RenderedPlaceable DEF Render
  <2> QED
    BY <1>2, <2>1 DEF Placeable
<1>4. items' = Append(items, item)
  BY <1>2 DEF Render
<1>5. /\ items' \in Seq(Items) /\ Len(items') = Len(items) + 1
      /\ \A i \in DOMAIN items' : (i \in DOMAIN items /\ items'[i] = items[i]) \/ items'[i] = item
  BY <1>1, <1>3, <1>4
<1>6. \A i \in DOMAIN items' : Placeable(items'[i])
  BY <1>0, <1>3, <1>5 DEF TypeOK
<1>7. /\ UNCHANGED <<text, specs, overhead, round, reserve, settled, next, port>>
      /\ UNCHANGED <<chars, bytes, inlined, served, urls, links>>
      /\ phase' = IF Len(items) + 1 = Len(specs) THEN "place" ELSE "render"
  BY DEF Render, budgets
<1>8. next' \in 1..(Len(items') + 1)
  <2>1. next \in 1..(Len(items) + 1)
    BY <1>0 DEF TypeOK
  <2> QED
    BY <1>1, <1>5, <1>7, <2>1
<1>9. TypeOK'
  BY <1>0, <1>5, <1>6, <1>7, <1>8 DEF TypeOK, Phases, Placeable, Height
<1>10. ServedSeq'
  BY <1>0, <1>7 DEF ServedSeq
<1>11. ~settled /\ bytes = 0 /\ inlined = <<>> /\ served = <<>>
  BY <1>0 DEF IInv, Budgeted
<1>12. BudgetBytes' = BudgetBytes /\ BudgetBytes \in Nat
  BY <1>0, <1>7, BudgetNat DEF BudgetBytes
<1>13. Budgeted'
  <2>1. CASE Len(items) + 1 = Len(specs)
    BY <1>5, <1>7, <1>11, <1>12, <2>1 DEF Budgeted
  <2>2. CASE Len(items) + 1 # Len(specs)
    <3>1. Len(items') < Len(specs')
      BY <1>1, <1>5, <1>7, <2>2
    <3> QED
      BY <1>7, <1>11, <2>2, <3>1 DEF Budgeted
  <2> QED
    BY <2>1, <2>2
<1> QED
  BY <1>9, <1>10, <1>13 DEF IInv

\* One more round begins with nothing placed.
LEMMA AgainInv ==
  ASSUME IInv, Settle, Again, Estimate > reserve, round < MaxRounds
  PROVE  IInv'
<1>1. TypeOK /\ phase = "settle" /\ ~settled /\ Len(items) = Len(specs)
  BY DEF IInv, Settle, Budgeted
<1>2. /\ ServedSeq' /\ Len(served') = 0 /\ inlined' = <<>> /\ served' = <<>> /\ bytes' = 0
      /\ {chars', bytes', urls', links'} \subseteq Nat /\ items' = <<>> /\ next' = 1
  BY ClearEmpties DEF Again
<1>3. /\ UNCHANGED <<text, specs, overhead, settled, port>> /\ phase' = "render"
      /\ round' = round + 1 /\ reserve' = Estimate
  BY DEF Settle, Again
<1>4. round' \in 1..MaxRounds /\ reserve' \in Nat
  BY <1>1, <1>3, EstimateNat DEF TypeOK, MaxRounds
<1>5. /\ items' \in Seq(Items) /\ inlined' \in Seq(Items) /\ Len(items') = 0
      /\ Len(inlined') = 0 /\ \A i \in DOMAIN items' : Placeable(items'[i])
  BY <1>2
<1>6. TypeOK'
  BY <1>1, <1>2, <1>3, <1>4, <1>5 DEF TypeOK, Phases, Placeable, Height
<1>7. Len(items') < Len(specs')
  <2>1. specs \in Seq(Specs) /\ Len(specs) \in Nat
    BY <1>1, BudgetNat
  <2>2. Len(items) # 0
    <3> SUFFICES ASSUME Len(items) = 0 PROVE FALSE
      OBVIOUS
    <3>1. served = <<>>
      <4>1. /\ Len(inlined) + Len(served) = next - 1 /\ next \in 1..(Len(items) + 1)
            /\ inlined \in Seq(Items)
        BY <1>1 DEF TypeOK
      <4>2. PICK T : served \in Seq(T)
        BY DEF IInv, ServedSeq
      <4>3. Len(inlined) \in Nat /\ Len(served) \in Nat
        BY <4>1, <4>2
      <4>4. Len(served) = 0
        BY <4>1, <4>3
      <4> QED
        BY <4>2, <4>4
    <3>2. Estimate = 0
      BY <3>1 DEF Estimate
    <3> QED
      BY <1>1, <3>2 DEF TypeOK
  <2> QED
    BY <1>1, <1>3, <1>5, <2>1, <2>2
<1>8. Budgeted'
  BY <1>1, <1>2, <1>3, <1>7 DEF Budgeted
<1> QED
  BY <1>2, <1>6, <1>8 DEF IInv

\* Steps that move on to another phase and change no number.
LEMMA PhaseInv ==
  ASSUME IInv, RenderFails \/ Placed \/ (Settle /\ UNCHANGED <<items, next, budgets>>)
               \/ Open \/ Start,
         Settle => phase' = "open"
  PROVE  IInv'
<1>1. TypeOK /\ ServedSeq /\ Budgeted
  BY DEF IInv
<1>2. UNCHANGED <<text, specs, overhead, items, next, budgets>>
  BY DEF RenderFails, Placed, Settle, Open, Start, Break, Again
<1>3. UNCHANGED <<chars, bytes, inlined, served, urls, links>>
  BY <1>2 DEF budgets
<1>4. Estimate' = Estimate /\ Estimate \in Nat
  BY <1>1, <1>3, EstimateNat DEF Estimate
<1>5. /\ phase' \in Phases /\ round' \in 1..MaxRounds /\ settled' \in BOOLEAN
      /\ reserve' \in Nat /\ port' \in {4, 5}
  <2>1. reserve \in Nat /\ port \in {4, 5} /\ round \in 1..MaxRounds /\ phase \in Phases
        /\ settled \in BOOLEAN
    BY <1>1 DEF TypeOK
  <2>2. CASE RenderFails
    BY <2>1, <2>2 DEF RenderFails, Phases
  <2>3. CASE Placed
    BY <2>1, <2>3 DEF Placed, Phases
  <2>4. CASE Settle
    <3>1. port' = port /\ (settled' = TRUE \/ settled' = settled)
      BY <2>4 DEF Settle, Break, Again
    <3>2. reserve' \in Nat
      <4>1. reserve' = reserve \/ reserve' = Estimate
        BY <2>4 DEF Settle, Break, Again
      <4> QED
        BY <2>1, <1>4, <4>1
    <3>3. phase' = "open"
      BY <2>4
    <3>4. round' = round
      BY <2>4, <3>3 DEF Settle, Break, Again
    <3> QED
      BY <2>1, <3>1, <3>2, <3>3, <3>4 DEF Phases
  <2>5. CASE Open
    BY <2>1, <2>5 DEF Open, Phases
  <2>6. CASE Start
    BY <2>1, <2>6 DEF Start, Phases
  <2> QED
    BY <2>2, <2>3, <2>4, <2>5, <2>6
<1>6. TypeOK'
  BY <1>1, <1>2, <1>3, <1>5 DEF TypeOK, Placeable, Height
<1>7. ServedSeq'
  BY <1>1, <1>3 DEF ServedSeq
<1>8. reserve' = reserve => BudgetBytes' = BudgetBytes
  BY <1>2 DEF BudgetBytes
<1>9. Budgeted'
  <2>1. CASE RenderFails \/ Placed \/ Open \/ Start
    BY <1>1, <1>2, <1>3, <1>4, <1>8, <2>1 DEF RenderFails, Placed, Open, Start, Budgeted
  <2>2. CASE Settle
    <3>1. phase = "settle" /\ ~settled /\ phase' = "open"
      BY <1>1, <2>2 DEF Settle, Budgeted
    <3>2. \/ settled' = FALSE
          \/ Estimate <= reserve /\ reserve' = reserve
      BY <1>1, <2>2, <3>1 DEF Settle, Break, Again, TypeOK
    <3> QED
      BY <1>1, <1>2, <1>3, <1>4, <1>8, <3>1, <3>2 DEF Budgeted
  <2> QED
    BY <2>1, <2>2
<1> QED
  BY <1>6, <1>7, <1>9 DEF IInv

LEMMA ItemPlaced ==
  ASSUME TypeOK, Placing
  PROVE  /\ Item \in Items /\ Placeable(Item)
         /\ next \in Nat /\ next' = next + 1 /\ next' \in 1..(Len(items) + 1)
<1>1. items \in Seq(Items) /\ next \in 1..(Len(items) + 1) /\ next <= Len(items)
  BY DEF TypeOK, Placing
<1>2. next \in DOMAIN items /\ Len(items) \in Nat
  BY <1>1
<1> QED
  BY <1>1, <1>2 DEF TypeOK, Placing, Item

LEMMA InlineInv ==
  ASSUME IInv, Inline
  PROVE  IInv'
<1>1. TypeOK /\ ServedSeq /\ Budgeted /\ Placing
  BY DEF IInv, Inline
<1>2. /\ Item \in Items /\ Placeable(Item) /\ next \in Nat /\ next' = next + 1
      /\ next' \in 1..(Len(items) + 1)
  BY <1>1, ItemPlaced
<1>3. BlockSize(Chars, Item) \in Nat /\ BlockSize(Bytes, Item) \in Nat
  BY <1>2, BlockSizes
<1>4. UNCHANGED <<text, specs, overhead, phase, round, reserve, settled, items, served,
                  urls, links, port>>
  BY DEF Inline
<1>5. /\ chars' = chars + BlockSize(Chars, Item) /\ bytes' = bytes + BlockSize(Bytes, Item)
      /\ bytes' <= BudgetBytes
  BY DEF Inline, Fits
<1>6. chars' \in Nat /\ bytes' \in Nat
  BY <1>1, <1>3, <1>5 DEF TypeOK
<1>7. inlined' \in Seq(Items) /\ Len(inlined') = Len(inlined) + 1
  BY <1>1, <1>2 DEF TypeOK, Inline
<1>8. Len(inlined) \in Nat /\ Len(served) \in Nat
  BY <1>1, ServedLength DEF TypeOK
<1>9. Len(inlined') + Len(served') = next' - 1
  BY <1>1, <1>2, <1>4, <1>7, <1>8 DEF TypeOK
<1>10. TypeOK'
  BY <1>1, <1>2, <1>4, <1>6, <1>7, <1>9 DEF TypeOK, Placeable, Height
<1>11. ServedSeq'
  BY <1>1, <1>4 DEF ServedSeq
<1>12. BudgetBytes' = BudgetBytes /\ Estimate' = Estimate
  BY <1>4 DEF BudgetBytes, Estimate
<1>13. Budgeted'
  BY <1>1, <1>4, <1>5, <1>12 DEF Budgeted, Placing
<1> QED
  BY <1>10, <1>11, <1>13 DEF IInv

LEMMA ServeInv ==
  ASSUME IInv, Serve
  PROVE  IInv'
<1>1. TypeOK /\ ServedSeq /\ Budgeted /\ Placing
  BY DEF IInv, Serve
<1>2. /\ Item \in Items /\ Placeable(Item) /\ next \in Nat /\ next' = next + 1
      /\ next' \in 1..(Len(items) + 1)
  BY <1>1, ItemPlaced
<1>3. UNCHANGED <<text, specs, overhead, phase, round, reserve, settled, items, inlined,
                  chars, bytes, port>>
  BY DEF Serve
<1>4. PICK cuts \in SUBSET (1..Height(Item)) :
         /\ \E e : served' = Append(served, e)
         /\ links' = links + (Cardinality(cuts) + 1)
         /\ urls' = urls + UrlCost * (IF Cardinality(cuts) + 1 = 1 THEN 1
                                      ELSE Cardinality(cuts) + 1 + 1)
  BY DEF Serve
<1>5. ServedSeq' /\ Len(served') = Len(served) + 1
  BY <1>1, <1>4, ServedGrows
<1>6. Cardinality(cuts) \in Nat /\ UrlCost \in Nat
  BY <1>2, CutsFinite, ContextAssumption
<1>7. links' \in Nat
  <2>1. links \in Nat
    BY <1>1 DEF TypeOK
  <2> QED BY <1>4, <1>6, <2>1
<1>8. UrlCost * (IF Cardinality(cuts) + 1 = 1 THEN 1 ELSE Cardinality(cuts) + 1 + 1) \in Nat
  BY <1>6, NatTimes
<1>9. urls' \in Nat
  <2>1. urls \in Nat
    BY <1>1 DEF TypeOK
  <2> QED BY <1>4, <1>8, <2>1
<1>10. Len(inlined) \in Nat /\ Len(served) \in Nat
  BY <1>1, ServedLength DEF TypeOK
<1>11. Len(inlined') + Len(served') = next' - 1
  BY <1>1, <1>2, <1>3, <1>5, <1>10 DEF TypeOK
<1>12. TypeOK'
  BY <1>1, <1>2, <1>3, <1>7, <1>9, <1>11 DEF TypeOK, Placeable, Height
<1>13. BudgetBytes' = BudgetBytes /\ ~settled
  BY <1>1, <1>3 DEF BudgetBytes, Budgeted, Placing
<1>14. Budgeted'
  BY <1>1, <1>3, <1>13 DEF Budgeted, Placing
<1> QED
  BY <1>5, <1>12, <1>14 DEF IInv

LEMMA EditInv ==
  ASSUME IInv, NEW p \in Paths, NEW content \in Contents, Edit(p, content)
  PROVE  IInv'
<1>1. UNCHANGED <<specs, overhead, phase, round, reserve, settled, items, next, chars, bytes,
                  inlined, served, urls, links, port>>
  BY DEF Edit, budgets
<1>2. text' \in [Paths -> Contents]
  BY DEF IInv, TypeOK, Edit
<1>3. TypeOK'
  BY <1>1, <1>2 DEF IInv, TypeOK, Placeable, Height
<1>4. ServedSeq' /\ Budgeted'
  BY <1>1 DEF IInv, ServedSeq, Budgeted, BudgetBytes, Estimate
<1> QED
  BY <1>3, <1>4 DEF IInv

LEMMA StepInv == IInv /\ [Next]_vars => IInv'
<1> SUFFICES ASSUME IInv, [Next]_vars PROVE IInv'
  OBVIOUS
<1>3. CASE Settle
  <2>1. CASE Estimate > reserve /\ round < MaxRounds /\ Again
    BY <1>3, <2>1, AgainInv
  <2>2. CASE UNCHANGED <<items, next, budgets>> /\ phase' = "open"
    BY <1>3, <2>2, PhaseInv
  <2> QED
    BY <1>3, <2>1, <2>2 DEF Settle, Break
<1>4. CASE RenderFails \/ Placed \/ Open \/ Start
  BY <1>4, PhaseInv DEF RenderFails, Placed, Open, Start, Settle
<1>1. CASE Next
  BY <1>1, <1>3, <1>4, RenderInv, InlineInv, ServeInv, EditInv DEF Next, Prepare
<1>2. CASE UNCHANGED vars
  <2>1. UNCHANGED <<text, specs, overhead, phase, round, reserve, settled, items, next, chars,
                    bytes, inlined, served, urls, links, port>>
    BY <1>2 DEF vars, budgets
  <2>2. TypeOK'
    BY <2>1 DEF IInv, TypeOK, Placeable, Height
  <2>3. ServedSeq' /\ Budgeted'
    BY <2>1 DEF IInv, ServedSeq, Budgeted, BudgetBytes, Estimate
  <2> QED
    BY <2>2, <2>3 DEF IInv
<1> QED
  BY <1>1, <1>2

----------------------------------------------------------------------------
\* What is inlined, the list and the separators have their room each, or nothing is
\* inlined.
LEMMA FitsIfBudgeted == IInv => PromptFits
<1> SUFFICES ASSUME IInv, Assembled, settled, Separator * Len(specs) <= Headroom
             PROVE  \/ PromptBytes <= ArgvLimit
                    \/ bytes = 0 /\ overhead + Estimate + Headroom > ArgvLimit
  BY DEF PromptFits
<1>1. TypeOK /\ ServedSeq /\ Budgeted
  BY DEF IInv
<1>2. /\ bytes \in Nat /\ reserve \in Nat /\ overhead \in Nat /\ links \in Nat
      /\ Len(specs) \in Nat
      /\ ArgvLimit \in Nat /\ Headroom \in Nat /\ Separator \in Nat /\ MaxChars \in Nat
  <2>1. bytes \in Nat /\ reserve \in Nat /\ links \in Nat
    BY <1>1 DEF TypeOK
  <2>2. ArgvLimit \in Nat /\ Headroom \in Nat /\ Separator \in Nat /\ MaxChars \in Nat
    BY ContextAssumption
  <2> QED
    BY <1>1, <2>1, <2>2, BudgetNat
<1>3. bytes <= BudgetBytes /\ Estimate <= reserve /\ Len(items) = Len(specs)
  BY <1>1 DEF Budgeted
<1>4. bytes = 0 \/ bytes <= ArgvLimit - (overhead + reserve) - Headroom
  BY <1>2, <1>3 DEF BudgetBytes
<1> DEFINE joints == IF Joints < 0 THEN 0 ELSE Joints
<1>5. joints \in Nat /\ joints <= Len(specs)
  <2>1. Len(inlined) \in Nat /\ Len(served) \in Nat /\ (served = <<>> \/ Len(served) >= 0)
    BY <1>1, ServedLength DEF TypeOK
  <2>2. Len(inlined) + Len(served) <= Len(specs)
    BY <1>1, <1>2, <1>3, <2>1 DEF TypeOK
  <2> QED
    BY <1>2, <2>1, <2>2 DEF Joints
<1>6. Separator * joints <= Separator * Len(specs) /\ Separator * joints \in Nat
      /\ Separator * Len(specs) \in Nat
  BY <1>2, <1>5, TimesMonotone, NatTimes
<1>7. port \in {4, 5} /\ Estimate \in Nat
  BY <1>1, EstimateNat DEF TypeOK
<1>8. (5 - port) * (links + 1) \in Nat
  BY <1>2, <1>7, NatTimes
<1> DEFINE list == IF served = <<>> THEN 0 ELSE Estimate - (5 - port) * (links + 1)
<1> DEFINE saved == (5 - port) * (links + 1)
<1>9. list \in Int /\ list <= Estimate
  <2>1. saved \in Nat
    BY <1>8
  <2>2. CASE served = <<>>
    BY <1>7, <2>2
  <2>3. CASE served # <<>>
    <3>1. list = Estimate - saved
      BY <2>3
    <3> HIDE DEF saved, list
    <3> QED
      BY <1>2, <1>3, <1>7, <2>1, <3>1
  <2> QED
    BY <2>2, <2>3
<1>10. PromptBytes = overhead + bytes + Separator * joints + list
  BY DEF PromptBytes
<1> HIDE DEF joints, list
<1> DEFINE s == Separator * joints
           t == Separator * Len(specs)
<1>11. s \in Nat /\ t \in Nat /\ s <= t /\ t <= Headroom
  BY <1>6
<1>12. PromptBytes = overhead + bytes + s + list
  BY <1>10
<1> HIDE DEF s, t
<1>13. PromptBytes <= ArgvLimit \/ overhead + Estimate + Headroom > ArgvLimit
  BY <1>2, <1>3, <1>4, <1>7, <1>9, <1>11, <1>12
<1>14. bytes <= ArgvLimit - (overhead + reserve) - Headroom => PromptBytes <= ArgvLimit
  BY <1>2, <1>3, <1>7, <1>9, <1>11, <1>12
<1> QED
  BY <1>4, <1>13, <1>14

\* The types and counts of a preparation, for any files, requests and sizes.
THEOREM ContextTypes == Spec => []TypeOK
<1>1. IInv => TypeOK
  BY DEF IInv
<1> QED
  BY <1>1, InitInv, StepInv, PTL DEF Spec

\* A call whose rounds settle is refused for its size only if nothing of a file is
\* inlined and the rest of its prompt leaves no room for the list, for any files,
\* sizes, limits and edits (server.py:309-312).
THEOREM SettledPromptFits == Spec => []PromptFits
  BY InitInv, StepInv, FitsIfBudgeted, PTL DEF Spec

----------------------------------------------------------------------------
\* The order of what is delivered.

LEMMA InitOrdered == Init => Ordered
<1> SUFFICES ASSUME Init PROVE Ordered
  OBVIOUS
<1>1. items = <<>> /\ inlined = <<>> /\ served = <<>> /\ next = 1
  BY DEF Init
<1>2. phase \in {"place", "settle", "open", "start", "started"} => specs = <<>>
  BY DEF Init
<1> QED
  BY <1>1, <1>2 DEF Ordered

LEMMA RenderOrdered ==
  ASSUME IInv, Ordered, Render
  PROVE  Ordered'
<1>1. /\ Len(items) + 1 \in 1..Len(specs) /\ Len(items) \in Nat
      /\ Len(specs) \in Nat /\ items \in Seq(Items)
  BY AskedSpec DEF Render
<1>2. PICK item : item = Rendered(Asked)
  OBVIOUS
<1>3. item.path = specs[Len(items) + 1].path
  BY <1>2 DEF Rendered, Asked
<1>4. Asked \in Specs /\ TypeOK /\ phase = "render"
  BY AskedSpec DEF Render, IInv
<1>5. item \in Items
  BY <1>2, <1>4, RenderedPlaceable DEF Render, Placeable
<1>6. items' = Append(items, item) /\ UNCHANGED <<specs, inlined, served>>
      /\ phase' = IF Len(items) + 1 = Len(specs) THEN "place" ELSE "render"
  BY <1>2 DEF Render, budgets
<1>7. /\ Len(items') = Len(items) + 1
      /\ \A i \in DOMAIN items' : \/ i \in DOMAIN items /\ items'[i] = items[i]
                                  \/ i = Len(items) + 1 /\ items'[i] = item
  BY <1>1, <1>5, <1>6
<1>8. \A i \in DOMAIN items' : items'[i].path = specs'[i].path
  BY <1>3, <1>6, <1>7 DEF Ordered
<1>9. inlined' = <<>> /\ served' = <<>>
  BY <1>4, <1>6 DEF IInv, Budgeted
<1>10. phase' \in {"place", "settle", "open", "start", "started"} => Len(items') = Len(specs')
  BY <1>6, <1>7
<1>11. phase' \notin {"settle", "open", "start", "started"}
  BY <1>6
<1> QED
  BY <1>8, <1>9, <1>10, <1>11 DEF Ordered

LEMMA AgainOrdered ==
  ASSUME Settle, Again
  PROVE  Ordered'
<1>1. items' = <<>> /\ inlined' = <<>> /\ served' = <<>> /\ phase' = "render"
  BY DEF Again, Clear
<1> QED
  BY <1>1 DEF Ordered

LEMMA PhaseOrdered ==
  ASSUME IInv, Ordered, RenderFails \/ Placed \/ Settle \/ Open \/ Start, ~Again
  PROVE  Ordered'
<1>1. UNCHANGED <<specs, items, next, inlined, served>>
  BY DEF RenderFails, Placed, Settle, Open, Start, Break, budgets
<1>2. /\ next \in 1..(Len(items) + 1) /\ items \in Seq(Items)
  BY DEF IInv, TypeOK
<1>3. /\ phase' \in {"place", "settle", "open", "start", "started"} =>
             phase \in {"place", "settle", "open", "start", "started"}
      /\ phase' \in {"settle", "open", "start", "started"} =>
             phase \in {"settle", "open", "start", "started"} \/ next > Len(items)
  BY DEF RenderFails, Placed, Settle, Open, Start, Break
<1>4. next > Len(items) => next = Len(items) + 1
  BY <1>2
<1> QED
  BY <1>1, <1>3, <1>4 DEF Ordered

LEMMA InlineOrdered ==
  ASSUME IInv, Ordered, Inline
  PROVE  Ordered'
<1>1. TypeOK /\ ServedSeq /\ Placing
  BY DEF IInv, Inline
<1>2. Item \in Items /\ next \in Nat /\ served = <<>>
  BY <1>1, ItemPlaced DEF Inline, Fits
<1>3. UNCHANGED <<specs, phase, items, served>> /\ inlined' = Append(inlined, Item)
      /\ phase = "place"
  BY DEF Inline, Placing
<1>4. inlined \in Seq(Items) /\ Len(inlined) = next - 1
  BY <1>1, <1>2, ServedLength DEF TypeOK
<1>5. \A i \in DOMAIN inlined' : inlined'[i] = items[i]
  <2> SUFFICES ASSUME NEW i \in DOMAIN inlined' PROVE inlined'[i] = items[i]
    OBVIOUS
  <2>1. DOMAIN inlined = 1..Len(inlined) /\ Len(inlined) \in Nat /\ Len(inlined) + 1 = next
    BY <1>2, <1>4
  <2>2. /\ DOMAIN Append(inlined, Item) = 1..(Len(inlined) + 1)
        /\ \A j \in 1..Len(inlined) : Append(inlined, Item)[j] = inlined[j]
        /\ Append(inlined, Item)[Len(inlined) + 1] = Item
    BY <1>2, <1>4
  <2>3. i \in DOMAIN inlined \/ i = Len(inlined) + 1
    BY <1>3, <2>1, <2>2
  <2>4. CASE i \in DOMAIN inlined
    BY <1>3, <2>1, <2>2, <2>4 DEF Ordered
  <2>5. CASE i = Len(inlined) + 1
    BY <1>3, <2>1, <2>2, <2>5 DEF Item
  <2> QED
    BY <2>3, <2>4, <2>5
<1> QED
  BY <1>2, <1>3, <1>5 DEF Ordered

LEMMA ServeOrdered ==
  ASSUME IInv, Ordered, Serve
  PROVE  Ordered'
<1>1. TypeOK /\ ServedSeq /\ Placing
  BY DEF IInv, Serve
<1>2. Item \in Items /\ next \in Nat
  BY <1>1, ItemPlaced
<1>3. UNCHANGED <<specs, phase, items, inlined>> /\ phase = "place"
  BY DEF Serve, Placing
<1>4. PICK e : served' = Append(served, e) /\ e.item = Item
  BY DEF Serve
<1>5. PICK T : served \in Seq(T)
  BY <1>1 DEF ServedSeq
<1>6. Len(inlined) \in Nat /\ Len(served) \in Nat /\ Len(inlined) + Len(served) + 1 = next
  <2>1. inlined \in Seq(Items) /\ Len(inlined) + Len(served) = next - 1
    BY <1>1 DEF TypeOK
  <2>2. Len(inlined) \in Nat
    BY <2>1
  <2>3. Len(served) \in Nat
    BY <1>5
  <2> QED
    BY <1>2, <2>1, <2>2, <2>3
<1>7. \A i \in DOMAIN served' : served'[i].item = items[Len(inlined) + i]
  <2> SUFFICES ASSUME NEW i \in DOMAIN served' PROVE served'[i].item = items[Len(inlined) + i]
    OBVIOUS
  <2>1. served \in Seq(T \cup {e}) /\ e \in T \cup {e}
    BY <1>5
  <2>2. \/ i \in DOMAIN served /\ served'[i] = served[i]
        \/ i = Len(served) + 1 /\ served'[i] = e
    BY <1>4, <2>1
  <2>3. CASE i \in DOMAIN served /\ served'[i] = served[i]
    BY <2>3 DEF Ordered
  <2>4. CASE i = Len(served) + 1 /\ served'[i] = e
    BY <1>4, <1>6, <2>4 DEF Item
  <2> QED
    BY <2>2, <2>3, <2>4
<1> QED
  BY <1>3, <1>7 DEF Ordered

LEMMA StepOrdered == IInv /\ Ordered /\ [Next]_vars => Ordered'
<1> SUFFICES ASSUME IInv, Ordered, [Next]_vars PROVE Ordered'
  OBVIOUS
<1>1. ASSUME UNCHANGED <<specs, phase, items, next, inlined, served>>
      PROVE  Ordered'
  BY <1>1 DEF Ordered
<1>2. CASE UNCHANGED vars
  BY <1>1, <1>2 DEF vars, budgets
<1>3. ASSUME NEW p \in Paths, NEW content \in Contents, Edit(p, content)
      PROVE  Ordered'
  BY <1>1, <1>3 DEF Edit, budgets
<1>5. CASE RenderFails \/ Placed \/ Settle \/ Open \/ Start
  <2>1. CASE Again
    <3>1. phase' = "render"
      BY <2>1 DEF Again
    <3>2. Settle
      BY <1>5, <3>1 DEF RenderFails, Placed, Open, Start
    <3> QED
      BY <2>1, <3>2, AgainOrdered
  <2>2. CASE ~Again
    BY <1>5, <2>2, PhaseOrdered
  <2> QED
    BY <2>1, <2>2
<1>4. CASE Next
  BY <1>3, <1>4, <1>5, RenderOrdered, InlineOrdered, ServeOrdered DEF Next, Prepare
<1> QED
  BY <1>2, <1>4

LEMMA OrderedDelivers == IInv /\ Ordered => InOrder
<1> SUFFICES ASSUME IInv, Ordered, Assembled PROVE InOrder
  BY DEF InOrder
<1>1. TypeOK /\ ServedSeq
  BY DEF IInv
<1>2. Len(items) = Len(specs) /\ next = Len(items) + 1
  BY DEF Ordered, Assembled
<1>3. PICK T : served \in Seq(T)
  BY <1>1 DEF ServedSeq
<1>4. /\ items \in Seq(Items) /\ inlined \in Seq(Items)
      /\ Len(inlined) + Len(served) = next - 1
  BY <1>1 DEF TypeOK
<1>5. Len(items) \in Nat /\ Len(inlined) \in Nat /\ Len(served) \in Nat
      /\ DOMAIN items = 1..Len(items) /\ DOMAIN inlined = 1..Len(inlined)
      /\ DOMAIN served = 1..Len(served)
  BY <1>3, <1>4
<1>6. Len(inlined) + Len(served) = Len(items)
  <2>1. next = Len(items) + 1 /\ Len(inlined) + Len(served) = next - 1
    BY <1>2, <1>4
  <2>2. Len(items) \in Nat /\ Len(inlined) \in Nat /\ Len(served) \in Nat
    BY <1>5
  <2> QED
    BY <2>1, <2>2
<1>7. /\ \A i \in DOMAIN inlined : i \in DOMAIN items
      /\ \A i \in DOMAIN served : Len(inlined) + i \in DOMAIN items
  BY <1>5, <1>6
<1> QED
  BY <1>2, <1>6, <1>7 DEF InOrder, Ordered

\* Every file asked for is delivered once and in the order given, whatever fits and
\* whoever edits the files (context.py:263-265).
THEOREM DeliveredInOrder == Spec => []InOrder
<1>1. Init => IInv /\ Ordered
  BY InitInv, InitOrdered
<1>2. IInv /\ Ordered /\ [Next]_vars => (IInv /\ Ordered)'
  BY StepInv, StepOrdered
<1>3. IInv /\ Ordered => InOrder
  BY OrderedDelivers
<1> QED
  BY <1>1, <1>2, <1>3, PTL DEF Spec

----------------------------------------------------------------------------
\* The line a part begins with.
Begins(cuts, p) == CHOOSE i \in cuts \cup {0} : Cardinality({h \in cuts : h <= i}) = p - 1

LEMMA BeginsRank ==
  ASSUME NEW h \in Nat, NEW cuts \in SUBSET (1..h), NEW p \in 1..(Cardinality(cuts) + 1)
  PROVE  /\ Begins(cuts, p) \in cuts \cup {0} /\ Begins(cuts, p) \in 0..h
         /\ Rank(cuts, Begins(cuts, p)) = p - 1
<1>1. 0 \in 0..h
  OBVIOUS
<1>2. Cardinality(cuts) \in Nat
  BY <1>1, RankType
<1>3. p - 1 \in 0..Cardinality(cuts)
  BY <1>2
<1>4. \E i \in cuts \cup {0} : Cardinality({c \in cuts : c <= i}) = p - 1
  BY <1>3, RankOnto DEF Rank
<1>5. Begins(cuts, p) \in cuts \cup {0} /\ Cardinality({c \in cuts : c <= Begins(cuts, p)}) = p - 1
  BY <1>4 DEF Begins
<1>6. Begins(cuts, p) \in 0..h
  <2>1. \A c \in cuts : c \in 0..h
    BY RankedNat
  <2> QED
    BY <1>1, <1>5, <2>1
<1> QED
  BY <1>5, <1>6 DEF Rank

\* No cut lies inside of a part.
LEMMA BeginsNext ==
  ASSUME NEW h \in Nat, NEW cuts \in SUBSET (1..h), NEW p \in 1..(Cardinality(cuts) + 1)
  PROVE  /\ p = 1 => Begins(cuts, p) = 0
         /\ p <= Cardinality(cuts) =>
               /\ Begins(cuts, p) < Begins(cuts, p + 1)
               /\ \A c \in cuts : c <= Begins(cuts, p) \/ Begins(cuts, p + 1) <= c
         /\ p = Cardinality(cuts) + 1 => \A c \in cuts : c <= Begins(cuts, p)
<1>1. 0 \in 0..h /\ \A c \in cuts : c \in 0..h
  OBVIOUS
<1>2. Cardinality(cuts) \in Nat /\ Rank(cuts, 0) = 0
  BY <1>1, RankType
<1> DEFINE b == Begins(cuts, p)
           e == Begins(cuts, p + 1)
<1>3. b \in cuts \cup {0} /\ b \in 0..h /\ Rank(cuts, b) = p - 1
  BY BeginsRank
<1>4. \A c \in cuts : Rank(cuts, c) \in 0..Cardinality(cuts)
  BY <1>1, RankType
<1>5. ASSUME p = 1 PROVE b = 0
  <2> SUFFICES ASSUME b \in cuts PROVE FALSE
    BY <1>3
  <2>1. b \in Nat /\ b >= 1
    BY RankedNat
  <2>3. 0 < b
    BY <2>1
  <2>2. Rank(cuts, 0) < Rank(cuts, b)
    BY <1>1, <2>3, RankStrict
  <2> QED
    BY <1>2, <1>3, <1>5, <2>2
<1>6. ASSUME NEW c \in cuts, b < c PROVE Rank(cuts, c) > p - 1
  BY <1>3, <1>6, RankStrict
<1>7. ASSUME p <= Cardinality(cuts)
      PROVE  b < e /\ \A c \in cuts : c <= b \/ e <= c
  <2>1. p + 1 \in 1..(Cardinality(cuts) + 1)
    BY <1>2, <1>7
  <2>2. e \in cuts \cup {0} /\ e \in 0..h /\ Rank(cuts, e) = p
    BY <2>1, BeginsRank
  <2>3. e # 0 /\ e \in cuts
    BY <1>2, <2>2
  <2>4. b < e
    <3> SUFFICES ASSUME ~(b < e) PROVE FALSE
      OBVIOUS
    <3>1. e < b \/ e = b
      BY <1>3, <2>2
    <3>2. CASE e = b
      BY <1>3, <2>2, <3>2
    <3>3. CASE e < b
      <4>1. b \in cuts
        BY <1>3, <2>2, <3>3
      <4>2. Rank(cuts, e) < Rank(cuts, b)
        BY <2>2, <3>3, <4>1, RankStrict
      <4> QED
        BY <1>3, <2>2, <4>2
    <3> QED
      BY <3>1, <3>2, <3>3
  <2>5. ASSUME NEW c \in cuts, b < c, c < e PROVE FALSE
    <3>1. c \in 0..h
      BY <1>1
    <3>2. Rank(cuts, c) < Rank(cuts, e)
      BY <2>3, <2>5, <3>1, RankStrict
    <3>3. Rank(cuts, c) > p - 1 /\ Rank(cuts, c) \in Nat
      BY <1>2, <1>4, <1>6, <2>5
    <3> QED
      BY <2>2, <3>2, <3>3
  <2>6. \A c \in cuts : c \in Int /\ b \in Int /\ e \in Int
    BY <1>1, <1>3, <2>2
  <2> HIDE DEF b, e
  <2> QED
    BY <2>4, <2>5, <2>6
<1>8. ASSUME p = Cardinality(cuts) + 1, NEW c \in cuts PROVE c <= b
  <2> SUFFICES ASSUME b < c PROVE FALSE
    BY <1>1, <1>3
  <2>1. Rank(cuts, c) > p - 1 /\ Rank(cuts, c) \in 0..Cardinality(cuts)
    BY <1>4, <1>6
  <2> QED
    BY <1>2, <1>8, <2>1
<1> QED
  BY <1>5, <1>7, <1>8

\* The parts of a cut block: they follow each other from its header to its last line.
LEMMA PartsFollow ==
  ASSUME NEW item, Height(item) \in Nat \ {0},
         NEW cuts \in SUBSET (1..Height(item)), NEW n, n = Cardinality(cuts) + 1
  PROVE  /\ n \in Nat \ {0}
         /\ DOMAIN Parts(item, cuts) = 1..n
         /\ \A p \in 1..n :
               /\ Parts(item, cuts)[p].item = item
               /\ Parts(item, cuts)[p].from = Begins(cuts, p)
               /\ Parts(item, cuts)[p].from \in Nat
               /\ Parts(item, cuts)[p].to =
                     IF p = n THEN Height(item) ELSE Begins(cuts, p + 1) - 1
         /\ Parts(item, cuts)[1].from = 0
         /\ Parts(item, cuts)[n].to = Height(item)
         /\ \A p \in 1..(n - 1) :
               Parts(item, cuts)[p].to + 1 = Parts(item, cuts)[p + 1].from
<1> DEFINE h == Height(item)
           parts == Parts(item, cuts)
<1>1. Cardinality(cuts) \in Nat /\ n \in Nat \ {0}
  <2>1. 0 \in 0..h
    OBVIOUS
  <2>2. Cardinality(cuts) \in Nat
    BY <2>1, RankType
  <2> QED
    BY <2>2
<1>2. parts = [p \in 1..n |-> [item |-> item, from |-> Begins(cuts, p),
                               to |-> IF p = n THEN h ELSE Begins(cuts, p + 1) - 1]]
  BY DEF Parts, Begins
<1>3. \A p \in 1..n : Begins(cuts, p) \in Nat
  <2> SUFFICES ASSUME NEW p \in 1..n PROVE Begins(cuts, p) \in Nat
    OBVIOUS
  <2>1. Begins(cuts, p) \in 0..h
    BY BeginsRank
  <2> QED
    BY <2>1
<1>4. 1 \in 1..n /\ n \in 1..n
  BY <1>1
<1>5. Begins(cuts, 1) = 0
  BY <1>4, BeginsNext
<1> HIDE DEF parts, h
<1>6. \A p \in 1..n : /\ parts[p].item = item /\ parts[p].from = Begins(cuts, p)
                      /\ parts[p].to = IF p = n THEN h ELSE Begins(cuts, p + 1) - 1
  BY <1>2
<1>7. \A p \in 1..(n - 1) : parts[p].to + 1 = parts[p + 1].from
  <2> SUFFICES ASSUME NEW p \in 1..(n - 1) PROVE parts[p].to + 1 = parts[p + 1].from
    OBVIOUS
  <2>1. p \in 1..n /\ p + 1 \in 1..n /\ p # n
    BY <1>1
  <2>2. parts[p].to = Begins(cuts, p + 1) - 1 /\ parts[p + 1].from = Begins(cuts, p + 1)
    BY <1>6, <2>1
  <2>3. Begins(cuts, p + 1) \in Nat
    BY <1>3, <2>1
  <2> QED
    BY <2>2, <2>3
<1>8. DOMAIN parts = 1..n
  BY <1>2
<1> QED
  BY <1>1, <1>3, <1>4, <1>5, <1>6, <1>7, <1>8 DEF parts, h

\* A line belongs to the part that begins at the last cut before it.
LEMMA StartOfPart ==
  ASSUME NEW h \in Nat, NEW cuts \in SUBSET (1..h), NEW b \in cuts \cup {0}, NEW k \in 1..h,
         b < k, \A c \in cuts : c <= b \/ k <= c
  PROVE  PartStart(cuts, k) = b
<1>1. \A c \in cuts : c \in Nat
  BY RankedNat
<1>2. b \in Nat /\ k \in Nat
  BY <1>1
<1>3. \A c \in cuts : c < k => c <= b
  BY <1>1, <1>2
<1>4. ASSUME NEW i \in cuts \cup {0}, i < k, \A c \in cuts : c < k => c <= i
      PROVE  i = b
  <2>1. i \in Nat /\ i <= b
    BY <1>1, <1>2, <1>3, <1>4
  <2>2. b <= i
    BY <1>1, <1>2, <1>4, <2>1
  <2> QED
    BY <1>2, <2>1, <2>2
<1>5. PartStart(cuts, k) \in cuts \cup {0} /\ PartStart(cuts, k) < k
      /\ \A c \in cuts : c < k => c <= PartStart(cuts, k)
  BY <1>3 DEF PartStart
<1> QED
  BY <1>4, <1>5

\* A part that was cut is one line or within the limit of a part.
LEMMA PartsFit ==
  ASSUME NEW item, Placeable(item), NEW cuts \in SUBSET (1..Height(item)),
         IsChunking(item, cuts), NEW p \in 1..(Cardinality(cuts) + 1)
  PROVE  LET f == Parts(item, cuts)[p] IN
         f.from = f.to \/ Slice(Bytes, item, f.from, f.to) - 1 <= ChunkLimit
<1> DEFINE h == Height(item)
           n == Cardinality(cuts) + 1
           f == Parts(item, cuts)[p]
<1>0. h \in Nat \ {0}
  BY HeightPositive DEF Placeable
<1>1. /\ n \in Nat \ {0} /\ f.from = Begins(cuts, p) /\ f.from \in Nat
      /\ f.to = IF p = n THEN h ELSE Begins(cuts, p + 1) - 1
      /\ f.item = item
  BY <1>0, PartsFollow
<1>8. Cardinality(cuts) \in Nat
  <2>1. 0 \in 0..h
    BY <1>0
  <2> QED
    BY <1>0, <2>1, RankType
<1>2. /\ f.from \in cuts \cup {0}
      /\ p < n => /\ f.from < Begins(cuts, p + 1)
                  /\ Begins(cuts, p + 1) \in cuts
                  /\ \A c \in cuts : c <= f.from \/ Begins(cuts, p + 1) <= c
      /\ p = n => \A c \in cuts : c <= f.from
  <2>1. f.from \in cuts \cup {0}
    BY <1>0, <1>1, BeginsRank
  <2>2. /\ p <= Cardinality(cuts) =>
              /\ f.from < Begins(cuts, p + 1)
              /\ \A c \in cuts : c <= f.from \/ Begins(cuts, p + 1) <= c
        /\ p = n => \A c \in cuts : c <= f.from
    BY <1>0, <1>1, BeginsNext
  <2>3. p < n => p <= Cardinality(cuts) /\ p + 1 \in 1..n
    BY <1>8
  <2>4. ASSUME p < n PROVE Begins(cuts, p + 1) \in cuts
    <3>1. Begins(cuts, p + 1) \in cuts \cup {0}
      BY <1>0, <2>3, <2>4, BeginsRank
    <3>2. Begins(cuts, p + 1) # 0
      BY <1>1, <2>2, <2>3, <2>4
    <3> QED
      BY <3>1, <3>2
  <2> QED
    BY <2>1, <2>2, <2>3, <2>4
<1> HIDE DEF f
<1> SUFFICES ASSUME f.from # f.to PROVE Slice(Bytes, item, f.from, f.to) - 1 <= ChunkLimit
  BY DEF f
<1>3. f.to \in 1..h /\ f.from < f.to /\ f.to \notin cuts
      /\ \A c \in cuts : c <= f.from \/ f.to <= c
  <2>1. \A c \in cuts : c \in Nat /\ c >= 1 /\ c <= h
    BY <1>0, RankedNat
  <2>2. CASE p = n
    <3>1. f.to = h /\ h \in 1..h
      BY <1>0, <1>1, <2>2
    <3>2. f.from <= h
      <4>1. CASE f.from = 0
        BY <1>0, <4>1
      <4>2. CASE f.from \in cuts
        BY <2>1, <4>2
      <4> QED
        BY <1>2, <4>1, <4>2
    <3>3. f.from < h
      BY <1>0, <1>1, <3>1, <3>2
    <3>4. \A c \in cuts : c <= f.from
      BY <1>2, <2>2
    <3>5. h \notin cuts
      BY <1>0, <1>1, <3>3, <3>4
    <3> QED
      BY <3>1, <3>3, <3>4, <3>5
  <2>3. CASE p # n
    <3> DEFINE e == Begins(cuts, p + 1)
    <3>1. p < n
      BY <1>1, <2>3
    <3>2. /\ f.to = e - 1 /\ e \in cuts /\ f.from < e
          /\ \A c \in cuts : c <= f.from \/ e <= c
      BY <1>1, <1>2, <2>3, <3>1
    <3> HIDE DEF e
    <3>3. e \in Nat /\ e >= 1 /\ e <= h
      BY <2>1, <3>2
    <3>4. f.from < f.to /\ f.to \in 1..h
      BY <1>0, <1>1, <3>2, <3>3
    <3>5. \A c \in cuts : c <= f.from \/ f.to < c
      BY <1>1, <2>1, <3>2, <3>3
    <3>6. f.to \notin cuts
      BY <1>1, <2>1, <3>4, <3>5
    <3>7. \A c \in cuts : c <= f.from \/ f.to <= c
      BY <1>0, <1>1, <2>1, <3>4, <3>5
    <3> QED
      BY <3>4, <3>6, <3>7
  <2> QED
    BY <2>2, <2>3
<1>4. Slice(Bytes, item, f.from, f.to) \in Int
  <2>1. /\ item.doc \in Documents /\ item.first \in Nat /\ item.first >= 1
        /\ item.first - 1 + h <= MaxLines /\ MaxLines \in Nat /\ Header \in Nat
        /\ Bytes \in [Documents -> [0..MaxLines -> Nat]]
    BY ContextAssumption DEF Placeable, Items
  <2>2. \A k \in 0..h : item.first - 1 + k \in 0..MaxLines
    BY <1>0, <2>1
  <2>3. \A k \in 0..h : Bytes[item.doc][item.first - 1 + k] \in Nat
    BY <2>1, <2>2
  <2>4. f.to \in 0..h /\ 0 \in 0..h /\ (f.from # 0 => f.from - 1 \in 0..h)
    BY <1>0, <1>1, <1>3
  <2>5. /\ Bytes[item.doc][item.first - 1 + f.to] \in Nat
        /\ Bytes[item.doc][item.first - 1 + 0] \in Nat
        /\ f.from # 0 => Bytes[item.doc][item.first - 1 + (f.from - 1)] \in Nat
    BY <2>3, <2>4
  <2>6. CASE f.from = 0
    BY <2>1, <2>5, <2>6 DEF Slice
  <2>7. CASE f.from # 0
    <3>1. Slice(Bytes, item, f.from, f.to) =
             Bytes[item.doc][item.first - 1 + f.to]
                - Bytes[item.doc][item.first - 1 + (f.from - 1)]
      BY <2>7 DEF Slice
    <3> QED
      BY <2>5, <2>7, <3>1
  <2> QED
    BY <2>6, <2>7
<1>5. ChunkLimit \in Nat
  BY ContextAssumption
<1>6. CASE BlockSize(Bytes, item) <= ChunkLimit
  <2>1. cuts = {}
    BY <1>6 DEF IsChunking
  <2>2. n = 1 /\ p = 1
    BY <2>1, FS_EmptySet
  <2>3. f.from = 0 /\ f.to = h
    BY <1>1, <1>2, <2>1, <2>2
  <2> QED
    BY <1>6, <2>3 DEF BlockSize
<1>7. CASE ~(BlockSize(Bytes, item) <= ChunkLimit)
  <2>1. PartStart(cuts, f.to) = f.from
    BY <1>0, <1>2, <1>3, StartOfPart
  <2>2. ~(Slice(Bytes, item, f.from, f.to) > ChunkLimit)
    BY <1>3, <1>7, <2>1 DEF IsChunking
  <2> QED
    BY <1>4, <1>5, <2>2
<1> QED
  BY <1>6, <1>7

----------------------------------------------------------------------------
\* A name that is not used yet is found: there are fewer used ones than numbers tried.
LEMMA CopyFresh ==
  ASSUME NEW base, IsFiniteSet(used)
  PROVE  <<base, Copy(base)>> \notin used
<1> DEFINE n == Cardinality(used) + 1
           Free == {k \in 1..n : <<base, k>> \notin used}
<1>0. Cardinality(used) \in Nat
  BY FS_CardinalityType
<1>1. Cardinality(used) \in Nat /\ IsFiniteSet(1..n) /\ Cardinality(1..n) = n
  <2>1. n \in Nat /\ ~(1 > n) /\ n - 1 + 1 = n
    BY <1>0
  <2> HIDE DEF n
  <2>2. IsFiniteSet(1..n) /\ Cardinality(1..n) = n - 1 + 1
    BY <2>1, FS_Interval
  <2> QED
    BY <1>0, <2>1, <2>2
<1>2. Free # {}
  <2> SUFFICES ASSUME Free = {} PROVE FALSE
    OBVIOUS
  <2> DEFINE f == [k \in 1..n |-> <<base, k>>]
  <2>1. f \in [1..n -> used]
    OBVIOUS
  <2>2. Cardinality(used) < Cardinality(1..n)
    BY <1>1
  <2>4. IsFiniteSet(1..n)
    BY <1>1
  <2> HIDE DEF f, n, Free
  <2>3. PICK x, y \in 1..n : x # y /\ f[x] = f[y]
    BY <2>1, <2>2, <2>4, FS_PigeonHole
  <2> QED
    BY <2>3 DEF f
<1>3. PICK k \in Free : \A i \in Free : k <= i
  <2>1. Free \subseteq Nat
    BY <1>1
  <2> HIDE DEF Free
  <2> QED
    BY <1>2, <2>1, Least
<1>4. \A i \in 1..(k - 1) : <<base, i>> \in used
  <2> SUFFICES ASSUME NEW i \in 1..(k - 1) PROVE <<base, i>> \in used
    OBVIOUS
  <2>1. k \in 1..n /\ k \in Nat
    BY <1>1, <1>3
  <2>2. i \in 1..n /\ ~(k <= i)
    BY <1>1, <2>1
  <2>3. i \notin Free
    BY <1>3, <2>2
  <2> QED
    BY <2>2, <2>3
<1>5. \E c \in 1..(Cardinality(used) + 1) :
         <<base, c>> \notin used /\ \A i \in 1..(c - 1) : <<base, i>> \in used
  BY <1>3, <1>4
<1> QED
  BY <1>5 DEF Copy

\* The name of a part without its number: its file's block and the copy of it.
Key(m) == <<m[1], m[2]>>

\* A served file is whole behind its names.
WholeIn(s, fs) ==
  /\ Len(s.names) \in Nat \ {0} /\ DOMAIN s.names = 1..Len(s.names)
  /\ \A p \in 1..Len(s.names) :
        s.names[p] \in DOMAIN fs /\ fs[s.names[p]].item = s.item
  /\ fs[s.names[1]].from = 0
  /\ \A p \in 1..(Len(s.names) - 1) :
        fs[s.names[p]].to + 1 = fs[s.names[p + 1]].from
  /\ fs[s.names[Len(s.names)]].to = Height(s.item)

\* No two parts share a name.
Apart(all) ==
  \A i, k \in DOMAIN all : \A p \in DOMAIN all[i].names : \A q \in DOMAIN all[k].names :
      all[i].names[p] = all[k].names[q] => i = k /\ p = q

PartOK(f) == f.from = f.to \/ Slice(Bytes, f.item, f.from, f.to) - 1 <= ChunkLimit

\* Every name on the server is made of a pair that is used up, so the next pair
\* makes new ones.
Delivery ==
  /\ IsFiniteSet(used)
  /\ \A m \in DOMAIN files :
        Key(m) \in used /\ m = <<m[1], m[2], m[3], m[4]>> /\ PartOK(files[m])
  /\ \A i \in DOMAIN served : WholeIn(served[i], files)
                              /\ \A p \in DOMAIN served[i].names : served[i].names[p] \in DOMAIN files
  /\ Apart(served)

\* The names a served item gets.
NamesOf(item, cuts) ==
  [p \in 1..(Cardinality(cuts) + 1) |->
      <<Base(item), Copy(Base(item)), p, Cardinality(cuts) + 1>>]

LEMMA ServeFacts ==
  ASSUME Serve
  PROVE  \E cuts \in SUBSET (1..Height(Item)) :
           LET names == NamesOf(Item, cuts)
               new == {names[p] : p \in 1..(Cardinality(cuts) + 1)}
           IN
           /\ IsChunking(Item, cuts)
           /\ served' = Append(served, [item |-> Item, names |-> names])
           /\ files' = [m \in DOMAIN files \cup new |->
                           IF m \in new THEN Parts(Item, cuts)[m[3]] ELSE files[m]]
           /\ used' = used \cup {<<Base(Item), Copy(Base(Item))>>}
<1>1. PICK cuts \in SUBSET (1..Height(Item)) :
        LET parts == Parts(Item, cuts)
            n == Cardinality(cuts) + 1
            copy == Copy(Base(Item))
            name(p) == Name(Item, copy, p, n)
            names == [p \in 1..n |-> name(p)]
        IN
        /\ IsChunking(Item, cuts)
        /\ served' = Append(served, [item |-> Item, names |-> names])
        /\ files' = [m \in DOMAIN files \cup {name(p) : p \in 1..n} |->
                        IF m \in {name(p) : p \in 1..n} THEN parts[m[3]] ELSE files[m]]
        /\ used' = used \cup {<<Base(Item), copy>>}
  BY DEF Serve
<1> DEFINE n == Cardinality(cuts) + 1
           copy == Copy(Base(Item))
           names == NamesOf(Item, cuts)
           new == {<<Base(Item), copy, p, n>> : p \in 1..n}
<1>2. /\ IsChunking(Item, cuts)
      /\ served' = Append(served, [item |-> Item, names |-> names])
      /\ files' = [m \in DOMAIN files \cup new |->
                      IF m \in new THEN Parts(Item, cuts)[m[3]] ELSE files[m]]
      /\ used' = used \cup {<<Base(Item), copy>>}
  BY <1>1 DEF Name, NamesOf
<1>3. {names[p] : p \in 1..n} = new
  BY DEF NamesOf
<1> QED
  BY <1>2, <1>3

LEMMA ServeDelivery ==
  ASSUME IInv, Delivery, Serve
  PROVE  Delivery'
<1>1. TypeOK /\ ServedSeq /\ Placing
  BY DEF IInv, Serve
<1> DEFINE item == Item
<1>3. Placeable(item) /\ item \in Items /\ Height(item) \in Nat \ {0}
  BY <1>1, ItemPlaced, HeightPositive
<1>4. PICK cuts \in SUBSET (1..Height(item)) :
           LET names == NamesOf(item, cuts)
               new == {names[p] : p \in 1..(Cardinality(cuts) + 1)}
           IN
           /\ IsChunking(item, cuts)
           /\ served' = Append(served, [item |-> item, names |-> names])
           /\ files' = [m \in DOMAIN files \cup new |->
                           IF m \in new THEN Parts(item, cuts)[m[3]] ELSE files[m]]
           /\ used' = used \cup {<<Base(item), Copy(Base(item))>>}
  BY ServeFacts
<1> DEFINE n == Cardinality(cuts) + 1
           copy == Copy(Base(item))
           names == NamesOf(item, cuts)
<1>5. /\ IsChunking(item, cuts)
      /\ n = Cardinality(cuts) + 1 /\ copy = Copy(Base(item))
      /\ names = [p \in 1..n |-> <<Base(item), copy, p, n>>]
      /\ served' = Append(served, [item |-> item, names |-> names])
      /\ files' = [m \in DOMAIN files \cup {names[p] : p \in 1..n} |->
                      IF m \in {names[p] : p \in 1..n} THEN Parts(item, cuts)[m[3]]
                      ELSE files[m]]
      /\ used' = used \cup {<<Base(item), copy>>}
  BY <1>4 DEF NamesOf
<1> HIDE DEF item, n, copy, names
<1> DEFINE key == <<Base(item), copy>>
           parts == Parts(item, cuts)
           s == [item |-> item, names |-> names]
<1>6. /\ n \in Nat \ {0}
      /\ \A p \in 1..n : parts[p].item = item
      /\ parts[1].from = 0 /\ parts[n].to = Height(item)
      /\ \A p \in 1..(n - 1) : parts[p].to + 1 = parts[p + 1].from
  BY <1>3, <1>5, PartsFollow
<1>7. \A p \in 1..n : PartOK(parts[p])
  <2> SUFFICES ASSUME NEW p \in 1..n PROVE PartOK(parts[p])
    OBVIOUS
  <2>1. p \in 1..(Cardinality(cuts) + 1) /\ parts[p].item = item
    BY <1>5, <1>6
  <2>2. parts[p].from = parts[p].to
        \/ Slice(Bytes, item, parts[p].from, parts[p].to) - 1 <= ChunkLimit
    BY <1>3, <1>5, <2>1, PartsFit
  <2> QED
    BY <2>1, <2>2 DEF PartOK
<1>8. IsFiniteSet(used) /\ key \notin used /\ used' = used \cup {key}
  BY <1>5, CopyFresh DEF Delivery
<1> HIDE DEF parts
<1>9. \A p \in 1..n : Key(names[p]) = key /\ names[p][3] = p
                      /\ names[p] = <<names[p][1], names[p][2], names[p][3], names[p][4]>>
  BY <1>5 DEF Key
<1>10. DOMAIN names = 1..n /\ Len(names) = n
  BY <1>5, <1>6
<1> HIDE DEF key
<1>11. \A p \in 1..n : names[p] \notin DOMAIN files
  BY <1>8, <1>9 DEF Delivery
<1>12. /\ DOMAIN files' = DOMAIN files \cup {names[p] : p \in 1..n}
       /\ \A m \in DOMAIN files : files'[m] = files[m]
       /\ \A p \in 1..n : files'[names[p]] = parts[p]
  <2>1. files' = [m \in DOMAIN files \cup {names[p] : p \in 1..n} |->
                     IF m \in {names[p] : p \in 1..n} THEN parts[m[3]] ELSE files[m]]
    BY <1>5 DEF parts
  <2>2. \A m \in DOMAIN files : m \notin {names[p] : p \in 1..n}
    BY <1>11
  <2>3. \A p \in 1..n : names[p] \in {names[q] : q \in 1..n} /\ names[p][3] = p
    BY <1>9
  <2> QED
    BY <2>1, <2>2, <2>3
<1>13. \A m \in DOMAIN files' :
          Key(m) \in used' /\ m = <<m[1], m[2], m[3], m[4]>> /\ PartOK(files'[m])
  <2> SUFFICES ASSUME NEW m \in DOMAIN files'
               PROVE  Key(m) \in used' /\ m = <<m[1], m[2], m[3], m[4]>> /\ PartOK(files'[m])
    OBVIOUS
  <2>1. CASE m \in DOMAIN files
    BY <1>8, <1>12, <2>1 DEF Delivery
  <2>2. CASE m \notin DOMAIN files
    <3>1. PICK p \in 1..n : m = names[p]
      BY <1>12, <2>2
    <3>2. files'[m] = parts[p]
      BY <1>12, <3>1
    <3>3. Key(m) = key /\ m = <<m[1], m[2], m[3], m[4]>>
      BY <1>9, <3>1
    <3> QED
      BY <1>7, <1>8, <3>2, <3>3
  <2> QED
    BY <2>1, <2>2
<1>14. /\ s.item = item /\ s.names = names
       /\ served' = Append(served, s)
  BY <1>5
<1> HIDE DEF s
<1>15. WholeIn(s, files')
  <2>1. 1 \in 1..n /\ n \in 1..n /\ \A p \in 1..(n - 1) : p \in 1..n /\ p + 1 \in 1..n
    BY <1>6
  <2>2. \A p \in 1..n : names[p] \in DOMAIN files' /\ files'[names[p]].item = item
    BY <1>6, <1>12
  <2>3. files'[names[1]].from = 0 /\ files'[names[n]].to = Height(item)
    BY <1>6, <1>12, <2>1
  <2>4. \A p \in 1..(n - 1) : files'[names[p]].to + 1 = files'[names[p + 1]].from
    BY <1>6, <1>12, <2>1
  <2> QED
    BY <1>6, <1>10, <1>14, <2>2, <2>3, <2>4 DEF WholeIn
<1>16. ASSUME NEW i \in DOMAIN served
       PROVE  WholeIn(served[i], files')
              /\ \A p \in DOMAIN served[i].names : served[i].names[p] \in DOMAIN files'
  <2>1. WholeIn(served[i], files)
        /\ \A p \in DOMAIN served[i].names : served[i].names[p] \in DOMAIN files
    BY DEF Delivery
  <2> DEFINE N == served[i].names
  <2>2. /\ Len(N) \in Nat \ {0} /\ DOMAIN N = 1..Len(N)
        /\ \A p \in 1..Len(N) : N[p] \in DOMAIN files
        /\ \A p \in 1..Len(N) : files[N[p]].item = served[i].item
        /\ files[N[1]].from = 0
        /\ \A p \in 1..(Len(N) - 1) : files[N[p]].to + 1 = files[N[p + 1]].from
        /\ files[N[Len(N)]].to = Height(served[i].item)
    BY <2>1 DEF WholeIn
  <2>3. \A p \in 1..Len(N) : files'[N[p]] = files[N[p]] /\ N[p] \in DOMAIN files'
    BY <1>12, <2>2
  <2>4. 1 \in 1..Len(N) /\ Len(N) \in 1..Len(N)
        /\ \A p \in 1..(Len(N) - 1) : p \in 1..Len(N) /\ p + 1 \in 1..Len(N)
    BY <2>2
  <2> HIDE DEF N
  <2>5. /\ \A p \in 1..Len(N) : N[p] \in DOMAIN files' /\ files'[N[p]].item = served[i].item
        /\ files'[N[1]].from = 0
        /\ \A p \in 1..(Len(N) - 1) : files'[N[p]].to + 1 = files'[N[p + 1]].from
        /\ files'[N[Len(N)]].to = Height(served[i].item)
    BY <2>2, <2>3, <2>4
  <2> QED
    BY <2>2, <2>3, <2>5 DEF WholeIn, N
<1>17. PICK T : served \in Seq(T)
  BY <1>1 DEF ServedSeq
<1> DEFINE l == Len(served) + 1
<1>18. /\ DOMAIN served' = DOMAIN served \cup {l} /\ l \notin DOMAIN served
       /\ \A i \in DOMAIN served : served'[i] = served[i]
       /\ served'[l] = s
  <2>1. served \in Seq(T \cup {s}) /\ s \in T \cup {s}
    BY <1>17
  <2> QED
    BY <1>14, <2>1
<1> HIDE DEF l
<1>19. \A i \in DOMAIN served' : WholeIn(served'[i], files')
          /\ \A p \in DOMAIN served'[i].names : served'[i].names[p] \in DOMAIN files'
  <2>1. \A p \in DOMAIN s.names : s.names[p] \in DOMAIN files'
    BY <1>10, <1>12, <1>14
  <2> QED
    BY <1>15, <1>16, <1>18, <2>1
<1>20. Apart(served')
  <2> SUFFICES ASSUME NEW i \in DOMAIN served', NEW k \in DOMAIN served',
                      NEW p \in DOMAIN served'[i].names, NEW q \in DOMAIN served'[k].names,
                      served'[i].names[p] = served'[k].names[q]
               PROVE  i = k /\ p = q
    BY DEF Apart
  <2>1. CASE i \in DOMAIN served /\ k \in DOMAIN served
    BY <1>18, <2>1 DEF Delivery, Apart
  <2>2. \A j \in DOMAIN served : \A r \in DOMAIN served[j].names :
           served[j].names[r] \in DOMAIN files
    BY DEF Delivery
  <2>3. CASE i = l /\ k = l
    <3>1. names[p] = names[q] /\ p \in 1..n /\ q \in 1..n
      BY <1>10, <1>14, <1>18, <2>3
    <3> QED
      BY <1>9, <2>3, <3>1
  <2>4. CASE i = l /\ k \in DOMAIN served
    BY <1>10, <1>11, <1>14, <1>18, <2>2, <2>4
  <2>5. CASE k = l /\ i \in DOMAIN served
    BY <1>10, <1>11, <1>14, <1>18, <2>2, <2>5
  <2> QED
    BY <1>18, <2>1, <2>3, <2>4, <2>5
<1>21. IsFiniteSet(used')
  BY <1>8, FS_AddElement
<1> QED
  BY <1>13, <1>19, <1>20, <1>21 DEF Delivery

LEMMA EmptyDelivery ==
  ASSUME served = <<>>, used = {}, files = [n \in {} |-> 0]
  PROVE  Delivery
  BY FS_EmptySet DEF Delivery, Apart

LEMMA StepDelivery == IInv /\ Delivery /\ [Next]_vars => Delivery'
<1> SUFFICES ASSUME IInv, Delivery, [Next]_vars PROVE Delivery'
  OBVIOUS
<1>1. ASSUME UNCHANGED <<served, used, files>> PROVE Delivery'
  BY <1>1 DEF Delivery
<1>2. CASE Render \/ RenderFails \/ Placed \/ Open \/ Start
  BY <1>1, <1>2 DEF Render, RenderFails, Placed, Open, Start, budgets
<1>3. CASE Serve
  BY <1>3, ServeDelivery
<1>4. CASE Settle
  <2>1. CASE Again
    <3>1. served' = <<>> /\ used' = {} /\ files' = [n \in {} |-> 0]
      BY <2>1 DEF Again, Clear
    <3> QED
      BY <3>1, FS_EmptySet DEF Delivery, Apart
  <2>2. CASE ~Again
    BY <1>1, <1>4, <2>2 DEF Settle, Break, budgets
  <2> QED
    BY <2>1, <2>2
<1>5. CASE Inline
  BY <1>1, <1>5 DEF Inline
<1>6. ASSUME NEW p \in Paths, NEW content \in Contents, Edit(p, content) PROVE Delivery'
  BY <1>1, <1>6 DEF Edit, budgets
<1>7. CASE UNCHANGED vars
  BY <1>1, <1>7 DEF vars, budgets
<1> QED
  BY <1>2, <1>3, <1>4, <1>5, <1>6, <1>7 DEF Next, Prepare

\* A served file is behind its URLs whole and no two files share a name, whatever the
\* sizes, the paths and their flattened names are (context.py:213-214, 229-230).
THEOREM ServedWhole == Spec => []EverythingDelivered
<1>1. Init => IInv /\ Delivery
  BY InitInv, EmptyDelivery DEF Init
<1>2. IInv /\ Delivery /\ [Next]_vars => (IInv /\ Delivery)'
  BY StepInv, StepDelivery
<1>3. Delivery => EverythingDelivered
  BY DEF Delivery, Apart, WholeIn, EverythingDelivered
<1> QED
  BY <1>1, <1>2, <1>3, PTL DEF Spec

\* A part is one line or within what a verifier fetches in one go, for any document
\* and any limit (context.py:32-35, 229-230).
THEOREM PartsAreBounded == Spec => []PartsBounded
<1>1. Init => IInv /\ Delivery
  BY InitInv, EmptyDelivery DEF Init
<1>2. IInv /\ Delivery /\ [Next]_vars => (IInv /\ Delivery)'
  BY StepInv, StepDelivery
<1>3. Delivery => PartsBounded
  BY DEF Delivery, PartOK, PartsBounded
<1> QED
  BY <1>1, <1>2, <1>3, PTL DEF Spec

----------------------------------------------------------------------------
\* ContextServer

\* A state of the preparation before its server is opened.
Early == phase \in {"render", "place", "settle", "open"}

\* Past the check for which a closer found the files to clear, or cleared already.
Passed(c) == closer[c] \in {"shutdown", "done"}

\* What a handler found or sent is what its name stands for.
AnswerOK(h) ==
    LET a == handler[h] IN
    /\ a = Answer(a.pc, a.name, a.head, a.content)
    /\ a.pc \in {"looked", "done"} /\ a.content # Nothing =>
          a.name = Index \/ (a.name \in DOMAIN files /\ a.content = files[a.name])
    /\ a.pc = "done" /\ a.content # Nothing => ~a.head

ServerTyped ==
    /\ handler = [h \in Handlers |-> handler[h]]
    /\ closer = [c \in Closers |-> closer[c]]

\* Until agy runs nobody asks and nobody closes; until the server is opened it has
\* no files.
Quiet ==
    /\ job # "none" => phase \in {"started", "refused"}
    /\ job = "none" => /\ ~closed
                       /\ \A h \in Handlers : handler[h].pc = "idle"
                       /\ \A c \in Closers : closer[c] = "idle"
    /\ Early => snapshot = NoFiles
    /\ closed => job \in {"ended", "failed"}

\* An open server has all files of the prompt, and never another one.
SnapshotOK ==
    /\ \A n \in DOMAIN snapshot :
          n = Index \/ (n \in DOMAIN files /\ snapshot[n] = files[n])
    /\ (phase = "start" \/ job # "none") /\ ~closed /\ served # <<>> => snapshot = Snapshot

\* One closer clears the files, before any of them is done.
CloseOK ==
    /\ \A c, d \in Closers : closer[c] = "clearing" /\ closer[d] = "clearing" => c = d
    /\ \A c \in Closers : closer[c] # "idle" => closed
    /\ closed /\ LockFree => snapshot = NoFiles
    /\ (\E c \in Closers : Passed(c)) => LockFree

ServerInv == /\ ServerTyped /\ Quiet /\ SnapshotOK /\ CloseOK
             /\ \A h \in Handlers : AnswerOK(h)

----------------------------------------------------------------------------
LEMMA StepsPrepare == [ServerNext]_allVars => [Next]_vars
<1> SUFFICES ASSUME [ServerNext]_allVars PROVE [Next]_vars
  OBVIOUS
<1>1. CASE Preparing
  BY <1>1 DEF Preparing, Next
<1>2. CASE OpenServer \/ StartJob
  BY <1>2 DEF OpenServer, StartJob, Next
<1>3. CASE JobEnds
  BY <1>3 DEF JobEnds
<1>4. CASE \E h \in Handlers : Requested(h) \/ Handle(h)
  BY <1>4 DEF Requested, Request, Handle, CheckClosed, Lookup, Reply
<1>5. CASE \E c \in Closers : Close(c)
  BY <1>5 DEF Close, CloseMark, CloseClear, ClosePort
<1>6. CASE UNCHANGED allVars
  BY <1>6 DEF allVars
<1> QED
  BY <1>1, <1>2, <1>3, <1>4, <1>5, <1>6 DEF ServerNext

LEMMA NoFilesEmpty == DOMAIN NoFiles = {}
  BY DEF NoFiles

LEMMA ServerInitInv == ServerInit => ServerInv
<1> SUFFICES ASSUME ServerInit PROVE ServerInv
  OBVIOUS
<1>1. /\ phase \in {"open", "render"} /\ job = "none" /\ ~closed /\ snapshot = NoFiles
      /\ handler = [h \in Handlers |-> NoRequest]
      /\ closer = [c \in Closers |-> "idle"]
  BY DEF ServerInit, Init
<1>2. NoRequest = Answer("idle", NoName, FALSE, Nothing) /\ NoRequest.pc = "idle"
      /\ NoRequest.name = NoName /\ NoRequest.head = FALSE /\ NoRequest.content = Nothing
  BY DEF NoRequest, Answer
<1>3. ServerTyped
  BY <1>1 DEF ServerTyped
<1>4. Quiet
  BY <1>1, <1>2 DEF Quiet
<1>5. SnapshotOK
  BY <1>1, NoFilesEmpty DEF SnapshotOK
<1>6. CloseOK
  BY <1>1 DEF CloseOK, Passed
<1>7. \A h \in Handlers : AnswerOK(h)
  BY <1>1, <1>2 DEF AnswerOK
<1> QED
  BY <1>3, <1>4, <1>5, <1>6, <1>7 DEF ServerInv

\* Files change only while nobody serves them.
LEMMA PreparingInv ==
  ASSUME ServerInv, Preparing
  PROVE  ServerInv'
<1>1. UNCHANGED <<job, listening, closed, snapshot, handler, closer>>
  BY DEF Preparing, serverVars
<1>2. phase \in {"render", "place", "settle"}
      /\ phase' \in {"render", "place", "settle", "open", "refused"}
  BY DEF Preparing, Prepare, Render, RenderFails, Inline, Serve, Placing, Placed, Settle, Break,
         Again, Edit
<1>3. job = "none" /\ snapshot = NoFiles
  BY <1>2 DEF ServerInv, Quiet, Early
<1>4. ServerTyped' /\ CloseOK'
  BY <1>1 DEF ServerInv, ServerTyped, CloseOK, Passed, LockFree
<1>5. Quiet'
  BY <1>1, <1>2, <1>3 DEF ServerInv, Quiet, Early
<1>6. SnapshotOK'
  BY <1>1, <1>2, <1>3, NoFilesEmpty DEF SnapshotOK
<1>7. \A h \in Handlers : AnswerOK(h)'
  BY <1>1, <1>3 DEF ServerInv, Quiet, AnswerOK
<1> QED
  BY <1>4, <1>5, <1>6, <1>7 DEF ServerInv

LEMMA OpenServerInv ==
  ASSUME ServerInv, OpenServer
  PROVE  ServerInv'
<1>1. /\ UNCHANGED <<job, closed, handler, closer, files, served>>
      /\ phase = "open" /\ phase' = "start"
      /\ snapshot' = IF served = <<>> THEN NoFiles ELSE Snapshot
  BY DEF OpenServer, Open, budgets
<1>2. job = "none" /\ ~closed
  BY <1>1 DEF ServerInv, Quiet
<1>3. ServerTyped'
  BY <1>1 DEF ServerInv, ServerTyped
<1>4. Quiet'
  BY <1>1, <1>2 DEF ServerInv, Quiet, Early
<1>5. CloseOK'
  BY <1>1, <1>2 DEF ServerInv, CloseOK, Passed, LockFree, Quiet
<1>6. SnapshotOK'
  <2>1. CASE served = <<>>
    BY <1>1, <2>1, NoFilesEmpty DEF SnapshotOK
  <2>2. CASE served # <<>>
    <3>1. snapshot' = Snapshot /\ Snapshot' = Snapshot
      BY <1>1, <2>2 DEF Snapshot
    <3>2. \A n \in DOMAIN Snapshot : n = Index \/ (n \in DOMAIN files /\ Snapshot[n] = files[n])
      BY DEF Snapshot
    <3> QED
      BY <1>1, <3>1, <3>2 DEF SnapshotOK
  <2> QED
    BY <2>1, <2>2
<1>7. \A h \in Handlers : AnswerOK(h)'
  BY <1>1 DEF ServerInv, AnswerOK
<1> QED
  BY <1>3, <1>4, <1>5, <1>6, <1>7 DEF ServerInv

LEMMA JobInv ==
  ASSUME ServerInv, StartJob \/ JobEnds
  PROVE  ServerInv'
<1>1. /\ UNCHANGED <<closed, snapshot, handler, closer, files, served>>
      /\ job' \in {"failed", "running", "ended"} /\ phase' \in {"started", "refused"}
      /\ phase = "start" \/ job # "none"
  <2>1. CASE StartJob
    BY <2>1 DEF StartJob, Start, budgets
  <2>2. CASE JobEnds
    BY <2>2 DEF JobEnds, vars, budgets, ServerInv, Quiet
  <2> QED
    BY <2>1, <2>2
<1>2. Snapshot' = Snapshot
  BY <1>1 DEF Snapshot
<1>3. ServerTyped' /\ CloseOK'
  BY <1>1 DEF ServerInv, ServerTyped, CloseOK, Passed, LockFree
<1>7. ~closed
  BY DEF StartJob, Start, JobEnds, ServerInv, Quiet
<1>4. Quiet'
  BY <1>1, <1>7 DEF Quiet, Early
<1>5. SnapshotOK'
  BY <1>1, <1>2 DEF ServerInv, SnapshotOK
<1>6. \A h \in Handlers : AnswerOK(h)'
  BY <1>1 DEF ServerInv, AnswerOK
<1> QED
  BY <1>3, <1>4, <1>5, <1>6 DEF ServerInv

LEMMA AnswerFields ==
  ASSUME NEW pc, NEW name, NEW head, NEW content
  PROVE  LET a == Answer(pc, name, head, content) IN
         a.pc = pc /\ a.name = name /\ a.head = head /\ a.content = content
  BY DEF Answer

\* A step of a handler: the answer it holds then is of the file it names.
LEMMA HandlerInv ==
  ASSUME ServerInv, NEW h \in Handlers, NEW a, handler' = [handler EXCEPT ![h] = a],
         UNCHANGED <<vars, job, listening, closed, snapshot, closer>>,
         job # "none",
         a = Answer(a.pc, a.name, a.head, a.content),
         a.pc \in {"looked", "done"} /\ a.content # Nothing =>
             a.name = Index \/ (a.name \in DOMAIN files /\ a.content = files[a.name]),
         a.pc = "done" /\ a.content # Nothing => ~a.head
  PROVE  ServerInv'
<1>1. UNCHANGED <<phase, files, served>>
  BY DEF vars, budgets
<1>2. handler = [k \in Handlers |-> handler[k]]
  BY DEF ServerInv, ServerTyped
<1>3. handler'[h] = a /\ \A k \in Handlers : k # h => handler'[k] = handler[k]
  BY <1>2
<1>4. handler' = [k \in Handlers |-> handler'[k]]
  BY <1>2
<1>5. ServerTyped' /\ CloseOK' /\ SnapshotOK'
  BY <1>1, <1>4 DEF ServerInv, ServerTyped, CloseOK, Passed, LockFree, SnapshotOK, Snapshot
<1>6. Quiet'
  BY <1>1 DEF ServerInv, Quiet, Early
<1>7. \A k \in Handlers : AnswerOK(k)'
  <2> SUFFICES ASSUME NEW k \in Handlers PROVE AnswerOK(k)'
    OBVIOUS
  <2>1. CASE k = h
    BY <1>1, <1>3, <2>1 DEF AnswerOK
  <2>2. CASE k # h
    BY <1>1, <1>3, <2>2 DEF ServerInv, AnswerOK
  <2> QED
    BY <2>1, <2>2
<1> QED
  BY <1>5, <1>6, <1>7 DEF ServerInv

LEMMA RequestInv ==
  ASSUME ServerInv, NEW h \in Handlers, Requested(h) \/ Handle(h)
  PROVE  ServerInv'
<1> DEFINE a == handler[h]
<1>0. /\ a = Answer(a.pc, a.name, a.head, a.content)
      /\ a.pc \in {"looked", "done"} /\ a.content # Nothing =>
            a.name = Index \/ (a.name \in DOMAIN files /\ a.content = files[a.name])
      /\ a.pc # "idle" => job # "none"
      /\ \A n \in DOMAIN snapshot : n = Index \/ (n \in DOMAIN files /\ snapshot[n] = files[n])
  BY DEF ServerInv, AnswerOK, Quiet, SnapshotOK
<1>1. CASE Requested(h)
  <2>1. PICK name, head : Request(h, name, head)
    BY <1>1 DEF Requested
  <2> DEFINE b == Answer("asked", name, head, Nothing)
  <2>2. b.pc = "asked" /\ b.name = name /\ b.head = head /\ b.content = Nothing
    BY AnswerFields
  <2>3. handler' = [handler EXCEPT ![h] = b] /\ b = Answer(b.pc, b.name, b.head, b.content)
        /\ UNCHANGED <<vars, job, listening, closed, snapshot, closer>> /\ job # "none"
    BY <1>1, <2>1, <2>2 DEF Request, Becomes, Requested
  <2> HIDE DEF b
  <2> QED
    BY <2>2, <2>3, HandlerInv
<1>2. CASE CheckClosed(h)
  <2>1. PICK b : /\ b = IF closed THEN NoRequest ELSE [a EXCEPT !.pc = "checked"]
                 /\ handler' = [handler EXCEPT ![h] = b]
    BY <1>2 DEF CheckClosed, Becomes
  <2>2. b.pc \in {"idle", "checked"} /\ b = Answer(b.pc, b.name, b.head, b.content)
    <3>1. CASE closed
      BY <2>1, <3>1 DEF NoRequest, Answer
    <3>2. CASE ~closed
      BY <1>0, <2>1, <3>2 DEF Answer
    <3> QED
      BY <3>1, <3>2
  <2>3. UNCHANGED <<vars, job, listening, closed, snapshot, closer>> /\ job # "none"
    BY <1>0, <1>2 DEF CheckClosed
  <2> QED
    BY <2>1, <2>2, <2>3, HandlerInv
<1>3. CASE Lookup(h)
  <2> DEFINE found == IF a.name \in DOMAIN snapshot THEN snapshot[a.name] ELSE Nothing
             b == Answer("looked", a.name, a.head, found)
  <2>1. b.pc = "looked" /\ b.name = a.name /\ b.head = a.head /\ b.content = found
    BY AnswerFields
  <2>2. handler' = [handler EXCEPT ![h] = b] /\ b = Answer(b.pc, b.name, b.head, b.content)
        /\ UNCHANGED <<vars, job, listening, closed, snapshot, closer>> /\ job # "none"
    BY <1>0, <1>3, <2>1 DEF Lookup, Becomes
  <2>3. found # Nothing => a.name = Index \/ (a.name \in DOMAIN files /\ found = files[a.name])
    BY <1>0
  <2> HIDE DEF b, found
  <2> QED
    BY <2>1, <2>2, <2>3, HandlerInv
<1>4. CASE Reply(h)
  <2> DEFINE sent == IF a.head THEN Nothing ELSE a.content
             b == Answer("done", a.name, a.head, sent)
  <2>1. b.pc = "done" /\ b.name = a.name /\ b.head = a.head /\ b.content = sent
    BY AnswerFields
  <2>2. handler' = [handler EXCEPT ![h] = b] /\ b = Answer(b.pc, b.name, b.head, b.content)
        /\ UNCHANGED <<vars, job, listening, closed, snapshot, closer>>
        /\ job # "none" /\ a.pc = "looked"
    BY <1>0, <1>4, <2>1 DEF Reply, Becomes
  <2>3. sent # Nothing => sent = a.content /\ ~a.head
    OBVIOUS
  <2> HIDE DEF b, sent
  <2> QED
    BY <1>0, <2>1, <2>2, <2>3, HandlerInv
<1> QED
  BY <1>1, <1>2, <1>3, <1>4 DEF Handle

LEMMA CloseInv ==
  ASSUME ServerInv, NEW c \in Closers, Close(c)
  PROVE  ServerInv'
<1>0. ServerTyped /\ Quiet /\ SnapshotOK /\ CloseOK
  BY DEF ServerInv
<1>1. closer[c] # "idle" \/ job \in {"ended", "failed"}
  BY DEF Close, CloseMark, CloseClear, ClosePort, ToClose
<1>2. UNCHANGED <<phase, files, served>>
  BY DEF Close, CloseMark, CloseClear, ClosePort, vars, budgets
<1>3. job # "none" /\ job' = job /\ handler' = handler
  BY <1>0, <1>1 DEF Close, CloseMark, CloseClear, ClosePort, ToClose, Quiet
<1>4. PICK p \in {"clearing", "shutdown", "done"} : closer' = [closer EXCEPT ![c] = p]
  BY DEF Close, CloseMark, CloseClear, ClosePort
<1>5. closer'[c] = p /\ \A d \in Closers : d # c => closer'[d] = closer[d]
  BY <1>0, <1>4 DEF ServerTyped
<1>6. ServerTyped'
  BY <1>0, <1>3, <1>4 DEF ServerTyped
<1>13. job \in {"ended", "failed"}
  BY <1>0, <1>1 DEF Quiet, CloseOK
<1>7. Quiet'
  BY <1>0, <1>2, <1>3, <1>13 DEF Quiet, Early
<1>8. \A h \in Handlers : AnswerOK(h)'
  BY <1>2, <1>3 DEF ServerInv, AnswerOK
<1>9. snapshot' = snapshot \/ snapshot' = NoFiles
  BY DEF Close, CloseMark, CloseClear, ClosePort
<1>10. closed' /\ (snapshot' # snapshot => closed)
  BY <1>0 DEF Close, CloseMark, CloseClear, ClosePort, CloseOK
<1>11. SnapshotOK'
  BY <1>0, <1>2, <1>9, <1>10, NoFilesEmpty DEF SnapshotOK
<1>12. CloseOK'
  <2>1. CASE CloseMark(c) /\ closed
    <3>1. p = "done" /\ LockFree /\ snapshot' = snapshot
      BY <1>0, <1>4, <2>1 DEF CloseMark, ServerTyped
    <3>2. LockFree'
      BY <1>5, <3>1 DEF LockFree
    <3> QED
      BY <1>0, <1>5, <1>10, <2>1, <3>1, <3>2 DEF CloseOK, LockFree
  <2>2. CASE CloseMark(c) /\ ~closed
    <3>1. p = "clearing"
      BY <1>0, <1>4, <2>2 DEF CloseMark, ServerTyped
    <3>2. \A d \in Closers : closer[d] = "idle"
      BY <1>0, <2>2 DEF CloseOK
    <3> QED
      BY <1>5, <1>10, <3>1, <3>2 DEF CloseOK, LockFree, Passed
  <2>3. CASE CloseClear(c)
    <3>1. p = "shutdown" /\ snapshot' = NoFiles /\ closer[c] = "clearing"
      BY <1>0, <1>4, <2>3 DEF CloseClear, ServerTyped
    <3>2. LockFree'
      BY <1>0, <1>5, <3>1 DEF CloseOK, LockFree
    <3> QED
      BY <1>10, <3>1, <3>2 DEF CloseOK, LockFree
  <2>4. CASE ClosePort(c)
    <3>1. p = "done" /\ snapshot' = snapshot /\ closer[c] = "shutdown"
      BY <1>0, <1>4, <2>4 DEF ClosePort, ServerTyped
    <3>2. LockFree /\ closed
      BY <1>0, <3>1 DEF CloseOK, Passed
    <3>3. LockFree'
      BY <1>5, <3>1, <3>2 DEF LockFree
    <3> QED
      BY <1>0, <1>10, <3>1, <3>2, <3>3 DEF CloseOK, LockFree
  <2> QED
    BY <2>1, <2>2, <2>3, <2>4 DEF Close
<1> QED
  BY <1>6, <1>7, <1>8, <1>11, <1>12 DEF ServerInv

LEMMA ServerStepInv == ServerInv /\ [ServerNext]_allVars => ServerInv'
<1> SUFFICES ASSUME ServerInv, [ServerNext]_allVars PROVE ServerInv'
  OBVIOUS
<1>1. CASE ServerNext
  BY <1>1, PreparingInv, OpenServerInv, JobInv, RequestInv, CloseInv DEF ServerNext
<1>2. CASE UNCHANGED allVars
  <2>1. UNCHANGED <<phase, files, served, job, listening, closed, snapshot, handler, closer>>
    BY <1>2 DEF allVars, vars, serverVars, budgets
  <2>2. Snapshot' = Snapshot
    BY <2>1 DEF Snapshot
  <2>3. Quiet' /\ ServerTyped' /\ SnapshotOK'
    BY <2>1, <2>2 DEF ServerInv, Quiet, Early, ServerTyped, SnapshotOK
  <2>4. CloseOK' /\ \A h \in Handlers : AnswerOK(h)'
    BY <2>1 DEF ServerInv, CloseOK, Passed, LockFree, AnswerOK
  <2> QED
    BY <2>3, <2>4 DEF ServerInv
<1> QED
  BY <1>1, <1>2

----------------------------------------------------------------------------
\* The server adds to the preparation and changes none of it: what is proved of the
\* preparation holds while its files are served (server.py:325-337).
THEOREM ServerPrepares == ServerSpec => Spec
<1>1. ServerInit => Init
  BY DEF ServerInit
<1> QED
  BY <1>1, StepsPrepare, PTL DEF ServerSpec, Spec

\* A name of the prompt is on the server while the job runs.
LEMMA ListedThere ==
  ASSUME Delivery, ServerInv, job = "running", NEW name \in Listed
  PROVE  /\ ~closed /\ name \in DOMAIN snapshot
         /\ snapshot[name] = IF name = Index THEN Index ELSE files[name]
<1>1. ~closed
  BY DEF ServerInv, Quiet
<1>2. served # <<>> /\ snapshot = Snapshot
  BY <1>1 DEF Listed, ServerInv, SnapshotOK
<1>3. name = Index \/ name \in DOMAIN files
  <2>1. CASE name # Index
    <3>1. PICK i \in DOMAIN served : name \in {served[i].names[p] : p \in DOMAIN served[i].names}
      BY <1>2, <2>1 DEF Listed
    <3> QED
      BY <3>1 DEF Delivery
  <2> QED
    BY <2>1
<1> QED
  BY <1>1, <1>2, <1>3 DEF Snapshot

\* A request for a URL of the prompt is answered with what it stands for as long as the
\* job runs, for any files, parts and closers (server.py:331-334, serve.py:51-75).
THEOREM UrlsAreServed == ServerSpec => UrlsResolve
<1> DEFINE All == IInv /\ Delivery /\ ServerInv
<1>1. ServerInit => All
  <2>1. ServerInit => Init
    BY DEF ServerInit
  <2> QED
    BY <2>1, InitInv, EmptyDelivery, ServerInitInv DEF Init
<1>2. All /\ [ServerNext]_allVars => All'
  BY StepsPrepare, StepInv, StepDelivery, ServerStepInv
<1>3. All /\ [ServerNext]_allVars => [\A h \in Handlers :
        LET a == handler[h] IN
        job = "running" /\ a.name \in Listed /\ handler'[h] # a =>
            /\ a.pc = "asked" => handler'[h].pc = "checked"
            /\ a.pc = "checked" =>
                   handler'[h].content = IF a.name = Index THEN Index ELSE files[a.name]
      ]_allVars
  <2> SUFFICES ASSUME All, ServerNext, NEW h \in Handlers, job = "running",
                      handler[h].name \in Listed, handler'[h] # handler[h]
               PROVE  /\ handler[h].pc = "asked" => handler'[h].pc = "checked"
                      /\ handler[h].pc = "checked" =>
                            handler'[h].content = IF handler[h].name = Index THEN Index
                                                  ELSE files[handler[h].name]
    OBVIOUS
  <2> DEFINE a == handler[h]
  <2>1. /\ ~closed /\ a.name \in DOMAIN snapshot
        /\ snapshot[a.name] = IF a.name = Index THEN Index ELSE files[a.name]
    BY ListedThere
  <2>2. /\ handler = [k \in Handlers |-> handler[k]]
        /\ a = Answer(a.pc, a.name, a.head, a.content)
    BY DEF ServerInv, ServerTyped, AnswerOK
  <2>3. Requested(h) \/ Handle(h)
    <3>1. PICK k \in Handlers : Requested(k) \/ Handle(k)
      BY DEF ServerNext, Preparing, serverVars, OpenServer, StartJob, JobEnds, Close, CloseMark,
             CloseClear, ClosePort
    <3>2. PICK b : handler' = [handler EXCEPT ![k] = b]
      BY <3>1 DEF Requested, Request, Handle, CheckClosed, Lookup, Reply, Becomes
    <3> QED
      BY <2>2, <3>1, <3>2
  <2>4. CASE a.pc = "asked"
    <3>1. handler'[h] = [a EXCEPT !.pc = "checked"]
      BY <2>1, <2>2, <2>3, <2>4 DEF Requested, Request, Handle, CheckClosed, Lookup, Reply, Becomes
    <3>2. [a EXCEPT !.pc = "checked"].pc = "checked"
      BY <2>2 DEF Answer
    <3> QED
      BY <2>4, <3>1, <3>2
  <2>5. CASE a.pc = "checked"
    <3>1. handler'[h] = Answer("looked", a.name, a.head, snapshot[a.name])
      BY <2>1, <2>2, <2>3, <2>5 DEF Requested, Request, Handle, CheckClosed, Lookup, Reply, Becomes
    <3>2. handler'[h].content = snapshot[a.name]
      BY <3>1, AnswerFields
    <3> QED
      BY <2>1, <2>5, <3>2
  <2> QED
    BY <2>4, <2>5
<1> QED
  BY <1>1, <1>2, <1>3, PTL DEF ServerSpec, UrlsResolve

\* An answer is what the name it asked for stands for, and a HEAD gets no content
\* (serve.py:48-50), however requests and the end of the job interleave.
THEOREM AnswersAreRight == ServerSpec => []AnswersRight
<1>1. ServerInv => AnswersRight
  BY DEF ServerInv, AnswerOK, AnswersRight
<1> QED
  BY <1>1, ServerInitInv, ServerStepInv, PTL DEF ServerSpec

\* Once close() has cleared the files no request is given one any more, also none
\* that had passed the check before (serve.py:54-57, 137-139).
THEOREM ClosedGivesNothing == ServerSpec => NothingAfterClose
<1>1. ServerInv /\ [ServerNext]_allVars =>
         [\A h \in Handlers : (\E c \in Closers : closer[c] \in {"shutdown", "done"})
             => handler'[h].content = Nothing \/ handler'[h].content = handler[h].content]_allVars
  <2> SUFFICES ASSUME ServerInv, ServerNext, NEW h \in Handlers,
                      NEW c \in Closers, closer[c] \in {"shutdown", "done"}
               PROVE  handler'[h].content = Nothing \/ handler'[h].content = handler[h].content
    OBVIOUS
  <2>1. snapshot = NoFiles
    BY DEF ServerInv, CloseOK, Passed
  <2>2. handler = [k \in Handlers |-> handler[k]]
        /\ handler[h] = Answer(handler[h].pc, handler[h].name, handler[h].head, handler[h].content)
    BY DEF ServerInv, ServerTyped, AnswerOK
  <2>3. CASE handler' = handler
    BY <2>3
  <2>4. ASSUME NEW k \in Handlers, Requested(k) \/ Handle(k)
        PROVE  handler'[h].content = Nothing \/ handler'[h].content = handler[h].content
    <3>1. CASE k # h
      BY <2>2, <2>4, <3>1 DEF Requested, Request, Handle, CheckClosed, Lookup, Reply, Becomes
    <3>2. CASE Requested(h)
      BY <2>2, <3>2, AnswerFields DEF Requested, Request, Becomes
    <3>3. CASE CheckClosed(h)
      <4>1. handler'[h] = NoRequest \/ handler'[h] = [handler[h] EXCEPT !.pc = "checked"]
        BY <2>2, <3>3 DEF CheckClosed, Becomes
      <4>2. NoRequest.content = Nothing
        BY DEF NoRequest, Answer
      <4>3. [handler[h] EXCEPT !.pc = "checked"].content = handler[h].content
        BY <2>2 DEF Answer
      <4> QED
        BY <4>1, <4>2, <4>3
    <3>4. CASE Lookup(h)
      <4>1. handler'[h] = Answer("looked", handler[h].name, handler[h].head, Nothing)
        BY <2>1, <2>2, <3>4, NoFilesEmpty DEF Lookup, Becomes
      <4> QED
        BY <4>1, AnswerFields
    <3>5. CASE Reply(h)
      <4>1. handler'[h] = Answer("done", handler[h].name, handler[h].head,
                                 IF handler[h].head THEN Nothing ELSE handler[h].content)
        BY <2>2, <3>5 DEF Reply, Becomes
      <4> QED
        BY <4>1, AnswerFields
    <3> QED
      BY <2>4, <3>1, <3>2, <3>3, <3>4, <3>5 DEF Handle
  <2>5. Preparing \/ OpenServer \/ StartJob \/ JobEnds \/ (\E d \in Closers : Close(d))
           => handler' = handler
    BY DEF Preparing, serverVars, OpenServer, StartJob, JobEnds, Close, CloseMark, CloseClear,
           ClosePort
  <2> QED
    BY <2>3, <2>4, <2>5 DEF ServerNext
<1> QED
  BY <1>1, ServerInitInv, ServerStepInv, PTL DEF ServerSpec, NothingAfterClose
=============================================================================
